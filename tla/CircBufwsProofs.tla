--------------------------- MODULE CircBufwsProofs ---------------------------
(***************************************************************************)
(* Theorems about CCircBufws for buffers, shadows and calls of every size. *)
(***************************************************************************)
EXTENDS CircBufws, TLAPS, SequenceTheorems

\* The stock that two ring pointers give is between nothing and the capacity.
LEMMA StockInRange ==
  ASSUME NEW q \in Nat, NEW h \in 0..q, NEW t \in 0..q
  PROVE  StockOf(h, t, q) \in 0..q
BY DEF StockOf

\* A pointer that moves forward by at most the capacity stays on the ring.
LEMMA ForwardInRange ==
  ASSUME qsize \in Nat, NEW p \in 0..qsize, NEW n \in 0..qsize
  PROVE  Forward(p, n) \in 0..qsize
BY DEF Forward, qboundary

\* A copy into the ring, of whatever length, leaves a block of elements.
LEMMA StoredType ==
  ASSUME TypeOK, NEW p \in 0..qsize, NEW d \in Seq(Byte)
  PROVE  Stored(p, d) \in [0 .. AllStorage - 1 -> Byte]
<1> DEFINE part1 == Part1(p, Len(d))
           part2 == Len(d) - part1
<1>1. Len(d) \in Nat /\ part1 \in 0..Len(d)
      BY DEF TypeOK, Part1, qboundary
<1>2. DOMAIN qbuf = 0 .. AllStorage - 1
      BY DEF TypeOK
<1>3. \A i \in 1..Len(d) : d[i] \in Byte
      OBVIOUS
<1>4. ASSUME NEW i \in 0 .. AllStorage - 1
      PROVE  (IF p <= i /\ i < p + part1 THEN d[i - p + 1]
              ELSE IF i < part2 THEN d[part1 + i + 1] ELSE qbuf[i]) \in Byte
  <2>1. CASE p <= i /\ i < p + part1
        BY <1>1, <1>3, <2>1 DEF TypeOK, AllStorage
  <2>2. CASE ~(p <= i /\ i < p + part1) /\ i < part2
        BY <1>1, <1>3, <2>2 DEF TypeOK, AllStorage
  <2>3. CASE ~(p <= i /\ i < p + part1) /\ ~(i < part2)
        BY <2>3 DEF TypeOK
  <2> QED BY <2>1, <2>2, <2>3
<1> QED BY <1>2, <1>4 DEF Stored

--------------------------------------------------------------------------------
\* The cells that a run of n elements from p on occupies, if it rewinds and if
\* it does not, are cells of the ring.
LEMMA RunInRing ==
  ASSUME qsize \in Nat, NEW p \in 0..qsize, NEW n \in 0..qsize
  PROVE  /\ Part1(p, n) \in 0..n
         /\ n - Part1(p, n) \in 0..qsize
         /\ Part1(p, n) < n => Forward(p, Part1(p, n)) = 0
BY DEF Part1, Forward, qboundary

\* The stock, the room left and the smaller of two counts, typed.
LEMMA CountsTyped ==
  ASSUME TypeOK
  PROVE  StockEles \in 0..qsize /\ VacantEles \in 0..qsize
<1>1. StockEles \in 0..qsize
      BY StockInRange DEF TypeOK, StockEles
<1> QED BY <1>1 DEF TypeOK, VacantEles

\* The end of a sequence is a sequence over the same elements.
LEMMA LastOfType ==
  ASSUME NEW S, NEW d \in Seq(S), NEW n \in 0..Len(d)
  PROVE  LastOf(d, n) \in Seq(S) /\ Len(LastOf(d, n)) = n
<1>1. Len(d) \in Nat OBVIOUS
<1>2. CASE n = 0
      BY <1>1, <1>2, SubSeqProperties DEF LastOf
<1>3. CASE n # 0
      BY <1>1, <1>3, SubSeqProperties DEF LastOf
<1> QED BY <1>2, <1>3

\* A string of a call is a sequence.
LEMMA StringsAreSequences ==
  ASSUME NEW n \in Nat, NEW d \in Strings(n)
  PROVE  d \in Seq(Byte) /\ Len(d) = n
BY DEF Strings

\* Put() and the two calls that put through it, once they have checked.
LEMMA PutFromType ==
  ASSUME TypeOK, qsize # 0,
         NEW h \in 0..qsize, NEW c \in Int, NEW n \in 0..qsize,
         NEW d \in Strings(n) \cup {NULL},
         PutFrom(h, c, n, d), UNCHANGED reading
  PROVE  TypeOK'
<1> DEFINE start == IF h = tail THEN 0 ELSE tail
           first == IF h = tail THEN 0 ELSE h
<1>1. start \in 0..qsize /\ first \in 0..qsize
      BY DEF TypeOK
<1>2. Forward(start, n) \in 0..qsize
      BY <1>1, ForwardInRange DEF TypeOK
<1>3. tail' = Forward(start, n) /\ head' = first
      BY DEF PutFrom
<1>4. qsize' = qsize /\ shadow' = shadow /\ AllStorage' = AllStorage
      BY DEF PutFrom, AllStorage
<1>5. qbuf' \in [0 .. AllStorage - 1 -> Byte]
  <2>1. CASE d = NULL
        BY <2>1 DEF PutFrom, TypeOK
  <2>2. CASE d # NULL
        BY <2>2, <1>1, StoredType, StringsAreSequences DEF PutFrom
  <2> QED BY <2>1, <2>2
<1>6. StockOf(first, Forward(start, n), qsize) \in Nat
  <2>1. qsize \in Nat
        BY DEF TypeOK
  <2> HIDE DEF start, first
  <2>2. StockOf(first, Forward(start, n), qsize) \in 0..qsize
        BY <1>1, <1>2, <2>1, StockInRange
  <2> QED BY <2>1, <2>2
<1>7. peakuse' \in Nat /\ cureles' \in Int
      BY <1>6 DEF PutFrom, PeakWith, HigherOf, TypeOK
<1> QED BY <1>1, <1>2, <1>3, <1>4, <1>5, <1>7 DEF TypeOK

\* ShadowRetrieveEnd(), for a storage m into which the elements were written.
LEMMA RetrieveType ==
  ASSUME TypeOK, NEW n \in Nat, n <= shadow, n <= qsize,
         NEW m, m \in [0 .. AllStorage - 1 -> Byte],
         NEW d, NEW overflow \in Int,
         Retrieve(n, d, m, overflow), reading' = Idle \/ UNCHANGED reading
  PROVE  TypeOK'
<1> DEFINE part2   == n - Part1(tail, n)
           newtail == IF part2 > 0 THEN part2 ELSE Forward(tail, Part1(tail, n))
           newhead == IF overflow > 0 THEN HeadAfter(newtail) ELSE head
<1>1. qsize \in Nat /\ shadow \in Nat /\ head \in 0..qsize /\ tail \in 0..qsize
      BY DEF TypeOK
<1>2. newtail \in 0..qsize
      BY <1>1 DEF Part1, Forward, qboundary
<1>3. newhead \in 0..qsize
      BY <1>1, <1>2 DEF HeadAfter, qboundary
<1>4. tail' = newtail /\ head' = newhead
      BY DEF Retrieve, RetrieveStart
<1>5. qsize' = qsize /\ shadow' = shadow /\ AllStorage' = AllStorage
      BY DEF Retrieve, AllStorage
<1>6. qbuf' \in [0 .. AllStorage - 1 -> Byte]
  <2>1. part2 \in Int /\ (part2 > 0 => part2 < shadow)
        BY <1>1 DEF Part1, qboundary
  <2>2. \A i \in 0 .. AllStorage - 1 : i < part2 => qboundary + i \in 0 .. AllStorage - 1
        BY <1>1, <2>1 DEF qboundary, AllStorage
  <2>3. qbuf' = [i \in 0 .. AllStorage - 1 |-> IF i < part2 THEN m[qboundary + i] ELSE m[i]]
        BY DEF Retrieve, RetrieveStart
  <2> HIDE DEF part2
  <2> QED BY <2>2, <2>3
<1>7. peakuse' \in Nat /\ cureles' \in Int
  <2> HIDE DEF newtail, newhead
  <2>1. StockOf(newhead, newtail, qsize) \in 0..qsize
        BY <1>1, <1>2, <1>3, StockInRange
  <2>2. peakuse' = PeakWith(newhead, newtail)
        BY DEF Retrieve, RetrieveStart, newhead, newtail
  <2>3. peakuse' \in Nat
        BY <1>1, <2>1, <2>2 DEF PeakWith, HigherOf, TypeOK
  <2>4. cureles' \in Int
        BY DEF Retrieve, HigherOf, TypeOK
  <2> QED BY <2>3, <2>4
<1>8. (reading = Idle)' \/ UNCHANGED reading
      BY DEF Idle
<1> HIDE DEF newtail, newhead
<1> QED BY <1>2, <1>3, <1>4, <1>5, <1>6, <1>7, <1>8 DEF TypeOK

--------------------------------------------------------------------------------
LEMMA InitTypeOK == Init => TypeOK
BY DEF Init, TypeOK, AllStorage

\* One step per call.
LEMMA NextTypeOK == TypeOK /\ [Next]_vars => TypeOK'
<1> SUFFICES ASSUME TypeOK, [Next]_vars PROVE TypeOK'
    OBVIOUS
<1> USE BoundsAssumption
<1>0. StockEles \in 0..qsize /\ VacantEles \in 0..qsize
      BY CountsTyped
<1>1. ASSUME NEW code, Returns(code) PROVE TypeOK'
      BY <1>1 DEF Returns, bufVars, TypeOK, AllStorage
<1>2. ASSUME NEW q \in 0..MaxQueue, NEW s \in -1..MaxShadow, Create(q, s)
      PROVE  TypeOK'
  <2>1. CASE q <= 0 \/ s < 0
        BY <1>1, <1>2, <2>1 DEF Create
  <2>2. CASE ~(q <= 0 \/ s < 0)
        BY <1>2, <2>2 DEF Create, TypeOK, AllStorage
  <2> QED BY <2>1, <2>2
<1>3. CASE Destroy
      BY <1>3 DEF Destroy, TypeOK, AllStorage
<1>4. ASSUME NEW n \in Counts, NEW d \in Strings(n) \cup {NULL}, Put(n, d)
      PROVE  TypeOK'
  <2>1. CASE 0 < n /\ n <= VacantEles /\ PutFrom(head, cureles, n, d) /\ UNCHANGED reading
    <3>1. n \in 0..qsize /\ qsize # 0 /\ head \in 0..qsize /\ cureles \in Int
          BY <1>0, <2>1 DEF Counts, TypeOK
    <3> QED BY <2>1, <3>1, PutFromType
  <2> QED BY <1>1, <1>4, <2>1 DEF Put
<1>5. ASSUME NEW n \in Counts, PutOverwriteRefused(n) PROVE TypeOK'
      BY <1>1, <1>5 DEF PutOverwriteRefused
<1>6. ASSUME NEW n \in Counts, NEW d \in Strings(n), PutOverwriteFits(n, d)
      PROVE  TypeOK'
  <2>1. CASE n = 0
        BY <1>6, <2>1 DEF PutOverwriteFits, bufVars, TypeOK, AllStorage
  <2>2. CASE n # 0
    <3>1. n \in 0..qsize /\ qsize # 0 /\ head \in 0..qsize /\ cureles \in Int
          BY <1>0, <1>6, <2>2 DEF PutOverwriteFits, Counts, TypeOK
    <3> QED BY <1>6, <2>2, <3>1, PutFromType DEF PutOverwriteFits
  <2> QED BY <2>1, <2>2
<1>7. ASSUME NEW n \in Counts, NEW d \in Strings(n), PutOverwriteSome(n, d)
      PROVE  TypeOK'
  <2> DEFINE over == n - VacantEles
             h    == Forward(head, over)
  <2>1. n \in 0..qsize /\ qsize # 0 /\ over \in 0..qsize
        BY <1>0, <1>7 DEF PutOverwriteSome, Counts, TypeOK
  <2>2. h \in 0..qsize /\ cureles - over \in Int
    <3>1. qsize \in Nat /\ head \in 0..qsize /\ cureles \in Int
          BY DEF TypeOK
    <3> HIDE DEF over
    <3>2. Forward(head, over) \in 0..qsize
          BY <2>1, <3>1, ForwardInRange
    <3>3. cureles - over \in Int
          BY <2>1, <3>1
    <3> QED BY <3>2, <3>3
  <2>3. PutFrom(h, cureles - over, n, d) /\ UNCHANGED reading
        BY <1>7 DEF PutOverwriteSome
  <2> QED BY <2>1, <2>2, <2>3, PutFromType
<1>8. ASSUME NEW n \in Counts, NEW d \in Strings(n), PutOverwriteAll(n, d)
      PROVE  TypeOK'
  <2>1. n \in Nat /\ qsize \in 0..n
        BY <1>8 DEF PutOverwriteAll, Counts, TypeOK
  <2>2. LastOf(d, qsize) \in Seq(Byte)
        BY <2>1, LastOfType, StringsAreSequences
  <2>3. Stored(0, LastOf(d, qsize)) \in [0 .. AllStorage - 1 -> Byte]
        BY <2>2, StoredType DEF TypeOK
  <2> QED BY <1>8, <2>3 DEF PutOverwriteAll, TypeOK, AllStorage
<1>9. ASSUME NEW n \in Counts, NEW d \in Strings(n), OverwriteHead(n, d)
      PROVE  TypeOK'
  <2>1. CASE /\ n >= 0 /\ qbuf' = Stored(head, d)
             /\ UNCHANGED <<qsize, shadow, head, tail, peakuse, cureles, reading>>
    <3>1. Stored(head, d) \in [0 .. AllStorage - 1 -> Byte]
          BY <2>1, StoredType, StringsAreSequences DEF Counts, TypeOK
    <3> QED BY <2>1, <3>1 DEF TypeOK, AllStorage
  <2>2. CASE LET exceed == HigherOf(0, n - qsize)
                 kept   == n - exceed
             IN /\ n >= 0
                /\ head' = 0 /\ tail' = kept
                /\ qbuf' = Stored(0, LastOf(d, kept))
                /\ cureles' = kept
                /\ UNCHANGED <<qsize, shadow, peakuse, reading>>
    <3> DEFINE kept == n - HigherOf(0, n - qsize)
    <3>1. n \in Nat /\ kept \in 0..n /\ kept \in 0..qsize
          BY <2>2 DEF HigherOf, Counts, TypeOK
    <3>2. LastOf(d, kept) \in Seq(Byte)
          BY <3>1, LastOfType, StringsAreSequences
    <3>3. Stored(0, LastOf(d, kept)) \in [0 .. AllStorage - 1 -> Byte]
          BY <3>2, StoredType DEF TypeOK
    <3> QED BY <2>2, <3>1, <3>3 DEF TypeOK, AllStorage
  <2> QED BY <1>1, <1>9, <2>1, <2>2 DEF OverwriteHead
<1>10. ASSUME NEW n \in Counts, Take(LowerOf(n, StockEles)), n >= 0 PROVE TypeOK'
  <2>1. LowerOf(n, StockEles) \in 0..qsize
        BY <1>0, <1>10 DEF LowerOf, Counts, TypeOK
  <2>2. Forward(head, LowerOf(n, StockEles)) \in 0..qsize
        BY <2>1, ForwardInRange DEF TypeOK
  <2> QED BY <1>10, <2>1, <2>2 DEF Take, TypeOK, AllStorage
<1>11. ASSUME NEW n \in Counts, Get(n) PROVE TypeOK'
       BY <1>1, <1>10, <1>11 DEF Get
<1>12. ASSUME NEW n \in Counts, NEW reset \in BOOLEAN, Clear(n, reset)
       PROVE  TypeOK'
  <2>1. CASE n < 0
    <3>1. head' = tail' /\ (tail' = 0 \/ tail' = tail)
      <4>1. CASE reset
            BY <1>12, <2>1, <4>1 DEF Clear, Counts
      <4>2. CASE ~reset
            BY <1>12, <2>1, <4>2 DEF Clear, DropAll, Counts
      <4> QED BY <4>1, <4>2
    <3>2. cureles' = 0 \/ cureles' \in Int
          BY <1>12, <2>1 DEF Clear, Counts
    <3>3. UNCHANGED <<qsize, shadow, qbuf, peakuse, reading>>
          BY <1>12, <2>1 DEF Clear, Counts
    <3> QED BY <3>1, <3>2, <3>3 DEF TypeOK, AllStorage
  <2>2. CASE ~(n < 0)
        BY <1>10, <1>12, <2>2 DEF Clear
  <2> QED BY <2>1, <2>2
<1>13. CASE ResetPtr
       BY <1>13 DEF ResetPtr, TypeOK, AllStorage
<1>14. CASE ResetPeakUsage
       BY <1>14 DEF ResetPeakUsage, TypeOK, AllStorage
<1>15. ASSUME NEW n \in Counts, ShadowPeekHead(n) PROVE TypeOK'
  <2>1. CASE n > shadow \/ n < 0
        BY <1>1, <1>15, <2>1 DEF ShadowPeekHead, TypeOK, Counts
  <2>2. CASE ~(n > shadow \/ n < 0)
    <3> DEFINE start == IF head = tail THEN 0 ELSE head
               part2 == n - Part1(start, n)
    <3>1. start \in 0..qsize /\ n \in 0..qsize /\ part2 \in 0..qsize
      <4>1. qsize \in Nat /\ start \in 0..qsize
            BY DEF TypeOK
      <4>2. n \in 0..qsize
            BY <1>15, <2>2, <4>1 DEF ShadowPeekHead, Counts
      <4> HIDE DEF start
      <4>3. n - Part1(start, n) \in 0..qsize
            BY <4>1, <4>2, RunInRing
      <4> QED BY <4>1, <4>2, <4>3
    <3>2. qbuf' = [i \in 0 .. AllStorage - 1 |->
                     IF qboundary <= i /\ i < qboundary + part2
                     THEN qbuf[i - qboundary] ELSE qbuf[i]]
          BY <1>15, <2>2 DEF ShadowPeekHead, TypeOK
    <3>3. \A i \in 0 .. AllStorage - 1 :
            qboundary <= i => i - qboundary \in 0 .. AllStorage - 1
          BY DEF AllStorage, qboundary, TypeOK
    <3>4. qbuf' \in [0 .. AllStorage - 1 -> Byte]
          BY <3>2, <3>3 DEF TypeOK
    <3> QED BY <1>15, <2>2, <3>1, <3>4 DEF ShadowPeekHead, TypeOK, AllStorage
  <2> QED BY <2>1, <2>2
<1>16. ASSUME NEW n \in Counts, BeginDeviceRead(n) PROVE TypeOK'
       BY <1>16 DEF BeginDeviceRead, bufVars, TypeOK, AllStorage, Counts
<1>17. ASSUME NEW n \in Counts, ShadowRetrieveRefused(n) PROVE TypeOK'
       BY <1>1, <1>17 DEF ShadowRetrieveRefused
<1>18. ASSUME NEW n \in 0..MaxEles, NEW d \in Strings(n), DeviceStore(d)
       PROVE  TypeOK'
  <2>1. d \in Seq(Byte) /\ Len(d) \in Nat /\ Len(d) <= reading.len
        BY <1>18, StringsAreSequences DEF DeviceStore
  <2>2. reading.at \in 0..qsize /\ reading.len \in 0..shadow
        BY <1>18 DEF DeviceStore, TypeOK
  <2>3. \A i \in 0 .. AllStorage - 1 :
          reading.at <= i /\ i < reading.at + Len(d) => d[i - reading.at + 1] \in Byte
        BY <2>1, <2>2 DEF TypeOK, AllStorage
  <2>4. qbuf' \in [0 .. AllStorage - 1 -> Byte]
        BY <1>18, <2>3 DEF DeviceStore, TypeOK
  <2>5. /\ reading'.at = reading.at /\ reading'.len = reading.len
        /\ reading'.data = d /\ reading'.stored = TRUE
        BY <1>18 DEF DeviceStore, TypeOK
  <2> QED BY <1>18, <2>1, <2>2, <2>4, <2>5 DEF DeviceStore, TypeOK, AllStorage
<1>19. CASE ShadowRetrieveEnd
  <2>1. CASE UNCHANGED bufVars
        BY <1>19, <2>1 DEF ShadowRetrieveEnd, bufVars, TypeOK, AllStorage, Idle
  <2>2. CASE /\ Len(reading.data) <= VacantEles
             /\ Retrieve(Len(reading.data), reading.data, qbuf,
                         Len(reading.data) - VacantEles)
    <3>1. Len(reading.data) \in Nat /\ Len(reading.data) <= shadow
          BY <1>19 DEF ShadowRetrieveEnd, TypeOK
    <3>2. Len(reading.data) <= qsize /\ Len(reading.data) - VacantEles \in Int
          BY <1>0, <2>2, <3>1 DEF TypeOK
    <3>3. reading' = Idle /\ qbuf \in [0 .. AllStorage - 1 -> Byte]
          BY <1>19 DEF ShadowRetrieveEnd, TypeOK
    <3> QED BY <2>2, <3>1, <3>2, <3>3, RetrieveType
  <2> QED BY <1>19, <2>1, <2>2 DEF ShadowRetrieveEnd
<1>20. ASSUME NEW n \in Counts, NEW d \in Strings(n), ShadowStoreOverwrite(n, d)
       PROVE  TypeOK'
  <2> DEFINE m == [i \in DOMAIN qbuf |->
                     IF tail <= i /\ i < tail + n THEN d[i - tail + 1] ELSE qbuf[i]]
  <2>1. n \in Nat /\ n <= shadow /\ n <= qsize /\ n - VacantEles \in Int
        BY <1>0, <1>20 DEF ShadowStoreOverwrite, Counts, TypeOK
  <2>2. d \in Seq(Byte) /\ Len(d) = n
        BY <2>1, StringsAreSequences
  <2>3. \A i \in 0 .. AllStorage - 1 :
          tail <= i /\ i < tail + n => d[i - tail + 1] \in Byte
        BY <2>1, <2>2 DEF TypeOK, AllStorage
  <2>4. m \in [0 .. AllStorage - 1 -> Byte]
        BY <2>3 DEF TypeOK
  <2>5. Retrieve(n, d, m, n - VacantEles) /\ UNCHANGED reading
        BY <1>20 DEF ShadowStoreOverwrite
  <2> HIDE DEF m
  <2> QED BY <2>1, <2>4, <2>5, RetrieveType
<1>21. CASE UNCHANGED vars
       BY <1>21 DEF vars, TypeOK, AllStorage
<1> QED
  BY <1>2, <1>3, <1>4, <1>5, <1>6, <1>7, <1>8, <1>9, <1>11, <1>12, <1>13, <1>14,
     <1>15, <1>16, <1>17, <1>18, <1>19, <1>20, <1>21 DEF Next

\* Whatever sizes a client asks for and in whatever order it calls, with a
\* device writing between its calls, no pointer leaves the ring and no device
\* read the allocated block.
THEOREM TypeCorrect == Spec => []TypeOK
BY InitTypeOK, NextTypeOK, PTL DEF Spec

--------------------------------------------------------------------------------
\* A tail that moves forward over room that is there adds to the stock.
LEMMA StockGrows ==
  ASSUME qsize \in Nat, NEW h \in 0..qsize, NEW t \in 0..qsize,
         NEW n \in 0 .. (qsize - StockOf(h, t, qsize))
  PROVE  StockOf(h, Forward(t, n), qsize) = StockOf(h, t, qsize) + n
BY DEF StockOf, Forward, qboundary

\* A head that moves forward over stock that is there takes it away.
LEMMA StockShrinks ==
  ASSUME qsize \in Nat, NEW h \in 0..qsize, NEW t \in 0..qsize,
         NEW n \in 0..StockOf(h, t, qsize)
  PROVE  StockOf(Forward(h, n), t, qsize) = StockOf(h, t, qsize) - n
BY DEF StockOf, Forward, qboundary

\* Put() keeps the count exact if what it finds is exact.
LEMMA PutFromExact ==
  ASSUME TypeOK, NEW h \in 0..qsize, NEW c \in Int, NEW n \in Nat, NEW d,
         c = StockOf(h, tail, qsize), n <= qsize - c, PutFrom(h, c, n, d)
  PROVE  CurElesExact'
<1> DEFINE start == IF h = tail THEN 0 ELSE tail
           first == IF h = tail THEN 0 ELSE h
<1>1. qsize \in Nat /\ start \in 0..qsize /\ first \in 0..qsize
      BY DEF TypeOK
<1>2. StockOf(first, start, qsize) = c
      BY <1>1 DEF StockOf
<1>3. head' = first /\ tail' = Forward(start, n) /\ qsize' = qsize /\ cureles' = c + n
      BY DEF PutFrom
<1> HIDE DEF start, first
<1>4. n \in 0 .. (qsize - StockOf(first, start, qsize))
      BY <1>1, <1>2
<1>5. StockOf(first, Forward(start, n), qsize) = c + n
      BY <1>1, <1>2, <1>4, StockGrows
<1> QED BY <1>3, <1>5 DEF CurElesExact, StockEles

\* ShadowRetrieveEnd() keeps the count exact, with and without overwriting.
LEMMA RetrieveExact ==
  ASSUME TypeOK, CurElesExact, NEW n \in Nat, n <= qsize, NEW d, NEW m,
         Retrieve(n, d, m, n - VacantEles)
  PROVE  CurElesExact'
<1> DEFINE newtail == IF n - Part1(tail, n) > 0 THEN n - Part1(tail, n)
                      ELSE Forward(tail, Part1(tail, n))
           newhead == IF n - VacantEles > 0 THEN HeadAfter(newtail) ELSE head
<1>1. qsize \in Nat /\ head \in 0..qsize /\ tail \in 0..qsize
      BY DEF TypeOK
<1>2. StockEles \in 0..qsize /\ VacantEles = qsize - StockEles
      BY CountsTyped DEF VacantEles
<1>3. /\ head' = newhead /\ tail' = newtail /\ qsize' = qsize
      /\ cureles' = StockEles + n - HigherOf(0, n - VacantEles)
      BY DEF Retrieve, RetrieveStart, CurElesExact
<1>4. newtail = Forward(tail, n) /\ newtail \in 0..qsize
      BY <1>1 DEF Part1, Forward, qboundary
<1>5. CASE n > VacantEles
  <2>1. newhead = HeadAfter(newtail) /\ cureles' = qsize
    <3> HIDE DEF newtail
    <3>1. HigherOf(0, n - VacantEles) = n - VacantEles /\ n - VacantEles > 0
          BY <1>1, <1>2, <1>5 DEF HigherOf
    <3> QED BY <1>1, <1>2, <1>3, <3>1
  <2>2. qsize # 0
        BY <1>2, <1>5
  <2> HIDE DEF newtail, newhead
  <2>3. StockOf(newhead, newtail, qsize) = qsize
        BY <1>1, <1>4, <2>1, <2>2 DEF StockOf, HeadAfter, qboundary
  <2> QED BY <1>3, <2>1, <2>3 DEF CurElesExact, StockEles
<1>6. CASE ~(n > VacantEles)
  <2>1. newhead = head /\ cureles' = StockEles + n
        BY <1>2, <1>3, <1>6 DEF HigherOf
  <2>2. n \in 0 .. (qsize - StockOf(head, tail, qsize))
        BY <1>2, <1>6 DEF StockEles
  <2>3. StockOf(head, Forward(tail, n), qsize) = StockOf(head, tail, qsize) + n
        BY <1>1, <2>2, StockGrows
  <2> HIDE DEF newtail, newhead
  <2> QED BY <1>3, <1>4, <2>1, <2>3 DEF CurElesExact, StockEles
<1> QED BY <1>5, <1>6

\* The calls after which the count and the pointers disagree.
Drifting == {"ReInit", "OverwriteLong", "ResetStocked"}

LEMMA NextCurElesExact ==
  ASSUME Calls \cap Drifting = {}
  PROVE  TypeOK /\ CurElesExact /\ [Next]_vars => CurElesExact'
<1> SUFFICES ASSUME TypeOK, CurElesExact, [Next]_vars PROVE CurElesExact'
    OBVIOUS
<1>0. /\ qsize \in Nat /\ head \in 0..qsize /\ tail \in 0..qsize
      /\ StockEles \in 0..qsize /\ VacantEles = qsize - StockEles
      /\ cureles = StockEles /\ StockEles = StockOf(head, tail, qsize)
      BY CountsTyped DEF TypeOK, VacantEles, CurElesExact, StockEles
<1>1. ASSUME UNCHANGED <<qsize, head, tail, cureles>> PROVE CurElesExact'
      BY <1>1 DEF CurElesExact, StockEles
<1>2. ASSUME NEW code, Returns(code) PROVE CurElesExact'
      BY <1>1, <1>2 DEF Returns, bufVars
<1>3. ASSUME NEW q \in 0..MaxQueue, NEW s \in -1..MaxShadow, Create(q, s)
      PROVE  CurElesExact'
  <2>1. qsize = 0
        BY <1>3 DEF Create, Drifting
  <2>2. cureles = 0
        BY <1>0, <2>1
  <2>3. CASE q <= 0 \/ s < 0
        BY <1>2, <1>3, <2>3 DEF Create
  <2>4. CASE ~(q <= 0 \/ s < 0)
        BY <1>3, <2>2, <2>4 DEF Create, CurElesExact, StockEles, StockOf
  <2> QED BY <2>3, <2>4
<1>4. CASE Destroy
      BY <1>4 DEF Destroy, CurElesExact, StockEles, StockOf
<1>5. ASSUME NEW n \in Counts, NEW d \in Strings(n) \cup {NULL}, Put(n, d)
      PROVE  CurElesExact'
  <2>1. CASE 0 < n /\ n <= VacantEles /\ PutFrom(head, cureles, n, d)
        BY <1>0, <2>1, PutFromExact DEF Counts
  <2> QED BY <1>2, <1>5, <2>1 DEF Put
<1>6. ASSUME NEW n \in Counts, PutOverwriteRefused(n) PROVE CurElesExact'
      BY <1>2, <1>6 DEF PutOverwriteRefused
<1>7. ASSUME NEW n \in Counts, NEW d \in Strings(n), PutOverwriteFits(n, d)
      PROVE  CurElesExact'
  <2>1. CASE n = 0
        BY <1>1, <1>7, <2>1 DEF PutOverwriteFits, bufVars
  <2>2. CASE n # 0
    <3>1. n \in Nat /\ n <= VacantEles /\ PutFrom(head, cureles, n, d)
          BY <1>7, <2>2 DEF PutOverwriteFits, Counts
    <3> QED BY <1>0, <3>1, PutFromExact
  <2> QED BY <2>1, <2>2
<1>8. ASSUME NEW n \in Counts, NEW d \in Strings(n), PutOverwriteSome(n, d)
      PROVE  CurElesExact'
  <2> DEFINE over == n - VacantEles
  <2>1. n \in Nat /\ n <= qsize /\ over \in 0..StockEles
        BY <1>0, <1>8 DEF PutOverwriteSome, Counts
  <2>2. PutFrom(Forward(head, over), cureles - over, n, d)
        BY <1>8 DEF PutOverwriteSome
  <2>3. cureles - over \in Int /\ n <= qsize - (cureles - over)
        BY <1>0, <2>1
  <2> HIDE DEF over
  <2>4. over \in 0..qsize
        BY <1>0, <2>1
  <2>5. Forward(head, over) \in 0..qsize
        BY <1>0, <2>4, ForwardInRange
  <2>6. StockOf(Forward(head, over), tail, qsize) = cureles - over
        BY <1>0, <2>1, StockShrinks
  <2> QED BY <2>1, <2>2, <2>3, <2>5, <2>6, PutFromExact
<1>9. ASSUME NEW n \in Counts, NEW d \in Strings(n), PutOverwriteAll(n, d)
      PROVE  CurElesExact'
  <2>1. qsize = 0 /\ qsize' = qsize /\ head' = 0 /\ tail' = 0 /\ cureles' = qsize
        BY <1>9 DEF PutOverwriteAll, Drifting
  <2> QED BY <2>1 DEF CurElesExact, StockEles, StockOf
<1>10. ASSUME NEW n \in Counts, NEW d \in Strings(n), OverwriteHead(n, d)
       PROVE  CurElesExact'
  <2>1. CASE UNCHANGED <<qsize, head, tail, cureles>>
        BY <1>1, <2>1
  <2>2. CASE LET kept == n - HigherOf(0, n - qsize)
             IN n >= 0 /\ head' = 0 /\ tail' = kept /\ cureles' = kept /\ qsize' = qsize
    <3> DEFINE kept == n - HigherOf(0, n - qsize)
    <3>1. kept \in 0..qsize
          BY <1>0, <2>2 DEF HigherOf, Counts
    <3>2. head' = 0 /\ tail' = kept /\ cureles' = kept /\ qsize' = qsize
          BY <2>2
    <3> HIDE DEF kept
    <3> QED BY <1>0, <3>1, <3>2 DEF CurElesExact, StockEles, StockOf
  <2> QED BY <1>2, <1>10, <2>1, <2>2 DEF OverwriteHead
<1>11. ASSUME NEW n \in Counts, n >= 0, Take(LowerOf(n, StockEles))
       PROVE  CurElesExact'
  <2> DEFINE taken == LowerOf(n, StockEles)
  <2>1. taken \in 0..StockEles
        BY <1>0, <1>11 DEF LowerOf, Counts
  <2>2. head' = Forward(head, taken) /\ cureles' = cureles - taken
        /\ tail' = tail /\ qsize' = qsize
        BY <1>11 DEF Take
  <2> HIDE DEF taken
  <2>3. StockOf(Forward(head, taken), tail, qsize) = StockEles - taken
        BY <1>0, <2>1, StockShrinks
  <2> QED BY <1>0, <2>2, <2>3 DEF CurElesExact, StockEles
<1>12. ASSUME NEW n \in Counts, Get(n) PROVE CurElesExact'
       BY <1>2, <1>11, <1>12 DEF Get
<1>13. ASSUME NEW n \in Counts, NEW reset \in BOOLEAN, Clear(n, reset)
       PROVE  CurElesExact'
  <2>1. CASE n < 0
    <3>1. head' = tail' /\ tail' \in Int
      <4>1. CASE reset
            BY <1>13, <2>1, <4>1 DEF Clear, Counts
      <4>2. CASE ~reset
            BY <1>0, <1>13, <2>1, <4>2 DEF Clear, DropAll, Counts
      <4> QED BY <4>1, <4>2
    <3>2. cureles' = 0 /\ qsize' = qsize
          BY <1>13, <2>1 DEF Clear, Counts
    <3>3. StockOf(head', tail', qsize') = 0
      <4>1. \A x \in Int, q \in Nat : StockOf(x, x, q) = 0
            BY DEF StockOf
      <4>2. qsize' \in Nat
            BY <1>0, <3>2
      <4> QED BY <3>1, <4>1, <4>2
    <3> QED BY <3>2, <3>3 DEF CurElesExact, StockEles
  <2>2. CASE ~(n < 0)
        BY <1>11, <1>13, <2>2 DEF Clear
  <2> QED BY <2>1, <2>2
<1>14. CASE ResetPtr
  <2>1. cureles = 0 /\ cureles' = cureles /\ head' = 0 /\ tail' = 0 /\ qsize' = qsize
        BY <1>14 DEF ResetPtr, Drifting
  <2> QED BY <2>1 DEF CurElesExact, StockEles, StockOf
<1>15. CASE ResetPeakUsage
       BY <1>1, <1>15 DEF ResetPeakUsage
<1>16. ASSUME NEW n \in Counts, ShadowPeekHead(n) PROVE CurElesExact'
  <2>1. CASE UNCHANGED bufVars
        BY <1>1, <2>1 DEF bufVars
  <2>2. CASE /\ head' = IF head = tail THEN 0 ELSE head
             /\ tail' = IF head = tail THEN 0 ELSE tail
             /\ UNCHANGED <<qsize, cureles>>
        BY <1>0, <2>2 DEF CurElesExact, StockEles, StockOf
  <2> QED BY <1>16, <2>1, <2>2 DEF ShadowPeekHead, Returns
<1>17. ASSUME NEW n \in Counts, BeginDeviceRead(n) PROVE CurElesExact'
       BY <1>1, <1>17 DEF BeginDeviceRead, bufVars
<1>18. ASSUME NEW n \in Counts, ShadowRetrieveRefused(n) PROVE CurElesExact'
       BY <1>2, <1>18 DEF ShadowRetrieveRefused
<1>19. ASSUME NEW d, DeviceStore(d) PROVE CurElesExact'
       BY <1>1, <1>19 DEF DeviceStore
<1>20. CASE ShadowRetrieveEnd
  <2>1. CASE UNCHANGED bufVars
        BY <1>1, <2>1 DEF bufVars
  <2>2. CASE /\ Len(reading.data) <= VacantEles
             /\ Retrieve(Len(reading.data), reading.data, qbuf,
                         Len(reading.data) - VacantEles)
    <3>1. Len(reading.data) \in Nat
          BY <1>20 DEF ShadowRetrieveEnd, TypeOK
    <3>2. Len(reading.data) <= qsize
          BY <1>0, <2>2, <3>1
    <3> QED BY <2>2, <3>1, <3>2, RetrieveExact
  <2> QED BY <1>20, <2>1, <2>2 DEF ShadowRetrieveEnd
<1>21. ASSUME NEW n \in Counts, NEW d \in Strings(n), ShadowStoreOverwrite(n, d)
       PROVE  CurElesExact'
       BY <1>21, RetrieveExact DEF ShadowStoreOverwrite, Counts
<1>22. CASE UNCHANGED vars
       BY <1>1, <1>22 DEF vars
<1> QED
  BY <1>3, <1>4, <1>5, <1>6, <1>7, <1>8, <1>9, <1>10, <1>12, <1>13, <1>14, <1>15,
     <1>16, <1>17, <1>18, <1>19, <1>20, <1>21, <1>22 DEF Next

\* The assertion in StockEles() never fails, for a client that pairs Init()
\* with Destroy(), calls ResetPtr() on an empty buffer only, and never overwrites
\* with data as long as the whole buffer.
THEOREM CountExact ==
  ASSUME Calls \cap Drifting = {}
  PROVE  Spec => []CurElesExact
<1>1. Init => CurElesExact
      BY DEF Init, CurElesExact, StockEles, StockOf
<1> QED BY <1>1, TypeCorrect, NextCurElesExact, PTL DEF Spec

--------------------------------------------------------------------------------
\* The calls of a consumer that move the tail under a pending device read.
TailMoving == {"ClearReset", "ResetStocked", "PeekBeyond"}

LEMMA NextDeviceTargetStable ==
  ASSUME Calls \cap TailMoving = {}
  PROVE  TypeOK /\ DeviceTargetStable /\ [Next]_vars => DeviceTargetStable'
<1> SUFFICES ASSUME TypeOK, DeviceTargetStable, [Next]_vars PROVE DeviceTargetStable'
    OBVIOUS
<1>1. ASSUME UNCHANGED <<tail, reading>> PROVE DeviceTargetStable'
      BY <1>1 DEF DeviceTargetStable
<1>2. ASSUME reading' = Idle PROVE DeviceTargetStable'
      BY <1>2 DEF DeviceTargetStable, Idle
<1>3. ASSUME NEW code, Returns(code) PROVE DeviceTargetStable'
      BY <1>1, <1>3 DEF Returns, bufVars
<1>4. ASSUME NEW q \in 0..MaxQueue, NEW s \in -1..MaxShadow, Create(q, s)
      PROVE  DeviceTargetStable'
      BY <1>2, <1>3, <1>4 DEF Create
<1>5. CASE Destroy
      BY <1>2, <1>5 DEF Destroy
<1>6. ASSUME NEW n \in Counts, NEW d \in Strings(n) \cup {NULL}, Put(n, d)
      PROVE  DeviceTargetStable'
      BY <1>2, <1>3, <1>6 DEF Put, Producer
<1>7. ASSUME NEW n \in Counts, PutOverwriteRefused(n) PROVE DeviceTargetStable'
      BY <1>3, <1>7 DEF PutOverwriteRefused
<1>8. ASSUME NEW n \in Counts, NEW d \in Strings(n),
             \/ PutOverwriteFits(n, d) \/ PutOverwriteSome(n, d)
             \/ PutOverwriteAll(n, d) \/ OverwriteHead(n, d)
             \/ ShadowStoreOverwrite(n, d)
      PROVE  DeviceTargetStable'
  <2>1. CASE reading' = reading
        BY <1>2, <1>8, <2>1 DEF Producer, PutOverwriteFits, PutOverwriteSome,
           PutOverwriteAll, OverwriteHead, ShadowStoreOverwrite
  <2>2. CASE \E code : Returns(code)
        BY <1>3, <2>2
  <2> QED BY <1>8, <2>1, <2>2 DEF PutOverwriteFits, PutOverwriteSome,
             PutOverwriteAll, OverwriteHead, ShadowStoreOverwrite
<1>9. ASSUME NEW n \in Counts, Get(n) PROVE DeviceTargetStable'
      BY <1>1, <1>3, <1>9 DEF Get, Take
<1>10. ASSUME NEW n \in Counts, NEW reset \in BOOLEAN, Clear(n, reset)
       PROVE  DeviceTargetStable'
  <2>1. CASE n < 0
    <3>1. CASE reset
      <4>1. reading = Idle /\ reading' = reading
            BY <1>10, <2>1, <3>1 DEF Clear, Counts, TailMoving
      <4> QED BY <1>2, <4>1
    <3>2. CASE ~reset
          BY <1>1, <1>10, <2>1, <3>2 DEF Clear, DropAll, Counts
    <3> QED BY <3>1, <3>2
  <2>2. CASE ~(n < 0)
        BY <1>1, <1>10, <2>2 DEF Clear, Take
  <2> QED BY <2>1, <2>2
<1>11. CASE ResetPtr
       BY <1>2, <1>11 DEF ResetPtr, TailMoving
<1>12. CASE ResetPeakUsage
       BY <1>1, <1>12 DEF ResetPeakUsage
<1>13. ASSUME NEW n \in Counts, ShadowPeekHead(n) PROVE DeviceTargetStable'
  <2>1. CASE tail' = tail /\ reading' = reading
        BY <1>1, <2>1
  <2>2. CASE head = tail /\ "PeekBeyond" \in Calls
        BY <2>2 DEF TailMoving
  <2> QED BY <1>3, <1>13, <2>1, <2>2 DEF ShadowPeekHead
<1>14. ASSUME NEW n \in Counts, BeginDeviceRead(n) PROVE DeviceTargetStable'
       BY <1>14 DEF BeginDeviceRead, DeviceTargetStable, bufVars
<1>15. ASSUME NEW n \in Counts, ShadowRetrieveRefused(n) PROVE DeviceTargetStable'
       BY <1>3, <1>15 DEF ShadowRetrieveRefused
<1>16. ASSUME NEW d, DeviceStore(d) PROVE DeviceTargetStable'
  <2>1. reading # Idle /\ tail' = tail
        BY <1>16 DEF DeviceStore
  <2>2. reading'.at = reading.at
        BY <1>16 DEF DeviceStore, TypeOK
  <2> QED BY <2>1, <2>2 DEF DeviceTargetStable
<1>17. CASE ShadowRetrieveEnd
       BY <1>2, <1>17 DEF ShadowRetrieveEnd
<1>18. CASE UNCHANGED vars
       BY <1>1, <1>18 DEF vars
<1> QED
  BY <1>4, <1>5, <1>6, <1>7, <1>8, <1>9, <1>10, <1>11, <1>12, <1>13, <1>14, <1>15,
     <1>16, <1>17, <1>18 DEF Next

\* A consumer that gets, clears without rewinding, and peeks what is in stock
\* never moves the tail from under a device that is writing there.
THEOREM DeviceTargetKept ==
  ASSUME Calls \cap TailMoving = {}
  PROVE  Spec => []DeviceTargetStable
<1>1. Init => DeviceTargetStable
      BY DEF Init, DeviceTargetStable
<1> QED BY <1>1, TypeCorrect, NextDeviceTargetStable, PTL DEF Spec

--------------------------------------------------------------------------------
\* What PeakFollowsGrowth says of a step.
PeakStep == StockEles' > StockEles => peakuse' >= StockEles' \/ OverwritesHead

\* A call that updates the peak usage is right whatever it did to the pointers.
LEMMA PeakUpdated ==
  ASSUME TypeOK, TypeOK', UNCHANGED qsize, peakuse' = PeakWith(head', tail')
  PROVE  PeakStep
<1>1. peakuse' = HigherOf(peakuse, StockEles')
      BY DEF PeakWith, StockEles
<1>2. peakuse \in Nat
      BY DEF TypeOK
<1>3. StockEles' \in 0..qsize' /\ qsize' \in Nat
      BY StockInRange DEF TypeOK, StockEles
<1> QED BY <1>1, <1>2, <1>3 DEF PeakStep, HigherOf

\* A call that leaves the stock no larger need not update it.
LEMMA StockNotGrown ==
  ASSUME TypeOK, TypeOK', StockEles' <= StockEles
  PROVE  PeakStep
<1>1. StockEles \in 0..qsize /\ qsize \in Nat
      BY StockInRange DEF TypeOK, StockEles
<1>2. StockEles' \in 0..qsize' /\ qsize' \in Nat
      BY StockInRange DEF TypeOK, StockEles
<1> QED BY <1>1, <1>2 DEF PeakStep

LEMMA RingKept ==
  ASSUME TypeOK, TypeOK', UNCHANGED <<qsize, head, tail>>
  PROVE  PeakStep
<1>1. StockEles' = StockEles
      BY DEF StockEles
<1>2. StockEles \in 0..qsize /\ qsize \in Nat
      BY StockInRange DEF TypeOK, StockEles
<1> QED BY <1>1, <1>2 DEF PeakStep

LEMMA SameCellNoStock ==
  ASSUME NEW q \in Nat, NEW p \in 0..q
  PROVE  StockOf(p, p, q) = 0
BY DEF StockOf

LEMMA RingEmptied ==
  ASSUME TypeOK, TypeOK', head' = tail'
  PROVE  PeakStep
<1>1. StockEles' = 0
  <2>1. qsize' \in Nat /\ tail' \in 0..qsize'
        BY DEF TypeOK
  <2>2. StockEles' = StockOf(tail', tail', qsize')
        BY DEF StockEles
  <2> QED BY <2>1, <2>2, SameCellNoStock
<1>2. StockEles \in 0..qsize /\ qsize \in Nat
      BY StockInRange DEF TypeOK, StockEles
<1> QED BY <1>1, <1>2 DEF PeakStep

LEMMA TakeShrinks ==
  ASSUME TypeOK, TypeOK', NEW n \in Nat, Take(LowerOf(n, StockEles))
  PROVE  PeakStep
<1> DEFINE m == LowerOf(n, StockEles)
<1>1. StockEles \in 0..qsize /\ qsize \in Nat
      BY StockInRange DEF TypeOK, StockEles
<1>2. m \in 0..StockEles
      BY <1>1 DEF LowerOf
<1>3. StockEles' = StockEles - m
      BY <1>1, <1>2, StockShrinks DEF Take, StockEles, TypeOK
<1> QED BY <1>1, <1>2, <1>3, StockNotGrown

LEMMA NextPeak == TypeOK /\ TypeOK' /\ [Next]_vars => PeakStep
<1> SUFFICES ASSUME TypeOK, TypeOK', [Next]_vars PROVE PeakStep
    OBVIOUS
<1>1. ASSUME NEW code, Returns(code) PROVE PeakStep
      BY <1>1, RingKept DEF Returns, bufVars
<1>2. ASSUME NEW h, NEW c, NEW n, NEW d, PutFrom(h, c, n, d) PROVE PeakStep
      BY <1>2, PeakUpdated DEF PutFrom
<1>3. ASSUME NEW n, NEW d, NEW m, NEW overflow, Retrieve(n, d, m, overflow)
      PROVE  PeakStep
      BY <1>3, PeakUpdated DEF Retrieve
<1>4. ASSUME NEW q \in 0..MaxQueue, NEW s \in -1..MaxShadow, Create(q, s) PROVE PeakStep
      BY <1>1, <1>4, RingEmptied DEF Create
<1>5. CASE Destroy
      BY <1>5, RingEmptied DEF Destroy
<1>6. ASSUME NEW n \in Counts, NEW d, Put(n, d) PROVE PeakStep
      BY <1>1, <1>2, <1>6 DEF Put
<1>7. ASSUME NEW n \in Counts, PutOverwriteRefused(n) PROVE PeakStep
      BY <1>1, <1>7 DEF PutOverwriteRefused
<1>8. ASSUME NEW n \in Counts, NEW d, PutOverwriteFits(n, d) PROVE PeakStep
      BY <1>2, <1>8, RingKept DEF PutOverwriteFits, bufVars
<1>9. ASSUME NEW n \in Counts, NEW d, PutOverwriteSome(n, d) PROVE PeakStep
      BY <1>2, <1>9 DEF PutOverwriteSome
<1>10. ASSUME NEW n \in Counts, NEW d, PutOverwriteAll(n, d) PROVE PeakStep
       BY <1>10, RingEmptied DEF PutOverwriteAll
<1>11. ASSUME NEW n \in Counts, NEW d \in Strings(n), OverwriteHead(n, d) PROVE PeakStep
       BY <1>11 DEF OverwritesHead, PeakStep
<1>12. ASSUME NEW n \in Counts, NEW d, ShadowStoreOverwrite(n, d) PROVE PeakStep
       BY <1>3, <1>12 DEF ShadowStoreOverwrite
<1>13. ASSUME NEW n \in Counts, Get(n) PROVE PeakStep
       BY <1>1, <1>13, TakeShrinks DEF Get, Counts
<1>14. ASSUME NEW n \in Counts, NEW reset \in BOOLEAN, Clear(n, reset) PROVE PeakStep
  <2>1. CASE n < 0
    <3>1. head' = tail'
          BY <1>14, <2>1 DEF Clear, DropAll, Counts
    <3> QED BY <3>1, RingEmptied
  <2>2. CASE ~(n < 0)
        BY <1>14, <2>2, TakeShrinks DEF Clear, Counts
  <2> QED BY <2>1, <2>2
<1>15. CASE ResetPtr
       BY <1>15, RingEmptied DEF ResetPtr
<1>16. CASE ResetPeakUsage
       BY <1>16, RingKept DEF ResetPeakUsage
<1>17. ASSUME NEW n \in Counts, ShadowPeekHead(n) PROVE PeakStep
  <2>1. CASE head = tail /\ head' = tail'
        BY <2>1, RingEmptied
  <2>2. CASE UNCHANGED <<qsize, head, tail>>
        BY <2>2, RingKept
  <2> QED BY <1>1, <1>17, <2>1, <2>2 DEF ShadowPeekHead
<1>18. ASSUME NEW n \in Counts, BeginDeviceRead(n) PROVE PeakStep
       BY <1>18, RingKept DEF BeginDeviceRead, bufVars
<1>19. ASSUME NEW n \in Counts, ShadowRetrieveRefused(n) PROVE PeakStep
       BY <1>1, <1>19 DEF ShadowRetrieveRefused
<1>20. ASSUME NEW d, DeviceStore(d) PROVE PeakStep
       BY <1>20, RingKept DEF DeviceStore
<1>21. CASE ShadowRetrieveEnd
       BY <1>3, <1>21, RingKept DEF ShadowRetrieveEnd, bufVars
<1>22. CASE UNCHANGED vars
       BY <1>22, RingKept DEF vars
<1> QED
  BY <1>4, <1>5, <1>6, <1>7, <1>8, <1>9, <1>10, <1>11, <1>12, <1>13, <1>14, <1>15,
     <1>16, <1>17, <1>18, <1>19, <1>20, <1>21, <1>22 DEF Next

\* Whichever call makes the stock grow, the peak usage is not left behind, for
\* every client and every size; only OverwriteHead() is excepted.
THEOREM PeakCorrect == Spec => PeakFollowsGrowth
<1>1. TypeOK /\ TypeOK' /\ [Next]_vars => [PeakStep]_vars
      BY NextPeak
<1> QED
    BY <1>1, TypeCorrect, PTL DEF Spec, PeakFollowsGrowth, PeakStep

--------------------------------------------------------------------------------
(***************************************************************************)
(* The refinement: what lies between the pointers is a queue of elements.  *)
(***************************************************************************)
\* The cell n places after p on a ring of q+1 cells, the n elements from p on,
\* and what a client of the queue sees.
Wrap(p, n, q) == IF p + n >= q + 1 THEN p + n - (q + 1) ELSE p + n

Run(b, p, n, q) == [i \in 1..n |-> b[Wrap(p, i - 1, q)]]

Content == Run(qbuf, head, StockEles, qsize)

\* Storage b2 is storage b with d written into the ring from p on.
Writes(b, b2, p, d, q) ==
  \A i \in 0..q : b2[Wrap(p, i, q)] = IF i < Len(d) THEN d[i + 1] ELSE b[Wrap(p, i, q)]

\* A storage with a ring of q+1 cells in it.
Holds(b, q) == \A i \in 0..q : b[i] \in Byte

LEMMA WrapInRing ==
  ASSUME NEW q \in Nat, NEW p \in 0..q, NEW n \in 0..q
  PROVE  Wrap(p, n, q) \in 0..q
BY DEF Wrap

LEMMA WrapWrap ==
  ASSUME NEW q \in Nat, NEW p \in 0..q, NEW m \in 0..q, NEW n \in 0 .. (q - m)
  PROVE  Wrap(Wrap(p, m, q), n, q) = Wrap(p, m + n, q)
BY DEF Wrap

\* Where the stock ends is the tail, and a cell of the stock is one of those
\* that follow the vacant ones.
LEMMA StockEnds ==
  ASSUME NEW q \in Nat, NEW h \in 0..q, NEW t \in 0..q
  PROVE  Wrap(h, StockOf(h, t, q), q) = t
BY DEF Wrap, StockOf

LEMMA WrapBack ==
  ASSUME NEW q \in Nat, NEW h \in 0..q, NEW s \in 0..q, NEW i \in 0 .. (s - 1)
  PROVE  Wrap(h, i, q) = Wrap(Wrap(h, s, q), q + 1 - s + i, q)
BY DEF Wrap

\* When a sequence is the concatenation of two, and what its end is.
LEMMA IsConcat ==
  ASSUME NEW S, NEW s \in Seq(S), NEW t \in Seq(S), NEW u \in Seq(S),
         Len(u) = Len(s) + Len(t), \A i \in 1..Len(s) : u[i] = s[i],
         \A i \in 1..Len(t) : u[Len(s) + i] = t[i]
  PROVE  u = s \o t
<1>1. /\ s \o t \in Seq(S) /\ Len(s \o t) = Len(s) + Len(t)
      /\ \A i \in 1 .. Len(s) + Len(t) :
            (s \o t)[i] = IF i <= Len(s) THEN s[i] ELSE t[i - Len(s)]
      BY ConcatProperties
<1>2. Len(s) \in Nat /\ Len(t) \in Nat
      OBVIOUS
<1>3. \A i \in 1..Len(u) : u[i] = (s \o t)[i]
  <2> TAKE i \in 1..Len(u)
  <2>1. CASE i <= Len(s)
        BY <1>1, <1>2, <2>1
  <2>2. CASE ~(i <= Len(s))
    <3>1. i - Len(s) \in 1..Len(t) /\ Len(s) + (i - Len(s)) = i
          BY <1>2, <2>2
    <3>2. u[i] = t[i - Len(s)]
          BY <3>1
    <3> QED BY <1>1, <1>2, <2>2, <3>2
  <2> QED BY <2>1, <2>2
<1> QED BY <1>1, <1>3, SeqEqual

LEMMA EndOf ==
  ASSUME NEW S, NEW s \in Seq(S), NEW k \in 0..Len(s)
  PROVE  /\ SubSeq(s, k + 1, Len(s)) \in Seq(S)
         /\ Len(SubSeq(s, k + 1, Len(s))) = Len(s) - k
         /\ \A i \in 1 .. (Len(s) - k) : SubSeq(s, k + 1, Len(s))[i] = s[k + i]
<1>1. Len(s) \in Nat
      OBVIOUS
<1>2. \A i \in k + 1 .. Len(s) : s[i] \in S
      BY <1>1
<1>3. /\ SubSeq(s, k + 1, Len(s)) \in Seq(S)
      /\ Len(SubSeq(s, k + 1, Len(s))) = IF k + 1 <= Len(s) THEN Len(s) - (k + 1) + 1 ELSE 0
      /\ \A i \in 1 .. Len(s) - (k + 1) + 1 : SubSeq(s, k + 1, Len(s))[i] = s[k + 1 + i - 1]
      BY <1>1, <1>2, SubSeqProperties
<1> DEFINE e == SubSeq(s, k + 1, Len(s))
<1> HIDE DEF e
<1>4. e \in Seq(S) /\ Len(e) = Len(s) - k
      BY <1>1, <1>3 DEF e
<1>5. \A i \in 1 .. (Len(s) - k) : e[i] = s[k + i]
  <2> TAKE i \in 1 .. (Len(s) - k)
  <2>1. i \in 1 .. Len(s) - (k + 1) + 1 /\ k + 1 + i - 1 = k + i
        BY <1>1
  <2> QED BY <1>3, <2>1 DEF e
<1> QED BY <1>4, <1>5 DEF e

\* A run is a sequence of as many elements, those of its cells.
RunIs(b, p, n, q) ==
  /\ Run(b, p, n, q) \in Seq(Byte)
  /\ Len(Run(b, p, n, q)) = n
  /\ \A i \in 1..n : Run(b, p, n, q)[i] = b[Wrap(p, i - 1, q)]

LEMMA RunType ==
  ASSUME NEW q \in Nat, NEW b, Holds(b, q), NEW p \in 0..q, NEW n \in 0..q
  PROVE  RunIs(b, p, n, q)
<1>1. \A i \in 1..n : b[Wrap(p, i - 1, q)] \in Byte
  <2> TAKE i \in 1..n
  <2>1. i - 1 \in 0..q
        OBVIOUS
  <2>2. Wrap(p, i - 1, q) \in 0..q
        BY <2>1, WrapInRing
  <2> QED BY <2>2 DEF Holds
<1>2. Run(b, p, n, q) \in [1..n -> Byte]
      BY <1>1 DEF Run
<1>3. n \in Nat
      OBVIOUS
<1>4. Run(b, p, n, q) \in Seq(Byte) /\ Len(Run(b, p, n, q)) = n
      BY <1>2, <1>3
<1>5. \A i \in 1..n : Run(b, p, n, q)[i] = b[Wrap(p, i - 1, q)]
      BY DEF Run
<1> QED BY <1>4, <1>5 DEF RunIs

\* A run without its first elements is the run that starts after them.
LEMMA RunAfter ==
  ASSUME NEW q \in Nat, NEW b, Holds(b, q), NEW h \in 0..q, NEW s \in 0..q,
         NEW k \in 0..s
  PROVE  Run(b, Wrap(h, k, q), s - k, q) = SubSeq(Run(b, h, s, q), k + 1, s)
<1> DEFINE whole == Run(b, h, s, q)
           rest == Run(b, Wrap(h, k, q), s - k, q)
           cut == SubSeq(whole, k + 1, s)
<1>1. /\ whole \in Seq(Byte) /\ Len(whole) = s
      /\ \A i \in 1..s : whole[i] = b[Wrap(h, i - 1, q)]
      BY RunType DEF RunIs
<1>2. k \in 0..q /\ s - k \in 0..q
      OBVIOUS
<1>21. Wrap(h, k, q) \in 0..q
      BY <1>2, WrapInRing
<1>3. /\ rest \in Seq(Byte) /\ Len(rest) = s - k
      /\ \A i \in 1 .. (s - k) : rest[i] = b[Wrap(Wrap(h, k, q), i - 1, q)]
  <2> DEFINE p == Wrap(h, k, q)
             n == s - k
  <2>1. p \in 0..q /\ n \in 0..q
        BY <1>2, <1>21
  <2> HIDE DEF p, n
  <2>2. /\ Run(b, p, n, q) \in Seq(Byte) /\ Len(Run(b, p, n, q)) = n
        /\ \A i \in 1..n : Run(b, p, n, q)[i] = b[Wrap(p, i - 1, q)]
    <3>1. RunIs(b, p, n, q)
          BY <2>1, RunType
    <3> QED BY <3>1 DEF RunIs
  <2> QED BY <2>2 DEF p, n
<1>4. \A i \in 1 .. (s - k) : rest[i] = b[Wrap(h, k + (i - 1), q)]
      BY <1>3, WrapWrap
<1> HIDE DEF whole, rest
<1>5. cut \in Seq(Byte) /\ Len(cut) = s - k /\ \A i \in 1 .. (s - k) : cut[i] = whole[k + i]
      BY <1>1, EndOf
<1>6. \A i \in 1 .. (s - k) : cut[i] = b[Wrap(h, k + i - 1, q)]
      BY <1>1, <1>5
<1>7. \A i \in 1 .. (s - k) : k + i - 1 = k + (i - 1)
      OBVIOUS
<1> HIDE DEF cut
<1>8. \A i \in 1 .. (s - k) : cut[i] = rest[i]
      BY <1>4, <1>6, <1>7
<1>9. cut = rest
      BY <1>3, <1>5, <1>8, SeqEqual
<1> QED BY <1>9 DEF cut, rest, whole

LEMMA RunFirst ==
  ASSUME NEW q \in Nat, NEW b, Holds(b, q), NEW h \in 0..q, NEW s \in 0..q,
         NEW k \in 0..s
  PROVE  Run(b, h, k, q) \o SubSeq(Run(b, h, s, q), k + 1, s) = Run(b, h, s, q)
<1> DEFINE whole == Run(b, h, s, q)
           first == Run(b, h, k, q)
<1>1. /\ whole \in Seq(Byte) /\ Len(whole) = s
      /\ \A i \in 1..s : whole[i] = b[Wrap(h, i - 1, q)]
      BY RunType DEF RunIs
<1>2. /\ first \in Seq(Byte) /\ Len(first) = k
      /\ \A i \in 1..k : first[i] = b[Wrap(h, i - 1, q)]
  <2>1. k \in 0..q
        OBVIOUS
  <2> QED BY <2>1, RunType DEF RunIs
<1> HIDE DEF whole, first
<1>3. \A i \in 1..k : first[i] = whole[i]
  <2>1. \A i \in 1..k : i \in 1..s
        OBVIOUS
  <2> QED BY <1>1, <1>2, <2>1
<1> DEFINE rest == SubSeq(whole, k + 1, s)
<1>4. rest \in Seq(Byte) /\ Len(rest) = s - k /\ \A i \in 1 .. (s - k) : rest[i] = whole[k + i]
      BY <1>1, EndOf
<1> HIDE DEF rest
<1>5. whole = first \o rest
  <2>1. Len(whole) = Len(first) + Len(rest)
        BY <1>1, <1>2, <1>4
  <2>2. \A i \in 1..Len(first) : whole[i] = first[i]
        BY <1>2, <1>3
  <2>3. \A i \in 1..Len(rest) : whole[Len(first) + i] = rest[i]
        BY <1>2, <1>4
  <2> QED BY <1>1, <1>2, <1>4, <2>1, <2>2, <2>3, IsConcat
<1> QED BY <1>5 DEF whole, first, rest

\* Elements written behind a run are appended to it.
LEMMA RunGrows ==
  ASSUME NEW q \in Nat, NEW b, NEW b2, Holds(b, q), NEW h \in 0..q, NEW s \in 0..q,
         NEW d \in Seq(Byte), s + Len(d) <= q, Writes(b, b2, Wrap(h, s, q), d, q),
         Holds(b2, q)
  PROVE  Run(b2, h, s + Len(d), q) = Run(b, h, s, q) \o d
<1> DEFINE old == Run(b, h, s, q)
           new == Run(b2, h, s + Len(d), q)
           n == Len(d)
<1>1. n \in Nat /\ s + n \in 0..q
      OBVIOUS
<1>2. /\ old \in Seq(Byte) /\ Len(old) = s
      /\ \A i \in 1..s : old[i] = b[Wrap(h, i - 1, q)]
      BY RunType DEF RunIs
<1>3. /\ new \in Seq(Byte) /\ Len(new) = s + n
      /\ \A i \in 1 .. (s + n) : new[i] = b2[Wrap(h, i - 1, q)]
      BY <1>1, RunType DEF RunIs
<1> HIDE DEF old, new
<1>4. \A i \in 0 .. (s - 1) : b2[Wrap(h, i, q)] = b[Wrap(h, i, q)]
  <2> TAKE i \in 0 .. (s - 1)
  <2>1. q + 1 - s + i \in 0..q /\ ~(q + 1 - s + i < n)
        BY <1>1
  <2>2. Wrap(h, i, q) = Wrap(Wrap(h, s, q), q + 1 - s + i, q)
        BY WrapBack
  <2> QED BY <2>1, <2>2 DEF Writes
<1>5. \A i \in 0 .. (n - 1) : b2[Wrap(h, s + i, q)] = d[i + 1]
  <2> TAKE i \in 0 .. (n - 1)
  <2>1. i \in 0..q /\ i < n /\ i \in 0 .. (q - s)
        BY <1>1
  <2>2. Wrap(Wrap(h, s, q), i, q) = Wrap(h, s + i, q)
        BY <2>1, WrapWrap
  <2> QED BY <2>1, <2>2 DEF Writes
<1>6. \A i \in 1..s : new[i] = old[i]
  <2> TAKE i \in 1..s
  <2>1. i - 1 \in 0 .. (s - 1) /\ i \in 1 .. (s + n)
        BY <1>1
  <2> QED BY <1>2, <1>3, <1>4, <2>1
<1>7. \A i \in 1..n : new[s + i] = d[i]
  <2> TAKE i \in 1..n
  <2>1. i - 1 \in 0 .. (n - 1) /\ s + i \in 1 .. (s + n) /\ s + (i - 1) = s + i - 1 /\ i - 1 + 1 = i
        BY <1>1
  <2>2. b2[Wrap(h, s + (i - 1), q)] = d[i]
        BY <1>5, <2>1
  <2> QED BY <1>3, <2>1, <2>2
<1>8. new = old \o d
      BY <1>1, <1>2, <1>3, <1>6, <1>7, IsConcat
<1> QED BY <1>8 DEF old, new

\* Elements written over the first of a run replace them.
LEMMA RunReplaced ==
  ASSUME NEW q \in Nat, NEW b, NEW b2, Holds(b, q), Holds(b2, q), NEW h \in 0..q,
         NEW s \in 0..q, NEW d \in Seq(Byte), Len(d) <= s, Writes(b, b2, h, d, q)
  PROVE  Run(b2, h, s, q) = d \o SubSeq(Run(b, h, s, q), Len(d) + 1, s)
<1> DEFINE old == Run(b, h, s, q)
           new == Run(b2, h, s, q)
           n == Len(d)
<1>1. n \in 0..s
      OBVIOUS
<1>2. /\ old \in Seq(Byte) /\ Len(old) = s
      /\ \A i \in 1..s : old[i] = b[Wrap(h, i - 1, q)]
      BY RunType DEF RunIs
<1>3. /\ new \in Seq(Byte) /\ Len(new) = s
      /\ \A i \in 1..s : new[i] = b2[Wrap(h, i - 1, q)]
      BY RunType DEF RunIs
<1>4. \A i \in 1..s : b2[Wrap(h, i - 1, q)] = IF i <= n THEN d[i] ELSE b[Wrap(h, i - 1, q)]
  <2> TAKE i \in 1..s
  <2>1. i - 1 \in 0..q /\ (i - 1 < n <=> i <= n) /\ i - 1 + 1 = i
        BY <1>1
  <2> QED BY <2>1 DEF Writes
<1> HIDE DEF old, new
<1>5. \A i \in 1..s : new[i] = IF i <= n THEN d[i] ELSE old[i]
      BY <1>2, <1>3, <1>4
<1> DEFINE rest == SubSeq(old, n + 1, s)
<1>6. rest \in Seq(Byte) /\ Len(rest) = s - n /\ \A i \in 1 .. (s - n) : rest[i] = old[n + i]
      BY <1>1, <1>2, EndOf
<1> HIDE DEF rest
<1>7. new = d \o rest
  <2>1. Len(new) = Len(d) + Len(rest)
        BY <1>1, <1>3, <1>6
  <2>2. \A i \in 1..Len(d) : new[i] = d[i]
        BY <1>1, <1>5
  <2>3. \A i \in 1..Len(rest) : new[Len(d) + i] = rest[i]
    <3> TAKE i \in 1..Len(rest)
    <3>1. n + i \in 1..s /\ ~(n + i <= n) /\ i \in 1 .. (s - n)
          BY <1>1, <1>6
    <3> QED BY <1>5, <1>6, <3>1
  <2> QED BY <1>3, <1>6, <2>1, <2>2, <2>3, IsConcat
<1> QED BY <1>7 DEF old, new, rest

\* A run whose cells stay as they were stays as it was.
LEMMA RunKept ==
  ASSUME NEW q, NEW b, NEW b2, NEW h, NEW s,
         \A i \in 1..s : b2[Wrap(h, i - 1, q)] = b[Wrap(h, i - 1, q)]
  PROVE  Run(b2, h, s, q) = Run(b, h, s, q)
BY DEF Run

\* A copy into the ring writes into the ring.
LEMMA StoredWrites ==
  ASSUME TypeOK, qsize # 0, NEW p \in 0..qsize, NEW d \in Seq(Byte), Len(d) <= qsize
  PROVE  Writes(qbuf, Stored(p, d), p, d, qsize)
<1>1. qsize \in Nat /\ shadow \in Nat /\ shadow # 0 /\ Len(d) \in Nat
      BY DEF TypeOK
<1>2. DOMAIN qbuf = 0 .. AllStorage - 1 /\ 0..qsize \subseteq 0 .. AllStorage - 1
      BY <1>1 DEF TypeOK, AllStorage
<1> SUFFICES ASSUME NEW i \in 0..qsize
             PROVE  Stored(p, d)[Wrap(p, i, qsize)]
                      = IF i < Len(d) THEN d[i + 1] ELSE qbuf[Wrap(p, i, qsize)]
    BY DEF Writes
<1> DEFINE c == Wrap(p, i, qsize)
           part1 == Part1(p, Len(d))
           part2 == Len(d) - part1
<1>3. c \in 0..qsize /\ c \in DOMAIN qbuf
      BY <1>1, <1>2, WrapInRing
<1>4. Stored(p, d)[c] = IF p <= c /\ c < p + part1 THEN d[c - p + 1]
                        ELSE IF c < part2 THEN d[part1 + c + 1] ELSE qbuf[c]
      BY <1>3 DEF Stored
<1>5. CASE i < Len(d)
  <2>1. CASE p + i <= qsize
    <3>1. c = p + i /\ p <= c /\ c < p + part1 /\ c - p + 1 = i + 1
          BY <1>1, <1>5, <2>1 DEF Wrap, Part1, qboundary
    <3> QED BY <1>4, <1>5, <3>1
  <2>2. CASE ~(p + i <= qsize)
    <3>0. c = p + i - (qsize + 1) /\ part1 = qsize + 1 - p /\ part2 = Len(d) - part1
          BY <1>1, <1>5, <2>2 DEF Wrap, Part1, qboundary
    <3> HIDE DEF c, part1, part2
    <3>1. ~(p <= c) /\ c < part2 /\ part1 + c + 1 = i + 1
          BY <1>1, <1>5, <2>2, <3>0
    <3> USE DEF c, part1, part2
    <3> QED BY <1>4, <1>5, <3>1
  <2> QED BY <2>1, <2>2
<1>6. CASE ~(i < Len(d))
  <2>1. ~(p <= c /\ c < p + part1) /\ ~(c < part2)
        BY <1>1, <1>6 DEF Wrap, Part1, qboundary
  <2> QED BY <1>4, <1>6, <2>1
<1> QED BY <1>5, <1>6

LEMMA RunEmpty ==
  ASSUME NEW b, NEW p, NEW q
  PROVE  Run(b, p, 0, q) = <<>>
BY DEF Run

\* What the pointers give, when there is a ring.
LEMMA Ring ==
  ASSUME TypeOK
  PROVE  /\ qsize \in Nat /\ shadow \in Nat /\ head \in 0..qsize /\ tail \in 0..qsize
         /\ StockEles \in 0..qsize /\ VacantEles = qsize - StockEles
         /\ StockEles = StockOf(head, tail, qsize)
         /\ tail = Wrap(head, StockEles, qsize)
         /\ qsize # 0 => Holds(qbuf, qsize) /\ shadow # 0
<1>1. qsize \in Nat /\ shadow \in Nat /\ head \in 0..qsize /\ tail \in 0..qsize
      BY DEF TypeOK
<1>2. StockEles \in 0..qsize /\ VacantEles = qsize - StockEles
      BY CountsTyped DEF VacantEles
<1>3. tail = Wrap(head, StockEles, qsize)
      BY <1>1, StockEnds DEF StockEles
<1>4. qsize # 0 => Holds(qbuf, qsize) /\ shadow # 0
      BY <1>1 DEF TypeOK, AllStorage, Holds
<1> QED BY <1>1, <1>2, <1>3, <1>4 DEF StockEles

LEMMA ContentType ==
  ASSUME TypeOK
  PROVE  /\ Content \in Seq(Byte) /\ Len(Content) = StockEles
         /\ \A i \in 1..StockEles : Content[i] = qbuf[Wrap(head, i - 1, qsize)]
<1>1. CASE qsize = 0
  <2>1. StockEles = 0
        BY <1>1 DEF StockEles, StockOf
  <2>2. Content = <<>>
        BY <2>1, RunEmpty DEF Content
  <2> QED BY <2>1, <2>2
<1>2. CASE qsize # 0
      BY <1>2, Ring, RunType DEF RunIs, Content
<1> QED BY <1>1, <1>2

\* The abstract queue is the content, and so is it after a step.
LEMMA Mapping ==
  /\ Fetch(head, StockEles) = Content
  /\ (Fetch(head, StockEles))' = Content'
BY DEF Fetch, Forward, qboundary, Content, Run, Wrap

\* The end of two sequences joined.
LEMMA EndOfJoined ==
  ASSUME NEW S, NEW s \in Seq(S), NEW t \in Seq(S), NEW k \in 0..Len(s)
  PROVE  SubSeq(s \o t, k + 1, Len(s \o t)) = SubSeq(s, k + 1, Len(s)) \o t
<1> DEFINE j == s \o t
           e == SubSeq(s, k + 1, Len(s))
           u == SubSeq(j, k + 1, Len(j))
<1>1. /\ j \in Seq(S) /\ Len(j) = Len(s) + Len(t)
      /\ \A i \in 1 .. Len(s) + Len(t) : j[i] = IF i <= Len(s) THEN s[i] ELSE t[i - Len(s)]
      BY ConcatProperties
<1>2. Len(s) \in Nat /\ Len(t) \in Nat
      OBVIOUS
<1> HIDE DEF j
<1>3. k \in 0..Len(j)
      BY <1>1, <1>2
<1>4. u \in Seq(S) /\ Len(u) = Len(j) - k /\ \A i \in 1 .. (Len(j) - k) : u[i] = j[k + i]
      BY <1>1, <1>3, EndOf
<1>5. e \in Seq(S) /\ Len(e) = Len(s) - k /\ \A i \in 1 .. (Len(s) - k) : e[i] = s[k + i]
      BY EndOf
<1> HIDE DEF e, u
<1>6. Len(u) = Len(e) + Len(t)
      BY <1>1, <1>2, <1>4, <1>5
<1>7. \A i \in 1..Len(e) : u[i] = e[i]
  <2> TAKE i \in 1..Len(e)
  <2>1. i \in 1 .. (Len(s) - k) /\ i \in 1 .. (Len(j) - k) /\ k + i \in 1 .. Len(s) + Len(t)
        /\ k + i <= Len(s)
        BY <1>1, <1>2, <1>5
  <2> QED BY <1>1, <1>4, <1>5, <2>1
<1>8. \A i \in 1..Len(t) : u[Len(e) + i] = t[i]
  <2> TAKE i \in 1..Len(t)
  <2>1. Len(e) + i \in 1 .. (Len(j) - k) /\ k + (Len(e) + i) = Len(s) + i
        BY <1>1, <1>2, <1>5
  <2>2. /\ Len(s) + i \in 1 .. Len(s) + Len(t)
        /\ ~(Len(s) + i <= Len(s)) /\ Len(s) + i - Len(s) = i
        BY <1>2
  <2>3. u[Len(e) + i] = j[Len(s) + i]
        BY <1>4, <2>1
  <2> QED BY <1>1, <2>2, <2>3
<1>9. u = e \o t
      BY <1>4, <1>5, <1>6, <1>7, <1>8, IsConcat
<1> QED BY <1>9 DEF j, e, u

--------------------------------------------------------------------------------
\* A step that does this to the content is a step of the abstract queue.
LEMMA PutAllMaps ==
  ASSUME TypeOK, moved' \in Seq(Byte), StockEles + Len(moved') <= qsize,
         Content' = Content \o moved', ret' \in {0, Len(moved')}, qsize' = qsize
  PROVE  Queue!Next
<1>1. Queue!PutAll
      BY ContentType, Mapping DEF Queue!PutAll
<1> QED BY <1>1 DEF Queue!Next

LEMMA PutOverOldestMaps ==
  ASSUME TypeOK, moved' \in Seq(Byte), NEW over \in 1..StockEles,
         over = StockEles + Len(moved') - qsize,
         Content' = SubSeq(Content, over + 1, StockEles) \o moved',
         ret' \in {0, over}, qsize' = qsize
  PROVE  Queue!Next
<1>1. Content \in Seq(Byte) /\ Len(Content) = StockEles
      BY ContentType
<1>2. StockEles \in Nat /\ qsize \in Nat /\ Len(moved') \in Nat
      BY Ring
<1>3. Len(Content \o moved') = StockEles + Len(moved')
      BY <1>1, ConcatProperties
<1>4. Queue!Newest(Content \o moved', qsize) = SubSeq(Content \o moved', over + 1, Len(Content \o moved'))
  <2>1. Len(Content \o moved') - qsize + 1 = over + 1
        BY <1>2, <1>3
  <2> QED BY <2>1 DEF Queue!Newest
<1>5. Content' = Queue!Newest(Content \o moved', qsize)
  <2>1. over \in 0..Len(Content)
        BY <1>1, <1>2
  <2>2. SubSeq(Content \o moved', over + 1, Len(Content \o moved'))
          = SubSeq(Content, over + 1, Len(Content)) \o moved'
        BY <1>1, <2>1, EndOfJoined
  <2> QED BY <1>1, <1>4, <2>2
<1>6. Len(Content) + Len(moved') > qsize
      BY <1>1, <1>2
<1>7. Queue!PutOverOldest
      BY <1>1, <1>5, <1>6, Mapping DEF Queue!PutOverOldest
<1> QED BY <1>7 DEF Queue!Next

LEMMA RefuseMaps ==
  ASSUME NEW code \in Int, code < 0, Returns(code)
  PROVE  Queue!Next
<1>1. UNCHANGED <<qsize, Content>>
      BY DEF Returns, bufVars, Content, StockEles
<1>2. Queue!Refuse
      BY <1>1, Mapping DEF Queue!Refuse, Returns
<1> QED BY <1>2 DEF Queue!Next

LEMMA AdministerMaps ==
  ASSUME ret' \in {0, 1}, moved' = <<>>, qsize' = qsize, Content' = Content
  PROVE  Queue!Next
<1>1. Queue!Administer
      BY Mapping DEF Queue!Administer
<1> QED BY <1>1 DEF Queue!Next

LEMMA RemoveMaps ==
  ASSUME Content = moved' \o Content', ret' = Len(moved'), qsize' = qsize
  PROVE  Queue!Next
<1>1. Queue!Remove
      BY Mapping DEF Queue!Remove
<1> QED BY <1>1 DEF Queue!Next

LEMMA DiscardMaps ==
  ASSUME TypeOK, NEW n \in 0..StockEles, ret' = n, moved' = <<>>, qsize' = qsize,
         Content' = SubSeq(Content, n + 1, StockEles)
  PROVE  Queue!Next
<1>1. Queue!Discard
      BY ContentType, Mapping DEF Queue!Discard
<1> QED BY <1>1 DEF Queue!Next

LEMMA PeekMaps ==
  ASSUME moved' = SubSeq(Content, 1, Len(moved')), ret' = 0, qsize' = qsize,
         Content' = Content
  PROVE  Queue!Next
<1>1. Queue!Peek
      BY Mapping DEF Queue!Peek
<1> QED BY <1>1 DEF Queue!Next

LEMMA ReplacePartMaps ==
  ASSUME TypeOK, Len(moved') < StockEles, ret' = 0, qsize' = qsize,
         Content' = moved' \o SubSeq(Content, Len(moved') + 1, StockEles)
  PROVE  Queue!Next
<1>1. Queue!ReplaceOldest
      BY ContentType, Mapping DEF Queue!ReplaceOldest
<1> QED BY <1>1 DEF Queue!Next

LEMMA ReplaceAllMaps ==
  ASSUME TypeOK, moved' \in Seq(Byte), Len(moved') >= StockEles, qsize' = qsize,
         NEW lost \in Nat, lost = HigherOf(0, Len(moved') - qsize),
         ret' = lost + StockEles, Content' = LastOf(moved', Len(moved') - lost)
  PROVE  Queue!Next
<1>1. StockEles \in Nat /\ qsize \in Nat /\ Len(moved') \in Nat
      BY Ring
<1>2. lost = Queue!Excess(Len(moved'), qsize)
      BY <1>1 DEF HigherOf, Queue!Excess
<1>3. ret' = Len(Content) + lost /\ Len(moved') >= Len(Content)
      BY <1>1, ContentType
<1>4. Content' = Queue!Newest(moved', Len(moved') - lost)
      BY DEF Queue!Newest, LastOf
<1>5. Queue!ReplaceOldest
      BY <1>2, <1>3, <1>4, Mapping DEF Queue!ReplaceOldest
<1> QED BY <1>5 DEF Queue!Next

--------------------------------------------------------------------------------
\* A virtual put writes what the cells hold.
LEMMA RunWrites ==
  ASSUME NEW q \in Nat, NEW b, Holds(b, q), NEW p \in 0..q, NEW n \in 0..q
  PROVE  /\ Run(b, p, n, q) \in Seq(Byte) /\ Len(Run(b, p, n, q)) = n
         /\ Writes(b, b, p, Run(b, p, n, q), q)
<1> DEFINE d == Run(b, p, n, q)
<1>1. d \in Seq(Byte) /\ Len(d) = n /\ \A i \in 1..n : d[i] = b[Wrap(p, i - 1, q)]
      BY RunType DEF RunIs
<1> HIDE DEF d
<1>2. \A i \in 0..q : i < n => d[i + 1] = b[Wrap(p, i, q)]
  <2> TAKE i \in 0..q
  <2>1. i < n => i + 1 \in 1..n /\ i + 1 - 1 = i
        OBVIOUS
  <2> QED BY <1>1, <2>1
<1>3. Writes(b, b, p, d, q)
      BY <1>1, <1>2 DEF Writes
<1> QED BY <1>1, <1>3 DEF d

\* The ring is there after a call that keeps it.
LEMMA RingHeld ==
  ASSUME TypeOK, TypeOK', qsize # 0, UNCHANGED <<qsize, shadow>>
  PROVE  Holds(qbuf', qsize)
<1>1. qsize \in Nat /\ shadow \in Nat /\ shadow # 0
      BY DEF TypeOK
<1>2. AllStorage' = AllStorage
      BY DEF AllStorage
<1>3. qbuf' \in [0 .. AllStorage - 1 -> Byte]
      BY <1>2 DEF TypeOK
<1>4. \A i \in 0..qsize : i \in 0 .. AllStorage - 1
      BY <1>1 DEF AllStorage
<1> QED BY <1>3, <1>4 DEF Holds

\* Put() and the two calls that put through it append to the run they find.
LEMMA PutFromContent ==
  ASSUME TypeOK, TypeOK', qsize # 0, NEW h \in 0..qsize, NEW c, NEW n \in 1..qsize,
         n <= qsize - StockOf(h, tail, qsize), NEW d \in Strings(n) \cup {NULL},
         PutFrom(h, c, n, d)
  PROVE  /\ moved' \in Seq(Byte) /\ Len(moved') = n /\ qsize' = qsize
         /\ Content' = Run(qbuf, h, StockOf(h, tail, qsize), qsize) \o moved'
<1> DEFINE start == IF h = tail THEN 0 ELSE tail
           first == IF h = tail THEN 0 ELSE h
           s == StockOf(h, tail, qsize)
<1>1. /\ qsize \in Nat /\ tail \in 0..qsize /\ Holds(qbuf, qsize)
      BY Ring
<1>2. start \in 0..qsize /\ first \in 0..qsize /\ StockOf(first, start, qsize) = s
      BY <1>1 DEF StockOf
<1>21. start \in 0..qsize /\ first \in 0..qsize
      BY <1>2
<1>22. s \in 0..qsize
      BY <1>1, StockInRange
<1>3. s \in 0..qsize /\ start = Wrap(first, s, qsize)
      BY <1>1, <1>2, StockInRange, StockEnds
<1>4. Run(qbuf, first, s, qsize) = Run(qbuf, h, s, qsize)
  <2>1. CASE h = tail
    <3>1. s = 0
          BY <1>1, <2>1, SameCellNoStock
    <3> QED BY <3>1, RunEmpty
  <2>2. CASE h # tail
        BY <2>2
  <2> QED BY <2>1, <2>2
<1>5. /\ moved' = IF d = NULL THEN Fetch(start, n) ELSE d
      /\ qbuf' = IF d = NULL THEN qbuf ELSE Stored(start, d)
      /\ head' = first /\ tail' = Forward(start, n) /\ qsize' = qsize
      BY DEF PutFrom
<1> HIDE DEF start, first, s
<1>6. moved' \in Seq(Byte) /\ Len(moved') = n /\ Writes(qbuf, qbuf', start, moved', qsize)
  <2>1. CASE d = NULL
    <3>1. moved' = Run(qbuf, start, n, qsize) /\ qbuf' = qbuf
          BY <1>5, <2>1 DEF Fetch, Forward, qboundary, Run, Wrap
    <3>2. n \in 0..qsize
          OBVIOUS
    <3>3. /\ Run(qbuf, start, n, qsize) \in Seq(Byte) /\ Len(Run(qbuf, start, n, qsize)) = n
          /\ Writes(qbuf, qbuf, start, Run(qbuf, start, n, qsize), qsize)
          BY <1>1, <1>21, <3>2, RunWrites
    <3> QED BY <3>1, <3>3
  <2>2. CASE d # NULL
    <3>1. moved' = d /\ d \in Seq(Byte) /\ Len(d) = n /\ qbuf' = Stored(start, d)
          BY <1>5, <2>2, StringsAreSequences
    <3>2. Len(d) <= qsize
          BY <3>1
    <3> QED BY <1>2, <3>1, <3>2, StoredWrites
  <2> QED BY <2>1, <2>2
<1>7. StockEles' = s + n
  <2>1. n \in 0 .. (qsize - StockOf(first, start, qsize))
        BY <1>2 DEF s
  <2>2. StockOf(first, Forward(start, n), qsize) = s + n
        BY <1>1, <1>2, <2>1, StockGrows
  <2> QED BY <1>5, <2>2 DEF StockEles
<1>8. Holds(qbuf', qsize)
  <2>1. UNCHANGED <<qsize, shadow>>
        BY DEF PutFrom
  <2> QED BY <2>1, RingHeld
<1>9. s + Len(moved') <= qsize
      BY <1>1, <1>3, <1>6 DEF s
<1>10. Run(qbuf', first, s + Len(moved'), qsize) = Run(qbuf, first, s, qsize) \o moved'
  <2>1. Writes(qbuf, qbuf', Wrap(first, s, qsize), moved', qsize)
        BY <1>3, <1>6
  <2>2. moved' \in Seq(Byte)
        BY <1>6
  <2> QED BY <1>1, <1>21, <1>22, <1>8, <1>9, <2>1, <2>2, RunGrows, SMTT(30)
<1>11. Content' = Run(qbuf', first, s + n, qsize)
       BY <1>5, <1>7 DEF Content
<1> QED BY <1>4, <1>5, <1>6, <1>10, <1>11 DEF s

\* ... which may begin after elements that gave way.
LEMMA RunMoves ==
  ASSUME NEW q \in Nat, NEW b, NEW b2, Holds(b, q), Holds(b2, q), NEW h \in 0..q,
         NEW s \in 0..q, NEW k \in 0..s, NEW d \in Seq(Byte), s - k + Len(d) <= q,
         Writes(b, b2, Wrap(h, s, q), d, q)
  PROVE  Run(b2, Wrap(h, k, q), s - k + Len(d), q) = SubSeq(Run(b, h, s, q), k + 1, s) \o d
<1> DEFINE first == Wrap(h, k, q)
           r == s - k
<1>1. k \in 0..q /\ r \in 0 .. (q - k) /\ r \in 0..q /\ k + r = s
      OBVIOUS
<1>2. first \in 0..q
      BY <1>1, WrapInRing
<1>3. Wrap(first, r, q) = Wrap(h, s, q)
      BY <1>1, WrapWrap
<1>4. Run(b, first, r, q) = SubSeq(Run(b, h, s, q), k + 1, s)
      BY RunAfter
<1>5. r + Len(d) <= q
      OBVIOUS
<1> HIDE DEF first, r
<1>6. Writes(b, b2, Wrap(first, r, q), d, q)
      BY <1>3
<1>7. Run(b2, first, r + Len(d), q) = Run(b, first, r, q) \o d
      BY <1>1, <1>2, <1>5, <1>6, RunGrows
<1> QED BY <1>4, <1>7 DEF first, r

\* Storage m is the storage with the n elements of d at the tail, in cells that
\* follow each other, the shadow's included.
Overflow(n) == HigherOf(0, n - VacantEles)

LiesAtTail(m, d, n) ==
  /\ m \in [0 .. AllStorage - 1 -> Byte] /\ d \in Seq(Byte) /\ Len(d) = n
  /\ \A i \in 1..n : m[tail + i - 1] = d[i]
  /\ \A i \in 0..qsize : ~(tail <= i /\ i < tail + n) => m[i] = qbuf[i]

\* The head that gives way lies behind the tail, as far as the stock was.
LEMMA NewHead ==
  ASSUME qsize \in Nat, NEW h \in 0..qsize, NEW s \in 0..qsize, NEW n \in 0..qsize,
         NEW over \in 1..s, over = n - (qsize - s)
  PROVE  /\ HeadAfter(Wrap(Wrap(h, s, qsize), n, qsize)) = Wrap(h, over, qsize)
         /\ Wrap(h, over, qsize) \in 0..qsize
BY DEF HeadAfter, qboundary, Wrap

\* ShadowRetrieveEnd() appends what lies at the tail, and with overwriting the
\* oldest elements, as many as are in the way, are gone.
LEMMA RetrieveContent ==
  ASSUME TypeOK, TypeOK', qsize # 0, NEW n \in 0..qsize, NEW d, NEW m,
         LiesAtTail(m, d, n), Retrieve(n, d, m, n - VacantEles)
  PROVE  LET over == Overflow(n)
         IN
         /\ over \in 0..StockEles /\ qsize' = qsize
         /\ Content' = SubSeq(Content, over + 1, StockEles) \o d
<1> DEFINE over == Overflow(n)
           part2 == n - Part1(tail, n)
           newtail == IF part2 > 0 THEN part2 ELSE Forward(tail, Part1(tail, n))
           newhead == IF n - VacantEles > 0 THEN HeadAfter(newtail) ELSE head
           first == Wrap(head, over, qsize)
           s == StockEles - over
<1>1. /\ qsize \in Nat /\ shadow \in Nat /\ head \in 0..qsize /\ tail \in 0..qsize
      /\ StockEles \in 0..qsize /\ VacantEles = qsize - StockEles /\ shadow # 0
      BY Ring
<1>02. m \in [0 .. AllStorage - 1 -> Byte] /\ d \in Seq(Byte) /\ Len(d) = n
      BY DEF LiesAtTail
<1>01. /\ StockEles = StockOf(head, tail, qsize) /\ tail = Wrap(head, StockEles, qsize)
       /\ Holds(qbuf, qsize)
      BY Ring
<1>2. over \in 0..StockEles /\ s \in 0..qsize /\ s + n <= qsize
      BY <1>1 DEF Overflow, HigherOf
<1> HIDE DEF over
<1>3. /\ qbuf' = [i \in DOMAIN m |-> IF i < part2 THEN m[qboundary + i] ELSE m[i]]
      /\ tail' = newtail /\ head' = newhead /\ qsize' = qsize
      BY DEF Retrieve, RetrieveStart
<1>4. newtail = Wrap(tail, n, qsize) /\ newtail \in 0..qsize
      BY <1>1 DEF Part1, Forward, qboundary, Wrap
<1>5. newhead = first /\ first \in 0..qsize
  <2>1. CASE over = 0
    <3>1. first = head /\ newhead = head
          BY <1>1, <2>1 DEF over, Wrap, Overflow, HigherOf
    <3> QED BY <1>1, <3>1
  <2>2. CASE over # 0
    <3>1. over = n - VacantEles /\ n - VacantEles > 0
          BY <1>1, <2>2 DEF over, Overflow, HigherOf
    <3>2. newhead = HeadAfter(Wrap(tail, n, qsize))
          BY <1>4, <3>1
    <3> HIDE DEF newtail, newhead, part2
    <3>3. HeadAfter(Wrap(tail, n, qsize)) = first /\ first \in 0..qsize
      <4>1. over \in 1..StockEles /\ over = n - (qsize - StockEles)
            BY <1>1, <1>2, <2>2, <3>1
      <4>2. /\ HeadAfter(Wrap(Wrap(head, StockEles, qsize), n, qsize)) = Wrap(head, over, qsize)
            /\ Wrap(head, over, qsize) \in 0..qsize
            BY <1>1, <4>1, NewHead
      <4> QED BY <1>01, <4>2
    <3> QED BY <3>2, <3>3
  <2> QED BY <2>1, <2>2
<1>7. Writes(qbuf, qbuf', tail, d, qsize)
  <2> SUFFICES ASSUME NEW i \in 0..qsize
               PROVE  qbuf'[Wrap(tail, i, qsize)]
                        = IF i < n THEN d[i + 1] ELSE qbuf[Wrap(tail, i, qsize)]
      BY <1>02 DEF Writes
  <2> DEFINE c == Wrap(tail, i, qsize)
  <2>1. c \in 0..qsize
        BY <1>1, WrapInRing
  <2> HIDE DEF c
  <2>2. DOMAIN m = 0 .. AllStorage - 1 /\ c \in DOMAIN m
        BY <1>1, <1>02, <2>1 DEF AllStorage
  <2> USE DEF c
  <2>3. qbuf'[c] = IF c < part2 THEN m[qboundary + c] ELSE m[c]
        BY <1>3, <2>2
  <2>4. part2 = IF tail + n <= qsize + 1 THEN 0 ELSE tail + n - (qsize + 1)
        BY <1>1 DEF Part1, qboundary
  <2>5. c = IF tail + i <= qsize THEN tail + i ELSE tail + i - (qsize + 1)
        BY <1>1 DEF Wrap
  <2> HIDE DEF c, part2, newtail, newhead
  <2>6. CASE i < n
    <3>1. i + 1 \in 1..n /\ tail + (i + 1) - 1 = tail + i
          BY <1>1, <2>6
    <3>2. m[tail + i] = d[i + 1]
          BY <3>1 DEF LiesAtTail
    <3>3. CASE tail + i <= qsize
      <4>1. c = tail + i /\ ~(c < part2)
            BY <1>1, <2>4, <2>5, <2>6, <3>3
      <4> QED BY <2>3, <2>6, <3>2, <4>1 DEF c
    <3>4. CASE ~(tail + i <= qsize)
      <4>1. qboundary + c = tail + i /\ c < part2
            BY <1>1, <2>4, <2>5, <2>6, <3>4 DEF qboundary
      <4> QED BY <2>3, <2>6, <3>2, <4>1 DEF c
    <3> QED BY <3>3, <3>4
  <2>7. CASE ~(i < n)
    <3>1. ~(c < part2) /\ ~(tail <= c /\ c < tail + n)
          BY <1>1, <2>4, <2>5, <2>7
    <3>2. m[c] = qbuf[c]
          BY <2>1, <3>1 DEF LiesAtTail
    <3> QED BY <2>3, <2>7, <3>1, <3>2 DEF c
  <2> QED BY <2>6, <2>7
<1>8. Holds(qbuf', qsize)
  <2>1. UNCHANGED <<qsize, shadow>>
        BY DEF Retrieve
  <2> QED BY <2>1, RingHeld
<1>9. StockEles' = s + n
  <2>1. StockEles' = StockOf(first, Wrap(tail, n, qsize), qsize)
        BY <1>3, <1>4, <1>5 DEF StockEles
  <2>2. CASE over = 0
    <3>0. n \in 0 .. (qsize - StockOf(head, tail, qsize))
          BY <1>1, <1>01, <1>2, <2>2
    <3>1. StockOf(head, Forward(tail, n), qsize) = StockEles + n
          BY <1>1, <1>01, <3>0, StockGrows
    <3>2. Wrap(tail, n, qsize) = Forward(tail, n) /\ first = head
          BY <1>1, <2>2 DEF Wrap, Forward, qboundary
    <3> QED BY <1>1, <2>1, <2>2, <3>1, <3>2
  <2>3. CASE over # 0
    <3>1. over = n - VacantEles /\ s + n = qsize
          BY <1>1, <2>3 DEF over, Overflow, HigherOf
    <3>2. newhead = HeadAfter(newtail)
          BY <1>1, <2>3 DEF over, Overflow, HigherOf
    <3>3. StockOf(newhead, newtail, qsize) = qsize
      <4> HIDE DEF newtail, newhead
      <4> QED BY <1>1, <1>4, <3>2 DEF StockOf, HeadAfter, qboundary
    <3> QED BY <1>4, <1>5, <2>1, <3>1, <3>3
  <2> QED BY <2>2, <2>3
<1> HIDE DEF newtail, newhead, part2
<1>10. Run(qbuf', first, s + n, qsize) = SubSeq(Content, over + 1, StockEles) \o d
  <2>1. Writes(qbuf, qbuf', Wrap(head, StockEles, qsize), d, qsize)
        BY <1>01, <1>7
  <2>2. StockEles - over + Len(d) <= qsize /\ d \in Seq(Byte)
        BY <1>02, <1>2
  <2>3. qsize \in Nat /\ head \in 0..qsize /\ StockEles \in 0..qsize /\ Holds(qbuf, qsize)
        /\ over \in 0..StockEles
        BY <1>1, <1>01, <1>2
  <2>4. Run(qbuf', Wrap(head, over, qsize), StockEles - over + Len(d), qsize)
          = SubSeq(Run(qbuf, head, StockEles, qsize), over + 1, StockEles) \o d
        BY <1>8, <2>1, <2>2, <2>3, RunMoves
  <2> QED BY <1>02, <2>4 DEF Content
<1>12. Content' = Run(qbuf', first, s + n, qsize)
       BY <1>3, <1>5, <1>9 DEF Content
<1> QED BY <1>2, <1>3, <1>10, <1>12 DEF over

--------------------------------------------------------------------------------
\* The content after a call that leaves the ring alone, and after one that
\* empties it.
LEMMA ContentKept ==
  ASSUME UNCHANGED <<qsize, qbuf, head, tail>>
  PROVE  Content' = Content
BY DEF Content, StockEles

LEMMA ContentGone ==
  ASSUME TypeOK', head' = tail'
  PROVE  Content' = <<>> /\ StockEles' = 0
<1>1. qsize' \in Nat /\ tail' \in 0..qsize'
      BY DEF TypeOK
<1>2. StockEles' = StockOf(tail', tail', qsize')
      BY DEF StockEles
<1>3. StockEles' = 0
      BY <1>1, <1>2, SameCellNoStock
<1>4. Content' = Run(qbuf', head', 0, qsize')
      BY <1>3 DEF Content
<1> QED BY <1>3, <1>4, RunEmpty

LEMMA NoRingNoContent ==
  ASSUME TypeOK, qsize = 0
  PROVE  Content = <<>> /\ StockEles = 0 /\ VacantEles = 0 /\ shadow = 0 /\ head = 0 /\ tail = 0
<1>1. StockEles = 0 /\ VacantEles = 0
      BY DEF StockEles, StockOf, VacantEles
<1>2. Content = <<>>
      BY <1>1, RunEmpty DEF Content
<1>3. head = 0 /\ tail = 0 /\ shadow = 0
      BY DEF TypeOK
<1> QED BY <1>1, <1>2, <1>3

\* Calls that return early without an error, or do no more than that.
LEMMA NothingMaps ==
  ASSUME UNCHANGED bufVars, moved' = <<>>, ret' \in {0, 1}
  PROVE  Queue!Next
<1>1. Content' = Content /\ qsize' = qsize
      BY ContentKept DEF bufVars
<1> QED BY <1>1, AdministerMaps

LEMMA CreateMaps ==
  ASSUME TypeOK, TypeOK', NEW q \in 0..MaxQueue, NEW s \in -1..MaxShadow, Create(q, s)
  PROVE  Queue!Next
<1>1. CASE q <= 0 \/ s < 0
  <2>1. Returns(E_BadParam) /\ E_BadParam \in Int /\ E_BadParam < 0
        BY <1>1 DEF Create, E_BadParam
  <2> QED BY <2>1, RefuseMaps
<1>2. CASE ~(q <= 0 \/ s < 0)
  <2>1. /\ qsize' = q /\ head' = 0 /\ tail' = 0 /\ ret' = E_Success /\ moved' = <<>>
        /\ q \in Nat \ {0}
        BY <1>2, BoundsAssumption DEF Create
  <2>2. Content' = <<>>
        BY <2>1, ContentGone
  <2>3. Queue!Create
        BY <2>1, <2>2, Mapping DEF Queue!Create, E_Success
  <2> QED BY <2>3 DEF Queue!Next
<1> QED BY <1>1, <1>2

LEMMA DestroyMaps ==
  ASSUME TypeOK', Destroy
  PROVE  Queue!Next
<1>1. head' = tail' /\ qsize' = 0 /\ ret' = 0 /\ moved' = <<>>
      BY DEF Destroy
<1>2. Content' = <<>>
      BY <1>1, ContentGone
<1>3. Queue!Destroy
      BY <1>1, <1>2, Mapping DEF Queue!Destroy
<1> QED BY <1>3 DEF Queue!Next

\* What Put() and PutOverwrite() do when all fits.
LEMMA FitsMaps ==
  ASSUME TypeOK, TypeOK', NEW n \in Nat \ {0}, n <= VacantEles,
         NEW d \in Strings(n) \cup {NULL}, NEW c, PutFrom(head, c, n, d), ret' \in {0, n}
  PROVE  Queue!Next
<1>1. /\ qsize \in Nat /\ head \in 0..qsize /\ StockEles \in 0..qsize
      /\ VacantEles = qsize - StockEles
      BY Ring
<1>2. qsize # 0 /\ n \in 1..qsize /\ StockEles + n <= qsize
      BY <1>1
<1>3. n <= qsize - StockOf(head, tail, qsize)
      BY <1>1, <1>2 DEF StockEles
<1>4. /\ moved' \in Seq(Byte) /\ Len(moved') = n /\ qsize' = qsize
      /\ Content' = Run(qbuf, head, StockOf(head, tail, qsize), qsize) \o moved'
      BY <1>1, <1>2, <1>3, PutFromContent
<1>5. Content' = Content \o moved'
      BY <1>4 DEF Content, StockEles
<1>6. StockEles + Len(moved') <= qsize /\ ret' \in {0, Len(moved')}
      BY <1>2, <1>4
<1> QED BY <1>4, <1>5, <1>6, PutAllMaps

LEMMA PutMaps ==
  ASSUME TypeOK, TypeOK', NEW n \in Counts, NEW d \in Strings(n) \cup {NULL}, Put(n, d)
  PROVE  Queue!Next
<1> USE BoundsAssumption DEF Counts, E_BadParam, E_Full
<1>1. ASSUME NEW code \in {E_BadParam, E_Full}, Returns(code) PROVE Queue!Next
      BY <1>1, RefuseMaps
<1>2. CASE Returns(0)
      BY <1>2, NothingMaps DEF Returns
<1>3. CASE 0 < n /\ n <= VacantEles /\ PutFrom(head, cureles, n, d) /\ ret' = n
  <2>1. n \in Nat \ {0}
        BY <1>3
  <2> QED BY <1>3, <2>1, FitsMaps
<1> QED BY <1>1, <1>2, <1>3 DEF Put

LEMMA OverwriteRefusedMaps ==
  ASSUME NEW n, PutOverwriteRefused(n)
  PROVE  Queue!Next
<1>1. \E code \in {-2, -5} : Returns(code)
      BY DEF PutOverwriteRefused, E_BadParam, E_OverwriteNotAllow
<1> QED BY <1>1, RefuseMaps

LEMMA OverwriteFitsMaps ==
  ASSUME TypeOK, TypeOK', NEW n \in Counts, NEW d \in Strings(n), PutOverwriteFits(n, d)
  PROVE  Queue!Next
<1> USE BoundsAssumption DEF Counts
<1>1. CASE n = 0
      BY <1>1, NothingMaps DEF PutOverwriteFits
<1>2. CASE n # 0
  <2>1. n \in Nat \ {0} /\ n <= VacantEles /\ PutFrom(head, cureles, n, d) /\ ret' = 0
        BY <1>2 DEF PutOverwriteFits
  <2> QED BY <2>1, FitsMaps
<1> QED BY <1>1, <1>2

\* The oldest elements give way: as many as are too many.
LEMMA OverwriteSomeMaps ==
  ASSUME TypeOK, TypeOK', NEW n \in Counts, NEW d \in Strings(n), PutOverwriteSome(n, d)
  PROVE  Queue!Next
<1> DEFINE over == n - VacantEles
           h == Forward(head, over)
<1>1. /\ qsize \in Nat /\ head \in 0..qsize /\ tail \in 0..qsize /\ StockEles \in 0..qsize
      /\ VacantEles = qsize - StockEles
      BY Ring
<1>2. n \in Nat /\ n > VacantEles /\ n < qsize
      BY BoundsAssumption DEF PutOverwriteSome, Counts
<1>3. over \in 1..StockEles /\ over = StockEles + n - qsize /\ n \in 1..qsize /\ qsize # 0
      BY <1>1, <1>2
<1>4. PutFrom(h, cureles - over, n, d) /\ ret' = over
      BY DEF PutOverwriteSome
<1> HIDE DEF over
<1>5. h \in 0..qsize
  <2>1. over \in 0..qsize
        BY <1>1, <1>3
  <2> QED BY <1>1, <2>1, ForwardInRange
<1>6. StockOf(h, tail, qsize) = StockEles - over
  <2>1. over \in 0..StockOf(head, tail, qsize)
        BY <1>1, <1>3 DEF StockEles
  <2>2. StockOf(h, tail, qsize) = StockOf(head, tail, qsize) - over
        BY <1>1, <2>1, StockShrinks
  <2> QED BY <2>2 DEF StockEles
<1> DEFINE c == cureles - over
<1> HIDE DEF h, c
<1>7. n <= qsize - StockOf(h, tail, qsize)
      BY <1>1, <1>3, <1>6
<1>8. /\ moved' \in Seq(Byte) /\ Len(moved') = n /\ qsize' = qsize
      /\ Content' = Run(qbuf, h, StockOf(h, tail, qsize), qsize) \o moved'
  <2>1. PutFrom(h, c, n, d)
        BY <1>4 DEF c
  <2> QED BY <1>3, <1>5, <1>7, <2>1, PutFromContent
<1>9. Run(qbuf, h, StockOf(h, tail, qsize), qsize) = SubSeq(Content, over + 1, StockEles)
  <2>1. h = Wrap(head, over, qsize)
        BY DEF h, Forward, qboundary, Wrap
  <2>2. over \in 0..StockEles /\ Holds(qbuf, qsize)
        BY <1>1, <1>3, Ring
  <2>3. Run(qbuf, Wrap(head, over, qsize), StockEles - over, qsize)
          = SubSeq(Run(qbuf, head, StockEles, qsize), over + 1, StockEles)
        BY <1>1, <2>2, RunAfter
  <2> QED BY <1>6, <2>1, <2>3 DEF Content
<1>10. over = StockEles + Len(moved') - qsize
       BY <1>3, <1>8
<1>11. Content' = SubSeq(Content, over + 1, StockEles) \o moved'
       BY <1>8, <1>9
<1> QED BY <1>3, <1>4, <1>8, <1>10, <1>11, PutOverOldestMaps

\* With no ring at all, everything is too much, and nothing is kept.
LEMMA OverwriteAllMaps ==
  ASSUME TypeOK, TypeOK', "OverwriteLong" \notin Calls,
         NEW n \in Counts, NEW d \in Strings(n), PutOverwriteAll(n, d)
  PROVE  Queue!Next
<1>1. /\ qsize = 0 /\ qsize' = 0 /\ head' = tail' /\ moved' = d /\ ret' = StockEles + n - qsize
      /\ n > VacantEles /\ n \in Int
      BY BoundsAssumption DEF PutOverwriteAll, Counts
<1>2. Content = <<>> /\ StockEles = 0 /\ VacantEles = 0
      BY <1>1, NoRingNoContent
<1>3. n \in Nat /\ n > 0 /\ ret' = n
      BY <1>1, <1>2
<1>4. d \in Seq(Byte) /\ Len(d) = n
      BY <1>3, StringsAreSequences
<1>5. Content' = <<>>
      BY <1>1, ContentGone
<1>6. Content \o moved' = d
      BY <1>1, <1>2, <1>4, ConcatEmptySeq
<1>7. Queue!Newest(d, 0) = <<>>
  <2>1. Len(d) - 0 + 1 \in Int /\ Len(d) \in Int /\ Len(d) < Len(d) - 0 + 1
        BY <1>3, <1>4
  <2> QED BY <2>1, SubSeqEmpty DEF Queue!Newest
<1>8. Len(Content) + Len(moved') > 0 /\ ret' = Len(Content) + Len(moved') - 0
      BY <1>1, <1>2, <1>3, <1>4
<1>9. Queue!PutOverOldest
      BY <1>1, <1>5, <1>6, <1>7, <1>8, Mapping DEF Queue!PutOverOldest
<1> QED BY <1>9 DEF Queue!Next

\* A run that starts at the first cell of the ring.
LEMMA FromFirstCell ==
  ASSUME TypeOK, TypeOK', UNCHANGED <<qsize, shadow>>, NEW e \in Seq(Byte), Len(e) <= qsize,
         head' = 0, tail' = Len(e), qbuf' = Stored(0, e)
  PROVE  Content' = e
<1>1. qsize \in Nat /\ Len(e) \in 0..qsize /\ 0 \in 0..qsize
      BY Ring
<1>2. StockEles' = Len(e)
  <2>1. StockEles' = StockOf(0, Len(e), qsize)
        BY DEF StockEles
  <2> QED BY <1>1, <2>1 DEF StockOf
<1>3. Content' = Run(qbuf', 0, Len(e), qsize)
      BY <1>2 DEF Content
<1>4. CASE Len(e) = 0
      BY <1>3, <1>4, RunEmpty
<1>5. CASE Len(e) # 0
  <2>1. qsize # 0 /\ Holds(qbuf, qsize) /\ Holds(qbuf', qsize)
        BY <1>1, <1>5, Ring, RingHeld
  <2>2. Writes(qbuf, qbuf', 0, e, qsize)
        BY <1>1, <2>1, StoredWrites
  <2>3. Wrap(0, 0, qsize) = 0
        BY <1>1 DEF Wrap
  <2>4. Writes(qbuf, qbuf', Wrap(0, 0, qsize), e, qsize) /\ 0 + Len(e) <= qsize
        BY <1>1, <2>2, <2>3
  <2>5. Run(qbuf', 0, 0 + Len(e), qsize) = Run(qbuf, 0, 0, qsize) \o e
        BY <1>1, <2>1, <2>4, RunGrows
  <2>6. Run(qbuf, 0, 0, qsize) \o e = e
        BY RunEmpty, ConcatEmptySeq
  <2> QED BY <1>1, <1>3, <2>5, <2>6
<1> QED BY <1>4, <1>5

LEMMA OverwriteHeadMaps ==
  ASSUME TypeOK, TypeOK', NEW n \in Counts, NEW d \in Strings(n), OverwriteHead(n, d)
  PROVE  Queue!Next
<1>1. /\ qsize \in Nat /\ head \in 0..qsize /\ StockEles \in 0..qsize /\ n \in Int
      BY BoundsAssumption, Ring DEF Counts
<1>2. CASE \E code \in {-2, -5} : Returns(code)
      BY <1>2, RefuseMaps
<1>3. CASE /\ n >= 0 /\ n < StockEles /\ qbuf' = Stored(head, d)
           /\ ret' = 0 /\ moved' = d
           /\ UNCHANGED <<qsize, shadow, head, tail, peakuse, cureles, reading>>
  <2>1. n \in Nat /\ d \in Seq(Byte) /\ Len(d) = n /\ qsize # 0 /\ Len(d) <= qsize /\ Len(d) <= StockEles
        BY <1>1, <1>3, StringsAreSequences
  <2>2. Writes(qbuf, qbuf', head, d, qsize)
        BY <1>1, <1>3, <2>1, StoredWrites
  <2>3. Holds(qbuf, qsize) /\ Holds(qbuf', qsize)
        BY <1>3, <2>1, Ring, RingHeld
  <2>4. Run(qbuf', head, StockEles, qsize)
          = d \o SubSeq(Run(qbuf, head, StockEles, qsize), Len(d) + 1, StockEles)
    <3>1. d \in Seq(Byte) /\ Len(d) <= StockEles
          BY <2>1
    <3> QED BY <1>1, <2>2, <2>3, <3>1, RunReplaced, SMTT(30)
  <2>5. Content' = Run(qbuf', head, StockEles, qsize)
        BY <1>3 DEF Content, StockEles
  <2>6. Content' = moved' \o SubSeq(Content, Len(moved') + 1, StockEles)
        BY <1>3, <2>4, <2>5 DEF Content
  <2>7. Len(moved') < StockEles
        BY <1>3, <2>1
  <2> QED BY <1>3, <2>6, <2>7, ReplacePartMaps
<1>4. CASE LET exceed == HigherOf(0, n - qsize)
               kept   == n - exceed
           IN  /\ n >= 0 /\ n >= StockEles
               /\ head' = 0 /\ tail' = kept
               /\ qbuf' = Stored(0, LastOf(d, kept))
               /\ ret' = exceed + StockEles /\ moved' = d
               /\ UNCHANGED <<qsize, shadow, peakuse, reading>>
  <2> DEFINE lost == HigherOf(0, n - qsize)
             e == LastOf(d, n - lost)
  <2>1. n \in Nat /\ lost \in 0..n /\ n - lost \in 0..n /\ n - lost <= qsize
        BY <1>1, <1>4 DEF HigherOf
  <2>2. d \in Seq(Byte) /\ Len(d) = n
        BY <2>1, StringsAreSequences
  <2>3. e \in Seq(Byte) /\ Len(e) = n - lost
        BY <2>1, <2>2, LastOfType
  <2>4. /\ head' = 0 /\ tail' = n - lost /\ qbuf' = Stored(0, e)
        /\ ret' = lost + StockEles /\ moved' = d /\ UNCHANGED <<qsize, shadow>>
        /\ n >= StockEles
        BY <1>4
  <2>5. lost \in Nat /\ lost = HigherOf(0, Len(moved') - qsize)
        BY <2>1, <2>2, <2>4
  <2>6. e = LastOf(moved', Len(moved') - lost)
        BY <2>2, <2>4
  <2> HIDE DEF lost, e
  <2>7. Content' = e
    <3>1. Len(e) <= qsize /\ tail' = Len(e)
          BY <2>1, <2>3, <2>4
    <3> QED BY <2>3, <2>4, <3>1, FromFirstCell
  <2>8. moved' \in Seq(Byte) /\ Len(moved') >= StockEles
        BY <2>2, <2>4
  <2> QED BY <2>4, <2>5, <2>6, <2>7, <2>8, ReplaceAllMaps
<1> QED BY <1>2, <1>3, <1>4 DEF OverwriteHead, E_BadParam, E_OverwriteNotAllow

\* Get() and Clear() take the oldest elements, as many as there are.
LEMMA TakeContent ==
  ASSUME TypeOK, NEW m \in 0..StockEles, Take(m)
  PROVE  Content' = SubSeq(Content, m + 1, StockEles) /\ qsize' = qsize
<1>1. /\ qsize \in Nat /\ head \in 0..qsize /\ tail \in 0..qsize /\ StockEles \in 0..qsize
      BY Ring
<1>2. head' = Forward(head, m) /\ tail' = tail /\ qsize' = qsize /\ qbuf' = qbuf
      BY DEF Take
<1>3. StockEles' = StockEles - m
  <2>1. m \in 0..StockOf(head, tail, qsize)
        BY DEF StockEles
  <2>2. StockOf(Forward(head, m), tail, qsize) = StockOf(head, tail, qsize) - m
        BY <1>1, <2>1, StockShrinks
  <2> QED BY <1>2, <2>2 DEF StockEles
<1>4. Forward(head, m) = Wrap(head, m, qsize)
      BY DEF Forward, qboundary, Wrap
<1>5. Content' = Run(qbuf, Wrap(head, m, qsize), StockEles - m, qsize)
      BY <1>2, <1>3, <1>4 DEF Content
<1>6. CASE qsize = 0
  <2>1. StockEles = 0 /\ Content = <<>> /\ m = 0
        BY <1>6, NoRingNoContent
  <2>2. Content' = <<>>
        BY <1>5, <2>1, RunEmpty
  <2>3. SubSeq(<<>>, 0 + 1, 0) = <<>>
        BY SubSeqEmpty
  <2> QED BY <1>2, <2>1, <2>2, <2>3
<1>7. CASE qsize # 0
  <2>1. Holds(qbuf, qsize)
        BY <1>7, Ring
  <2>2. Run(qbuf, Wrap(head, m, qsize), StockEles - m, qsize)
          = SubSeq(Run(qbuf, head, StockEles, qsize), m + 1, StockEles)
        BY <1>1, <2>1, RunAfter
  <2> QED BY <1>2, <1>5, <2>2 DEF Content
<1> QED BY <1>6, <1>7

LEMMA GetMaps ==
  ASSUME TypeOK, NEW n \in Counts, Get(n)
  PROVE  Queue!Next
<1>1. CASE Returns(-2)
      BY <1>1, RefuseMaps
<1>2. CASE /\ n >= 0 /\ Take(LowerOf(n, StockEles)) /\ moved' = Fetch(head, LowerOf(n, StockEles))
  <2> DEFINE m == LowerOf(n, StockEles)
  <2>1. /\ qsize \in Nat /\ head \in 0..qsize /\ StockEles \in 0..qsize /\ m \in 0..StockEles
        BY <1>2, BoundsAssumption, Ring DEF Counts, LowerOf
  <2> HIDE DEF m
  <2>2. Content' = SubSeq(Content, m + 1, StockEles) /\ qsize' = qsize
        BY <1>2, <2>1, TakeContent DEF m
  <2>3. moved' = Run(qbuf, head, m, qsize) /\ ret' = m
        BY <1>2 DEF m, Fetch, Forward, qboundary, Run, Wrap, Take
  <2>4. Len(moved') = m /\ Content = moved' \o Content'
    <3>1. CASE qsize = 0
      <4>1. Content = <<>> /\ StockEles = 0 /\ m = 0
            BY <2>1, <3>1, NoRingNoContent
      <4>2. moved' = <<>> /\ SubSeq(<<>>, 0 + 1, 0) = <<>>
            BY <2>3, <4>1, RunEmpty, SubSeqEmpty
      <4>3. Content' = <<>>
            BY <2>2, <4>1, <4>2
      <4>4. <<>> \o <<>> = <<>>
            BY EmptySeq, ConcatEmptySeq
      <4> QED BY <4>1, <4>2, <4>3, <4>4
    <3>2. CASE qsize # 0
      <4>1. Holds(qbuf, qsize) /\ m \in 0..qsize
            BY <2>1, <3>2, Ring
      <4>2. Len(Run(qbuf, head, m, qsize)) = m
            BY <2>1, <4>1, RunType DEF RunIs
      <4>3. Run(qbuf, head, m, qsize) \o SubSeq(Run(qbuf, head, StockEles, qsize), m + 1, StockEles)
              = Run(qbuf, head, StockEles, qsize)
            BY <2>1, <4>1, RunFirst
      <4> QED BY <2>2, <2>3, <4>2, <4>3 DEF Content
    <3> QED BY <3>1, <3>2
  <2>5. ret' = Len(moved')
        BY <2>3, <2>4
  <2> QED BY <2>2, <2>4, <2>5, RemoveMaps
<1> QED BY <1>1, <1>2 DEF Get, E_BadParam

LEMMA ClearMaps ==
  ASSUME TypeOK, TypeOK', NEW n \in Counts, NEW reset \in BOOLEAN, Clear(n, reset)
  PROVE  Queue!Next
<1>1. StockEles \in Nat /\ n \in Int
      BY BoundsAssumption, Ring DEF Counts
<1>2. CASE n < 0
  <2>1. head' = tail' /\ ret' = StockEles /\ moved' = <<>> /\ qsize' = qsize
        BY <1>1, <1>2 DEF Clear, DropAll
  <2>2. Content' = <<>>
        BY <2>1, ContentGone
  <2>3. SubSeq(Content, StockEles + 1, StockEles) = <<>>
        BY <1>1, SubSeqEmpty
  <2>4. Content' = SubSeq(Content, StockEles + 1, StockEles) /\ StockEles \in 0..StockEles
        BY <1>1, <2>2, <2>3
  <2> QED BY <2>1, <2>4, DiscardMaps
<1>3. CASE ~(n < 0)
  <2> DEFINE m == LowerOf(n, StockEles)
  <2>1. m \in 0..StockEles /\ Take(m) /\ moved' = <<>>
        BY <1>1, <1>3 DEF Clear, LowerOf
  <2> HIDE DEF m
  <2>2. Content' = SubSeq(Content, m + 1, StockEles) /\ qsize' = qsize
        BY <2>1, TakeContent
  <2>3. ret' = m
        BY <2>1 DEF Take
  <2> QED BY <2>1, <2>2, <2>3, DiscardMaps
<1> QED BY <1>2, <1>3

LEMMA ResetPtrMaps ==
  ASSUME TypeOK, TypeOK', CurElesExact, "ResetStocked" \notin Calls, ResetPtr
  PROVE  Queue!Next
<1>1. /\ head' = tail' /\ ret' \in {0, 1} /\ moved' = <<>> /\ qsize' = qsize
      /\ cureles = 0
      BY DEF ResetPtr
<1>2. StockEles = 0
      BY <1>1 DEF CurElesExact
<1>3. Content = <<>>
      BY <1>2, RunEmpty DEF Content
<1>4. Content' = <<>>
      BY <1>1, ContentGone
<1> QED BY <1>1, <1>3, <1>4, AdministerMaps

LEMMA ResetPeakMaps ==
  ASSUME ResetPeakUsage
  PROVE  Queue!Next
<1>1. Content' = Content /\ qsize' = qsize /\ ret' \in {0, 1} /\ moved' = <<>>
      BY ContentKept DEF ResetPeakUsage
<1> QED BY <1>1, AdministerMaps

--------------------------------------------------------------------------------
\* There is room for what a device was asked for, and what it stored stays at the
\* tail until it is retrieved, whatever the consumer calls meanwhile.
DeviceKeeps ==
  reading # Idle =>
    /\ reading.len <= VacantEles
    /\ reading.stored =>
         \A i \in 1..Len(reading.data) : qbuf[reading.at + i - 1] = reading.data[i]

\* ShadowPeekHead() copies to the shadow what the caller reads there, and leaves
\* the ring as it was.
LEMMA PeekContent ==
  ASSUME TypeOK, "PeekBeyond" \notin Calls, NEW n \in Counts, ShadowPeekHead(n),
         ~(n > shadow \/ n < 0)
  PROVE  /\ n \in 1..StockEles \/ n = 0
         /\ n <= StockEles /\ head # tail
         /\ head' = head /\ tail' = tail /\ qsize' = qsize /\ shadow' = shadow
         /\ ret' = 0 /\ reading' = reading
         /\ moved' = [i \in 1..n |-> qbuf'[head + i - 1]]
         /\ qbuf' = [i \in 0 .. AllStorage - 1 |->
                       IF qboundary <= i /\ i < head + n THEN qbuf[i - qboundary] ELSE qbuf[i]]
<1>1. /\ qsize \in Nat /\ shadow \in Nat /\ head \in 0..qsize /\ tail \in 0..qsize
      /\ StockEles \in 0..qsize
      BY Ring
<1>2. n \in Nat /\ n <= StockEles /\ head # tail /\ n <= shadow /\ n <= qsize
      BY <1>1, BoundsAssumption DEF ShadowPeekHead, TailMoving, Counts
<1>3. LowerOf(n, StockEles) = n
      BY <1>1, <1>2 DEF LowerOf
<1>4. /\ head' = head /\ tail' = tail /\ qsize' = qsize /\ shadow' = shadow /\ ret' = 0
      /\ reading' = reading
      /\ qbuf' = [i \in DOMAIN qbuf |->
                    IF qboundary <= i /\ i < qboundary + (n - Part1(head, n))
                    THEN qbuf[i - qboundary] ELSE qbuf[i]]
      /\ moved' = [i \in 1..LowerOf(n, StockEles) |-> qbuf'[head + i - 1]]
      BY <1>2 DEF ShadowPeekHead, E_Success
<1>5. DOMAIN qbuf = 0 .. AllStorage - 1
      BY DEF TypeOK
<1>6. \A i \in 0 .. AllStorage - 1 :
         (qboundary <= i /\ i < qboundary + (n - Part1(head, n)))
            <=> (qboundary <= i /\ i < head + n)
      BY <1>1, <1>2 DEF Part1, qboundary, AllStorage
<1>7. qbuf' = [i \in 0 .. AllStorage - 1 |->
                 IF qboundary <= i /\ i < head + n THEN qbuf[i - qboundary] ELSE qbuf[i]]
      BY <1>4, <1>5, <1>6
<1>8. moved' = [i \in 1..n |-> qbuf'[head + i - 1]]
      BY <1>3, <1>4
<1> QED BY <1>1, <1>2, <1>4, <1>7, <1>8

LEMMA PeekSteps ==
  ASSUME TypeOK, TypeOK', "PeekBeyond" \notin Calls, NEW n \in Counts, ShadowPeekHead(n)
  PROVE  Queue!Next
<1>1. CASE Returns(-2)
      BY <1>1, RefuseMaps
<1>2. CASE ~(n > shadow \/ n < 0)
  <2> DEFINE b == [i \in 0 .. AllStorage - 1 |->
                     IF qboundary <= i /\ i < head + n THEN qbuf[i - qboundary] ELSE qbuf[i]]
             e == [i \in 1..n |-> b[head + i - 1]]
  <2>1. /\ qsize \in Nat /\ shadow \in Nat /\ head \in 0..qsize /\ tail \in 0..qsize
        /\ StockEles \in 0..qsize
        BY Ring
  <2>2. n \in Nat /\ n <= StockEles /\ n <= shadow /\ n <= qsize
        BY <1>2, <2>1, PeekContent
  <2>3. qbuf' = b /\ moved' = e /\ head' = head /\ tail' = tail /\ qsize' = qsize
        /\ StockEles' = StockEles /\ ret' = 0
        BY <1>2, PeekContent DEF StockEles
  <2>4. \A i \in 1..n : e[i] = qbuf[Wrap(head, i - 1, qsize)]
    <3> TAKE i \in 1..n
    <3> DEFINE j == head + i - 1
    <3>1. j \in 0 .. AllStorage - 1 /\ j < head + n
          BY <2>1, <2>2 DEF AllStorage
    <3>2. Wrap(head, i - 1, qsize) = IF qboundary <= j THEN j - qboundary ELSE j
          BY <2>1 DEF Wrap, qboundary
    <3>3. e[i] = b[j]
          OBVIOUS
    <3> HIDE DEF e, j
    <3>4. b[j] = IF qboundary <= j /\ j < head + n THEN qbuf[j - qboundary] ELSE qbuf[j]
          BY <3>1
    <3> HIDE DEF b
    <3>5. CASE qboundary <= j
          BY <3>1, <3>2, <3>3, <3>4, <3>5
    <3>6. CASE ~(qboundary <= j)
          BY <3>1, <3>2, <3>3, <3>4, <3>6
    <3> QED BY <3>5, <3>6
  <2>5. \A i \in 1..StockEles : b[Wrap(head, i - 1, qsize)] = qbuf[Wrap(head, i - 1, qsize)]
    <3> TAKE i \in 1..StockEles
    <3>1. i - 1 \in 0..qsize
          BY <2>1
    <3>2. Wrap(head, i - 1, qsize) \in 0..qsize
          BY <2>1, <3>1, WrapInRing
    <3>3. Wrap(head, i - 1, qsize) \in 0 .. AllStorage - 1
      <4>1. shadow # 0
            BY <2>1, Ring
      <4> QED BY <2>1, <3>2, <4>1 DEF AllStorage
    <3>4. ~(qboundary <= Wrap(head, i - 1, qsize))
          BY <2>1, <3>2 DEF qboundary
    <3> QED BY <3>3, <3>4
  <2> HIDE DEF b
  <2>6. Content' = Content
    <3>1. Run(b, head, StockEles, qsize) = Run(qbuf, head, StockEles, qsize)
          BY <2>5, RunKept
    <3> QED BY <2>3, <3>1 DEF Content
  <2>7. Len(e) = n /\ e = SubSeq(Content, 1, n)
    <3>1. Content \in Seq(Byte) /\ Len(Content) = StockEles
          /\ \A i \in 1..StockEles : Content[i] = qbuf[Wrap(head, i - 1, qsize)]
          BY ContentType
    <3>2. \A i \in 1..n : e[i] = Content[i]
      <4> TAKE i \in 1..n
      <4>1. i \in 1..StockEles
            BY <2>1, <2>2
      <4> QED BY <2>4, <3>1, <4>1
    <3>3. SubSeq(Content, 1, n) = [i \in 1..n |-> Content[i]]
          BY <2>1, <2>2, <3>1
    <3>4. e = [i \in 1..n |-> Content[i]]
          BY <3>2
    <3> QED BY <2>2, <3>3, <3>4
  <2> HIDE DEF e
  <2>8. moved' = SubSeq(Content, 1, Len(moved')) /\ ret' = 0 /\ qsize' = qsize
        BY <2>3, <2>7
  <2> QED BY <2>6, <2>8, PeekMaps
<1>3. Returns(-2) \/ (0 <= n /\ n <= shadow)
      BY DEF ShadowPeekHead, E_BadParam
<1>4. n \in Int /\ shadow \in Nat
      BY BoundsAssumption, Ring DEF Counts
<1> QED BY <1>1, <1>2, <1>3, <1>4

\* What a device stores lies in no cell of the stock.
LEMMA DeviceStoreSteps ==
  ASSUME TypeOK, DeviceTargetStable, DeviceKeeps, NEW d \in Seq(Byte), DeviceStore(d)
  PROVE  Queue!Next
<1>1. /\ qsize \in Nat /\ shadow \in Nat /\ head \in 0..qsize /\ tail \in 0..qsize
      /\ StockEles \in 0..qsize /\ VacantEles = qsize - StockEles
      /\ StockEles = StockOf(head, tail, qsize)
      BY Ring
<1>2. reading.at = tail /\ reading.len <= VacantEles /\ reading.len \in Nat /\ Len(d) <= reading.len
      BY DEF DeviceStore, DeviceTargetStable, DeviceKeeps, TypeOK
<1>3. Len(d) \in Nat /\ Len(d) <= qsize - StockEles
      BY <1>1, <1>2
<1>4. /\ qbuf' = [i \in DOMAIN qbuf |->
                    IF tail <= i /\ i < tail + Len(d) THEN d[i - tail + 1] ELSE qbuf[i]]
      /\ head' = head /\ tail' = tail /\ qsize' = qsize /\ ret' = 0 /\ moved' = <<>>
      BY <1>2 DEF DeviceStore
<1>5. \A i \in 1..StockEles : qbuf'[Wrap(head, i - 1, qsize)] = qbuf[Wrap(head, i - 1, qsize)]
  <2> TAKE i \in 1..StockEles
  <2>1. i - 1 \in 0..qsize
        BY <1>1
  <2>2. Wrap(head, i - 1, qsize) \in 0..qsize
        BY <1>1, <2>1, WrapInRing
  <2>3. Wrap(head, i - 1, qsize) \in DOMAIN qbuf
        BY <1>1, <2>2 DEF AllStorage, TypeOK
  <2>4. ~(tail <= Wrap(head, i - 1, qsize) /\ Wrap(head, i - 1, qsize) < tail + Len(d))
        BY <1>1, <1>3 DEF Wrap, StockOf
  <2> QED BY <1>4, <2>3, <2>4
<1>6. Run(qbuf', head, StockEles, qsize) = Run(qbuf, head, StockEles, qsize)
      BY <1>5, RunKept
<1>7. Content' = Content
      BY <1>4, <1>6 DEF Content, StockEles
<1> QED BY <1>4, <1>7, AdministerMaps

\* With no ring there is nothing to retrieve.
LEMMA RetrieveNothing ==
  ASSUME TypeOK, TypeOK', qsize = 0, NEW d, NEW m, Retrieve(0, d, m, 0), d = <<>>
  PROVE  Queue!Next
<1>1. Content = <<>> /\ StockEles = 0 /\ head = 0 /\ tail = 0
      BY NoRingNoContent
<1>2. qsize' = 0 /\ ret' = 0 /\ moved' = <<>>
      BY DEF Retrieve, E_Success
<1>3. StockEles' = 0
      BY <1>2 DEF StockEles, StockOf
<1>4. Content' = <<>>
      BY <1>3, RunEmpty DEF Content
<1> QED BY <1>1, <1>2, <1>4, AdministerMaps

LEMMA RetrieveSteps ==
  ASSUME TypeOK, TypeOK', NEW n \in 0..qsize, NEW d, NEW m, LiesAtTail(m, d, n),
         Retrieve(n, d, m, n - VacantEles)
  PROVE  Queue!Next
<1>1. /\ qsize \in Nat /\ StockEles \in 0..qsize /\ VacantEles = qsize - StockEles
      BY Ring
<1>2. d \in Seq(Byte) /\ Len(d) = n /\ moved' = d /\ ret' = 0
      BY DEF LiesAtTail, Retrieve, E_Success
<1>3. CASE qsize = 0
  <2>1. n = 0 /\ VacantEles = 0 /\ n - VacantEles = 0
        BY <1>1, <1>3, NoRingNoContent
  <2>2. d = <<>>
        BY <1>2, <2>1
  <2> QED BY <1>3, <2>1, <2>2, RetrieveNothing
<1>4. CASE qsize # 0
  <2> DEFINE over == Overflow(n)
  <2>1. /\ over \in 0..StockEles /\ qsize' = qsize
        /\ Content' = SubSeq(Content, over + 1, StockEles) \o d
        BY <1>4, RetrieveContent
  <2>2. over = IF n <= VacantEles THEN 0 ELSE StockEles + n - qsize
        BY <1>1 DEF Overflow, HigherOf
  <2> HIDE DEF over
  <2>3. CASE over = 0
    <3>1. SubSeq(Content, 0 + 1, StockEles) = Content
          BY <1>1, ContentType
    <3>0. StockEles + n <= qsize
          BY <1>1, <2>2, <2>3
    <3>2. Content' = Content \o moved' /\ StockEles + Len(moved') <= qsize
          BY <1>2, <2>1, <2>3, <3>0, <3>1
    <3>3. moved' \in Seq(Byte) /\ ret' \in {0, Len(moved')}
          BY <1>2
    <3> QED BY <2>1, <3>2, <3>3, PutAllMaps
  <2>4. CASE over # 0
    <3>0. over \in 1..StockEles /\ over = StockEles + n - qsize
          BY <1>1, <2>1, <2>2, <2>4
    <3>1. over \in 1..StockEles /\ over = StockEles + Len(moved') - qsize
          BY <1>2, <3>0
    <3>2. moved' \in Seq(Byte) /\ ret' \in {0, over}
          BY <1>2
    <3>3. Content' = SubSeq(Content, over + 1, StockEles) \o moved'
          BY <1>2, <2>1
    <3> QED BY <2>1, <3>1, <3>2, <3>3, PutOverOldestMaps
  <2> QED BY <2>3, <2>4
<1> QED BY <1>3, <1>4

LEMMA RetrieveEndMaps ==
  ASSUME TypeOK, TypeOK', DeviceTargetStable, DeviceKeeps, ShadowRetrieveEnd
  PROVE  Queue!Next
<1> DEFINE d == reading.data
           n == Len(d)
<1>1. /\ reading # Idle /\ reading.at = tail /\ d \in Seq(Byte) /\ n \in Nat
      /\ n <= reading.len /\ reading.len \in Nat /\ reading.len <= VacantEles
      /\ \A i \in 1..n : qbuf[tail + i - 1] = d[i]
  <2>1. reading # Idle /\ reading.stored /\ reading.at = tail
        BY DEF ShadowRetrieveEnd, DeviceTargetStable
  <2>2. d \in Seq(Byte) /\ n <= reading.len /\ reading.len \in Nat /\ n \in Nat
        BY <2>1 DEF TypeOK
  <2>3. reading.len <= VacantEles /\ \A i \in 1..n : qbuf[reading.at + i - 1] = d[i]
        BY <2>1 DEF DeviceKeeps
  <2> QED BY <2>1, <2>2, <2>3
<1>2. /\ qsize \in Nat /\ StockEles \in 0..qsize /\ VacantEles = qsize - StockEles
      BY Ring
<1>3. n \in 0..qsize /\ n <= VacantEles
      BY <1>1, <1>2
<1>4. Retrieve(n, d, qbuf, n - VacantEles)
      BY <1>2, <1>3 DEF ShadowRetrieveEnd
<1>5. LiesAtTail(qbuf, d, n)
      BY <1>1 DEF LiesAtTail, TypeOK
<1> HIDE DEF d, n
<1> QED BY <1>3, <1>4, <1>5, RetrieveSteps

LEMMA StoreOverwriteMaps ==
  ASSUME TypeOK, TypeOK', NEW n \in Counts, NEW d \in Strings(n), ShadowStoreOverwrite(n, d)
  PROVE  Queue!Next
<1> DEFINE m == [i \in DOMAIN qbuf |->
                   IF tail <= i /\ i < tail + n THEN d[i - tail + 1] ELSE qbuf[i]]
<1>1. /\ qsize \in Nat /\ shadow \in Nat /\ tail \in 0..qsize
      /\ (qsize # 0 => shadow # 0)
      BY Ring
<1>2. n \in 0..qsize /\ n <= shadow
      BY <1>1, BoundsAssumption DEF ShadowStoreOverwrite, Counts
<1>3. d \in Seq(Byte) /\ Len(d) = n /\ \A i \in 1..n : d[i] \in Byte
      BY <1>2, StringsAreSequences DEF Strings
<1>4. DOMAIN qbuf = 0 .. AllStorage - 1 /\ \A i \in 0 .. AllStorage - 1 : qbuf[i] \in Byte
      BY DEF TypeOK
<1>5. m \in [0 .. AllStorage - 1 -> Byte]
      BY <1>1, <1>2, <1>3, <1>4 DEF AllStorage
<1>6. Retrieve(n, d, m, n - VacantEles)
      BY DEF ShadowStoreOverwrite
<1>7. CASE qsize = 0
  <2>1. n = 0 /\ VacantEles = 0 /\ n - VacantEles = 0
        BY <1>1, <1>2, <1>7, NoRingNoContent
  <2>2. d = <<>>
        BY <1>3, <2>1
  <2> HIDE DEF m
  <2> QED BY <1>6, <1>7, <2>1, <2>2, RetrieveNothing
<1>8. CASE qsize # 0
  <2>0. \A i \in 0 .. AllStorage - 1 :
          m[i] = IF tail <= i /\ i < tail + n THEN d[i - tail + 1] ELSE qbuf[i]
        BY <1>4
  <2> HIDE DEF m
  <2>1. \A i \in 1..n : m[tail + i - 1] = d[i]
    <3> TAKE i \in 1..n
    <3> DEFINE j == tail + i - 1
    <3>1. j \in 0 .. AllStorage - 1 /\ tail <= j /\ j < tail + n /\ j - tail + 1 = i
          BY <1>1, <1>2 DEF AllStorage
    <3> HIDE DEF j
    <3>2. m[j] = d[i]
          BY <2>0, <3>1
    <3> QED BY <3>2 DEF j
  <2>2. \A i \in 0..qsize : ~(tail <= i /\ i < tail + n) => m[i] = qbuf[i]
    <3> TAKE i \in 0..qsize
    <3>1. i \in 0 .. AllStorage - 1
          BY <1>1, <1>8 DEF AllStorage
    <3> QED BY <2>0, <3>1
  <2>3. LiesAtTail(m, d, n)
        BY <1>3, <1>5, <2>1, <2>2 DEF LiesAtTail
  <2> QED BY <1>2, <1>6, <2>3, RetrieveSteps
<1> QED BY <1>7, <1>8

\* The consumer's calls between a device's start and its end: none of them takes
\* room away or touches the cells it fills.
LEMMA KeptByConsumer ==
  ASSUME TypeOK, DeviceKeeps, UNCHANGED <<qsize, qbuf, reading>>,
         NEW m \in 0..StockEles, StockEles' = StockEles - m
  PROVE  DeviceKeeps'
<1>1. qsize \in Nat /\ StockEles \in 0..qsize
      BY Ring
<1>2. VacantEles' = VacantEles + m /\ VacantEles \in Int
      BY <1>1 DEF VacantEles
<1>3. reading # Idle => reading.len \in Int
      BY DEF TypeOK
<1>4. reading # Idle => reading.len <= VacantEles'
      BY <1>2, <1>3 DEF DeviceKeeps
<1> QED BY <1>4 DEF DeviceKeeps

LEMMA KeptByTake ==
  ASSUME TypeOK, DeviceKeeps, NEW n \in Nat, Take(LowerOf(n, StockEles))
  PROVE  DeviceKeeps'
<1> DEFINE m == LowerOf(n, StockEles)
<1>1. /\ qsize \in Nat /\ head \in 0..qsize /\ tail \in 0..qsize /\ StockEles \in 0..qsize
      BY Ring
<1>2. m \in 0..StockEles
      BY <1>1 DEF LowerOf
<1>3. head' = Forward(head, m) /\ UNCHANGED <<qsize, qbuf, tail, reading>>
      BY DEF Take
<1> HIDE DEF m
<1>4. StockEles' = StockEles - m
  <2>1. m \in 0..StockOf(head, tail, qsize)
        BY <1>2 DEF StockEles
  <2>2. StockOf(Forward(head, m), tail, qsize) = StockOf(head, tail, qsize) - m
        BY <1>1, <2>1, StockShrinks
  <2> QED BY <1>3, <2>2 DEF StockEles
<1> QED BY <1>2, <1>3, <1>4, KeptByConsumer

LEMMA KeptByClear ==
  ASSUME TypeOK, TypeOK', "ClearReset" \notin Calls, DeviceKeeps,
         NEW n \in Counts, NEW reset \in BOOLEAN, Clear(n, reset)
  PROVE  DeviceKeeps'
<1>1. n \in Int /\ StockEles \in Nat
      BY BoundsAssumption, Ring DEF Counts
<1>2. CASE n < 0
  <2>1. CASE reset
    <3>1. reading' = Idle
          BY <1>1, <1>2, <2>1 DEF Clear
    <3> QED BY <3>1 DEF DeviceKeeps, Idle
  <2>2. CASE ~reset
    <3>1. UNCHANGED <<qsize, qbuf, reading>> /\ head' = tail'
          BY <1>1, <1>2, <2>2 DEF Clear, DropAll
    <3>2. StockEles' = 0
          BY <3>1, ContentGone
    <3>3. StockEles \in 0..StockEles /\ StockEles' = StockEles - StockEles
          BY <1>1, <3>2
    <3> QED BY <3>1, <3>3, KeptByConsumer
  <2> QED BY <2>1, <2>2
<1>3. CASE ~(n < 0)
  <2>1. n \in Nat /\ Take(LowerOf(n, StockEles))
        BY <1>1, <1>3 DEF Clear
  <2> QED BY <2>1, KeptByTake
<1> QED BY <1>2, <1>3

\* A peek that reaches into the shadow is of a stock that reaches round the end of
\* the ring, so that the device's cells end before the head.
LEMMA KeptByPeek ==
  ASSUME TypeOK, "PeekBeyond" \notin Calls, DeviceTargetStable, DeviceKeeps,
         NEW n \in Counts, ShadowPeekHead(n), ~(n > shadow \/ n < 0)
  PROVE  DeviceKeeps'
<1>1. /\ qsize \in Nat /\ shadow \in Nat /\ head \in 0..qsize /\ tail \in 0..qsize
      /\ StockEles \in 0..qsize /\ VacantEles = qsize - StockEles
      /\ StockEles = StockOf(head, tail, qsize)
      BY Ring
<1>2. /\ n \in Nat /\ n <= StockEles /\ head # tail
      /\ head' = head /\ tail' = tail /\ qsize' = qsize /\ reading' = reading
      /\ qbuf' = [i \in 0 .. AllStorage - 1 |->
                    IF qboundary <= i /\ i < head + n THEN qbuf[i - qboundary] ELSE qbuf[i]]
      BY <1>1, BoundsAssumption, PeekContent DEF Counts
<1>3. VacantEles' = VacantEles
      BY <1>2 DEF VacantEles, StockEles
<1>4. CASE reading = Idle
      BY <1>2, <1>4 DEF DeviceKeeps, Idle
<1>5. CASE reading # Idle
  <2>1. /\ reading.at = tail /\ reading.len <= VacantEles
        /\ reading.stored =>
             \A i \in 1..Len(reading.data) : qbuf[reading.at + i - 1] = reading.data[i]
        BY <1>5 DEF DeviceTargetStable, DeviceKeeps
  <2>2. /\ reading.len \in Nat /\ Len(reading.data) \in Nat /\ Len(reading.data) <= reading.len
        /\ tail + reading.len <= AllStorage
        BY <1>5, <2>1 DEF TypeOK
  <2> DEFINE k == Len(reading.data)
  <2>3. k \in Nat /\ k <= qsize - StockEles /\ tail + k <= AllStorage
        BY <1>1, <2>1, <2>2 DEF AllStorage
  <2>4. \A i \in 1..k : qbuf'[tail + i - 1] = qbuf[tail + i - 1]
    <3> HIDE DEF k
    <3> TAKE i \in 1..k
    <3> DEFINE j == tail + i - 1
    <3>1. j \in 0 .. AllStorage - 1 /\ ~(qboundary <= j /\ j < head + n)
          BY <1>1, <1>2, <2>3 DEF AllStorage, qboundary, StockOf
    <3> HIDE DEF j
    <3>2. qbuf'[j] = qbuf[j]
          BY <1>2, <3>1
    <3> QED BY <3>2 DEF j
  <2>5. reading.stored =>
          \A i \in 1..Len(reading.data) : qbuf'[reading.at + i - 1] = reading.data[i]
        BY <2>1, <2>4
  <2> QED BY <1>2, <1>3, <2>1, <2>5 DEF DeviceKeeps
<1> QED BY <1>4, <1>5

LEMMA KeptByDevice ==
  ASSUME TypeOK, DeviceTargetStable, DeviceKeeps, NEW d \in Seq(Byte), DeviceStore(d)
  PROVE  DeviceKeeps'
<1>1. /\ reading # Idle /\ reading.at = tail /\ reading.len <= VacantEles
      BY DEF DeviceStore, DeviceTargetStable, DeviceKeeps
<1>2. /\ reading.len \in Nat /\ tail + reading.len <= AllStorage /\ Len(d) \in Nat
      /\ Len(d) <= reading.len /\ tail \in Nat /\ DOMAIN qbuf = 0 .. AllStorage - 1
      /\ shadow \in Nat /\ qsize \in Nat
      BY <1>1 DEF TypeOK, DeviceStore
<1>3. /\ qbuf' = [i \in DOMAIN qbuf |->
                    IF tail <= i /\ i < tail + Len(d) THEN d[i - tail + 1] ELSE qbuf[i]]
      /\ UNCHANGED <<qsize, head, tail>>
      BY <1>1 DEF DeviceStore
<1>4. reading'.at = tail /\ reading'.len = reading.len /\ reading'.data = d
      BY <1>1 DEF DeviceStore, TypeOK
<1>5. VacantEles' = VacantEles
      BY <1>3 DEF VacantEles, StockEles
<1>6. \A i \in 1..Len(d) : qbuf'[tail + i - 1] = d[i]
  <2> DEFINE n == Len(d)
  <2>1. n \in Nat /\ n <= reading.len
        BY <1>2
  <2> HIDE DEF n
  <2>2. \A i \in 1..n : qbuf'[tail + i - 1] = d[i]
    <3> TAKE i \in 1..n
    <3> DEFINE j == tail + i - 1
    <3>1. j \in 0 .. AllStorage - 1 /\ tail <= j /\ j < tail + n /\ j - tail + 1 = i
          BY <1>2, <2>1 DEF AllStorage
    <3> HIDE DEF j
    <3>2. qbuf'[j] = d[i]
          BY <1>2, <1>3, <3>1 DEF n
    <3> QED BY <3>2 DEF j
  <2> QED BY <2>2 DEF n
<1> QED BY <1>1, <1>4, <1>5, <1>6 DEF DeviceKeeps

LEMMA NextDeviceKeeps ==
  ASSUME Calls \cap TailMoving = {}
  PROVE  TypeOK /\ TypeOK' /\ DeviceTargetStable /\ DeviceKeeps /\ [Next]_vars => DeviceKeeps'
<1> SUFFICES ASSUME TypeOK, TypeOK', DeviceTargetStable, DeviceKeeps, [Next]_vars
             PROVE  DeviceKeeps'
    OBVIOUS
<1>a. "ClearReset" \notin Calls /\ "ResetStocked" \notin Calls /\ "PeekBeyond" \notin Calls
      BY DEF TailMoving
<1>1. ASSUME UNCHANGED <<qsize, qbuf, head, tail, reading>> PROVE DeviceKeeps'
      BY <1>1 DEF DeviceKeeps, VacantEles, StockEles
<1>2. ASSUME reading' = Idle PROVE DeviceKeeps'
      BY <1>2 DEF DeviceKeeps, Idle
<1>3. ASSUME NEW code, Returns(code) PROVE DeviceKeeps'
      BY <1>1, <1>3 DEF Returns, bufVars
<1>4. ASSUME NEW q \in 0..MaxQueue, NEW s \in -1..MaxShadow, Create(q, s)
      PROVE  DeviceKeeps'
      BY <1>2, <1>3, <1>4 DEF Create
<1>5. CASE Destroy
      BY <1>2, <1>5 DEF Destroy
<1>6. ASSUME NEW n \in Counts, NEW d \in Strings(n) \cup {NULL}, Put(n, d)
      PROVE  DeviceKeeps'
      BY <1>2, <1>3, <1>6 DEF Put, Producer
<1>7. ASSUME NEW n \in Counts, PutOverwriteRefused(n) PROVE DeviceKeeps'
      BY <1>3, <1>7 DEF PutOverwriteRefused
<1>8. ASSUME NEW n \in Counts, NEW d \in Strings(n),
             \/ PutOverwriteFits(n, d) \/ PutOverwriteSome(n, d)
             \/ PutOverwriteAll(n, d) \/ OverwriteHead(n, d)
             \/ ShadowStoreOverwrite(n, d)
      PROVE  DeviceKeeps'
  <2>1. reading = Idle
        BY <1>8 DEF Producer, PutOverwriteFits, PutOverwriteSome, PutOverwriteAll,
           OverwriteHead, ShadowStoreOverwrite
  <2>2. reading' = reading
        BY <1>8 DEF PutOverwriteFits, PutOverwriteSome, PutOverwriteAll,
           OverwriteHead, ShadowStoreOverwrite, Returns
  <2> QED BY <1>2, <2>1, <2>2
<1>9. ASSUME NEW n \in Counts, Get(n) PROVE DeviceKeeps'
  <2>1. CASE n >= 0 /\ Take(LowerOf(n, StockEles))
    <3>1. n \in Nat
          BY <2>1, BoundsAssumption DEF Counts
    <3> QED BY <2>1, <3>1, KeptByTake
  <2> QED BY <1>3, <1>9, <2>1 DEF Get
<1>10. ASSUME NEW n \in Counts, NEW reset \in BOOLEAN, Clear(n, reset)
       PROVE  DeviceKeeps'
       BY <1>a, <1>10, KeptByClear
<1>11. CASE ResetPtr
       BY <1>2, <1>a, <1>11 DEF ResetPtr
<1>12. CASE ResetPeakUsage
       BY <1>1, <1>12 DEF ResetPeakUsage
<1>13. ASSUME NEW n \in Counts, ShadowPeekHead(n) PROVE DeviceKeeps'
  <2>1. CASE n > shadow \/ n < 0
    <3>1. n \in Int /\ shadow \in Nat
          BY BoundsAssumption, Ring DEF Counts
    <3>2. Returns(E_BadParam)
          BY <1>13, <2>1, <3>1 DEF ShadowPeekHead
    <3> QED BY <1>3, <3>2
  <2>2. CASE ~(n > shadow \/ n < 0)
        BY <1>a, <1>13, <2>2, KeptByPeek
  <2> QED BY <2>1, <2>2
<1>14. ASSUME NEW n \in Counts, BeginDeviceRead(n) PROVE DeviceKeeps'
  <2>1. /\ n <= VacantEles /\ reading' = [at |-> tail, len |-> n, data |-> <<>>, stored |-> FALSE]
        /\ UNCHANGED <<qsize, head, tail>>
        BY <1>14 DEF BeginDeviceRead, bufVars
  <2>2. VacantEles' = VacantEles
        BY <2>1 DEF VacantEles, StockEles
  <2> QED BY <2>1, <2>2 DEF DeviceKeeps
<1>15. ASSUME NEW n \in Counts, ShadowRetrieveRefused(n) PROVE DeviceKeeps'
       BY <1>3, <1>15 DEF ShadowRetrieveRefused
<1>16. ASSUME NEW n \in 0..MaxEles, NEW d \in Strings(n), DeviceStore(d) PROVE DeviceKeeps'
  <2>1. d \in Seq(Byte)
        BY BoundsAssumption, StringsAreSequences
  <2> QED BY <1>16, <2>1, KeptByDevice
<1>17. CASE ShadowRetrieveEnd
       BY <1>2, <1>17 DEF ShadowRetrieveEnd
<1>18. CASE UNCHANGED vars
       BY <1>1, <1>18 DEF vars
<1> QED
  BY <1>4, <1>5, <1>6, <1>7, <1>8, <1>9, <1>10, <1>11, <1>12, <1>13, <1>14, <1>15,
     <1>16, <1>17, <1>18 DEF Next

--------------------------------------------------------------------------------
\* Every call is a step of the abstract queue.
LEMMA NextMaps ==
  ASSUME Calls \cap (Drifting \cup TailMoving) = {}
  PROVE  TypeOK /\ TypeOK' /\ CurElesExact /\ DeviceTargetStable /\ DeviceKeeps /\ [Next]_vars
           => Queue!Next \/ UNCHANGED <<qsize, Fetch(head, StockEles), moved, ret>>
<1> SUFFICES ASSUME TypeOK, TypeOK', CurElesExact, DeviceTargetStable, DeviceKeeps, [Next]_vars
             PROVE  Queue!Next \/ UNCHANGED <<qsize, Fetch(head, StockEles), moved, ret>>
    OBVIOUS
<1>a. "OverwriteLong" \notin Calls /\ "ResetStocked" \notin Calls /\ "PeekBeyond" \notin Calls
      BY DEF Drifting, TailMoving
<1>1. ASSUME NEW q \in 0..MaxQueue, NEW s \in -1..MaxShadow, Create(q, s)
      PROVE  Queue!Next
      BY <1>1, CreateMaps
<1>2. CASE Destroy
      BY <1>2, DestroyMaps
<1>3. ASSUME NEW n \in Counts, NEW d \in Strings(n) \cup {NULL}, Put(n, d)
      PROVE  Queue!Next
      BY <1>3, PutMaps
<1>4. ASSUME NEW n \in Counts, PutOverwriteRefused(n) PROVE Queue!Next
      BY <1>4, OverwriteRefusedMaps
<1>5. ASSUME NEW n \in Counts, NEW d \in Strings(n), PutOverwriteFits(n, d)
      PROVE  Queue!Next
      BY <1>5, OverwriteFitsMaps
<1>6. ASSUME NEW n \in Counts, NEW d \in Strings(n), PutOverwriteSome(n, d)
      PROVE  Queue!Next
      BY <1>6, OverwriteSomeMaps
<1>7. ASSUME NEW n \in Counts, NEW d \in Strings(n), PutOverwriteAll(n, d)
      PROVE  Queue!Next
      BY <1>7, <1>a, OverwriteAllMaps
<1>8. ASSUME NEW n \in Counts, NEW d \in Strings(n), OverwriteHead(n, d)
      PROVE  Queue!Next
      BY <1>8, OverwriteHeadMaps
<1>9. ASSUME NEW n \in Counts, NEW d \in Strings(n), ShadowStoreOverwrite(n, d)
      PROVE  Queue!Next
      BY <1>9, StoreOverwriteMaps
<1>10. ASSUME NEW n \in Counts, Get(n) PROVE Queue!Next
       BY <1>10, GetMaps
<1>11. ASSUME NEW n \in Counts, NEW reset \in BOOLEAN, Clear(n, reset) PROVE Queue!Next
       BY <1>11, ClearMaps
<1>12. CASE ResetPtr
       BY <1>12, <1>a, ResetPtrMaps
<1>13. CASE ResetPeakUsage
       BY <1>13, ResetPeakMaps
<1>14. ASSUME NEW n \in Counts, ShadowPeekHead(n) PROVE Queue!Next
       BY <1>14, <1>a, PeekSteps
<1>15. ASSUME NEW n \in Counts, BeginDeviceRead(n) PROVE Queue!Next
       BY <1>15, NothingMaps DEF BeginDeviceRead
<1>16. ASSUME NEW n \in Counts, ShadowRetrieveRefused(n) PROVE Queue!Next
  <2>1. Returns(E_BadParam) /\ E_BadParam \in Int /\ E_BadParam < 0
        BY <1>16 DEF ShadowRetrieveRefused, E_BadParam
  <2> QED BY <2>1, RefuseMaps
<1>17. ASSUME NEW n \in 0..MaxEles, NEW d \in Strings(n), DeviceStore(d) PROVE Queue!Next
  <2>1. d \in Seq(Byte)
        BY BoundsAssumption, StringsAreSequences
  <2> QED BY <1>17, <2>1, DeviceStoreSteps
<1>18. CASE ShadowRetrieveEnd
       BY <1>18, RetrieveEndMaps
<1>19. CASE UNCHANGED vars
  <2>1. UNCHANGED <<qsize, Content, moved, ret>>
        BY <1>19, ContentKept DEF vars
  <2> QED BY <2>1, Mapping
<1> QED
  BY <1>1, <1>2, <1>3, <1>4, <1>5, <1>6, <1>7, <1>8, <1>9, <1>10, <1>11, <1>12, <1>13,
     <1>14, <1>15, <1>16, <1>17, <1>18, <1>19 DEF Next

\* For a client that keeps to the rules, the circular buffer is a bounded queue:
\* what comes out is what went in, in order, each Put() all or nothing, an
\* overwrite dropping the oldest only, also with a device at the tail and a
\* reader in the shadow.
THEOREM BufferIsQueue ==
  ASSUME Calls \cap (Drifting \cup TailMoving) = {}
  PROVE  Spec => ImplementsByteQueue
<1>1. Calls \cap Drifting = {} /\ Calls \cap TailMoving = {}
      OBVIOUS
<1>2. Init => Queue!Init
  <2> SUFFICES ASSUME Init PROVE Queue!Init
      OBVIOUS
  <2>1. StockEles = 0
        BY DEF Init, StockEles, StockOf
  <2>2. Content = <<>>
        BY <2>1, RunEmpty DEF Content
  <2> QED BY <2>2, Mapping DEF Init, Queue!Init
<1>3. Init => DeviceKeeps
      BY DEF Init, DeviceKeeps
<1>4. Spec => []TypeOK
      BY TypeCorrect
<1>5. Spec => []CurElesExact
      BY <1>1, CountExact
<1>6. Spec => []DeviceTargetStable
      BY <1>1, DeviceTargetKept
<1>7. TypeOK /\ TypeOK' /\ DeviceTargetStable /\ DeviceKeeps /\ [Next]_vars => DeviceKeeps'
      BY <1>1, NextDeviceKeeps
<1>8. TypeOK /\ TypeOK' /\ CurElesExact /\ DeviceTargetStable /\ DeviceKeeps /\ [Next]_vars
        => [Queue!Next]_<<qsize, Fetch(head, StockEles), moved, ret>>
      BY NextMaps
<1> QED BY <1>2, <1>3, <1>4, <1>5, <1>6, <1>7, <1>8, PTL
           DEF Spec, ImplementsByteQueue, Queue!Spec, Queue!vars
==============================================================================
