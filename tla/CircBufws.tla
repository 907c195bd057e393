------------------------------- MODULE CircBufws -------------------------------
(***************************************************************************)
(* CCircBufws (common-include/include/CircBufws.h): a circular byte buffer *)
(* with a shadow area behind its storage.                                  *)
(*                                                                         *)
(* Pointers are offsets from m_qbuf.  The ring proper is the qsize+1 cells *)
(* 0..qsize (one cell is always vacant); the block that Init allocates has *)
(* qsize+shadow cells, and the cells from qsize+1 on are the shadow, where *)
(* a caller may read or write contiguously past the end of the ring.       *)
(*                                                                         *)
(* The variables follow the release build.  m_cureles exists in the debug  *)
(* build only; it is kept as a history variable so that the assertions     *)
(* the debug build makes about it can be stated.                           *)
(***************************************************************************)
EXTENDS Integers, Sequences

CONSTANTS
  Byte,       \* what an element can hold; 0 is the value memset leaves
  MaxQueue,   \* bound: the largest QueueEles a caller passes to Init
  MaxShadow,  \* bound: the largest ShadowEles a caller passes to Init
  MaxEles,    \* bound: the largest element count of any other call
  Calls       \* the calls this client of the buffer makes

ASSUME BoundsAssumption ==
  /\ MaxQueue \in Nat \ {0}
  /\ MaxShadow \in Nat
  /\ MaxEles \in Nat
  /\ 0 \in Byte

VARIABLES
  qsize,     \* m_qsize: capacity, 0 while not created
  shadow,    \* m_shadow_size
  qbuf,      \* *m_qbuf: the allocated cells
  head,      \* m_pHead
  tail,      \* m_pTail_: one past the last filled cell
  peakuse,   \* m_peakuse
  cureles,   \* m_cureles (debug build)
  reading,   \* a read into TailPtr_() that a device has not handed back yet
  ret,       \* what the last call returned
  moved      \* the elements the last call took in or handed out

bufVars == <<qsize, shadow, qbuf, head, tail, peakuse, cureles>>
vars    == <<qsize, shadow, qbuf, head, tail, peakuse, cureles, reading, ret, moved>>

E_Success           == 0
E_BadParam          == -2
E_Full              == -4
E_OverwriteNotAllow == -5

NULL   == <<>>                     \* the pdata of a virtual put
Idle   == [at |-> -1, len |-> 0, data |-> <<>>, stored |-> FALSE]

\* Bound: the two calls that leave the debug counter ahead of the pointers
\* are not made again while it is far ahead.
DriftBounded == cureles <= MaxQueue

Counts == -1 .. MaxEles            \* -1 stands for every negative count
Strings(n) == [1..n -> Byte]

--------------------------------------------------------------------------------
(***************************************************************************)
(* Ring arithmetic.                                                        *)
(***************************************************************************)
qboundary == qsize + 1

AllStorage == qsize + shadow

StockOf(h, t, q) == IF q = 0 THEN 0
                    ELSE IF t - h < 0 THEN t - h + q + 1 ELSE t - h

StockEles  == StockOf(head, tail, qsize)
\* Mutation: the gap cell is counted as room.
VacantWithGap == IF qsize = 0 THEN 0 ELSE qboundary - StockEles

VacantEles == qsize - StockEles

\* _BreakApart: how much of n elements from p fits before the ring's end.
Part1(p, n) == IF qboundary - p >= n THEN n ELSE qboundary - p

\* Where a pointer that starts at p is after n elements, rewind included.
Forward(p, n) == IF p + n >= qboundary THEN p + n - qboundary ELSE p + n

\* The n elements a reader finds from p on, rewind included.
Fetch(p, n) == [i \in 1..n |-> qbuf[Forward(p, i - 1)]]

\* The storage after d has been copied to p, rewind included.
Stored(p, d) ==
  LET part1 == Part1(p, Len(d))
      part2 == Len(d) - part1
  IN  [i \in DOMAIN qbuf |->
         IF p <= i /\ i < p + part1 THEN d[i - p + 1]
         ELSE IF i < part2 THEN d[part1 + i + 1]
         ELSE qbuf[i]]

LastOf(d, n) == SubSeq(d, Len(d) - n + 1, Len(d))

LowerOf(a, b)  == IF a <= b THEN a ELSE b
HigherOf(a, b) == IF a >= b THEN a ELSE b

--------------------------------------------------------------------------------
Init ==
  /\ qsize = 0 /\ shadow = 0 /\ qbuf = [i \in {} |-> 0]
  /\ head = 0 /\ tail = 0 /\ peakuse = 0 /\ cureles = 0
  /\ reading = Idle /\ ret = 0 /\ moved = <<>>

\* A call that returns early: the buffer stays as it was.
Returns(code) ==
  /\ ret' = code /\ moved' = <<>>
  /\ UNCHANGED <<bufVars, reading>>

\* The calls that fill the tail come from one producer, which waits for its
\* device read before it makes another.
Producer(call) == call \in Calls /\ reading = Idle

(***************************************************************************)
(* Init().  Neither m_peakuse nor m_cureles is reset, and a block that is  *)
(* already there is abandoned.  A client that pairs Init with Destroy has  *)
(* no "ReInit" among its calls.                                            *)
(***************************************************************************)
Create(q, s) ==
  /\ "Init" \in Calls
  /\ qsize = 0 \/ ("ReInit" \in Calls /\ DriftBounded)
  /\ reading = Idle
  /\ IF q <= 0 \/ s < 0 THEN Returns(E_BadParam)
     ELSE /\ qsize' = q
          /\ shadow' = IF s = 0 THEN 1 ELSE s
          /\ qbuf' = [i \in 0 .. (q + shadow' - 1) |-> 0]
          /\ head' = 0 /\ tail' = 0
          /\ ret' = E_Success /\ moved' = <<>>
          /\ UNCHANGED <<peakuse, cureles, reading>>

Destroy ==
  /\ "Destroy" \in Calls
  /\ reading = Idle
  /\ qsize' = 0 /\ shadow' = 0 /\ qbuf' = [i \in {} |-> 0]
  /\ head' = 0 /\ tail' = 0 /\ peakuse' = 0 /\ cureles' = 0
  /\ ret' = 0 /\ moved' = <<>>
  /\ UNCHANGED reading

\* _UpdatePeakUsage.
PeakForgotten(h, t) == peakuse   \* mutation: not called
PeakWith(h, t) == HigherOf(peakuse, StockOf(h, t, qsize))

(***************************************************************************)
(* The part of Put() that follows its checks, for n > 0 elements that fit. *)
(* A virtual put (d = NULL) takes whatever the cells already hold.  h is   *)
(* the head and c the debug counter that Put finds.                        *)
(***************************************************************************)
PutFrom(h, c, n, d) ==
  LET empty == h = tail
      start == IF empty THEN 0 ELSE tail
      first == IF empty THEN 0 ELSE h
  IN  /\ moved' = IF d = NULL THEN Fetch(start, n) ELSE d
      /\ head' = first
      /\ tail' = Forward(start, n)
      /\ qbuf' = IF d = NULL THEN qbuf ELSE Stored(start, d)
      /\ cureles' = c + n
      /\ peakuse' = PeakWith(first, Forward(start, n))
      /\ UNCHANGED <<qsize, shadow>>

Put(n, d) ==
  /\ Producer("Put")
  /\ \/ n < 0 /\ Returns(E_BadParam)
     \/ n >= 0 /\ n > VacantEles /\ Returns(E_Full)
     \/ n = 0 /\ Returns(0)
     \/ /\ 0 < n /\ n <= VacantEles
        /\ PutFrom(head, cureles, n, d)
        /\ ret' = n
        /\ UNCHANGED reading

--------------------------------------------------------------------------------
(***************************************************************************)
(* PutOverwrite().  Its three branches: everything fits; the oldest        *)
(* elements give way; the new data fills the buffer on its own.  The last  *)
(* one rewinds both pointers and copies, and leaves the tail at the head.  *)
(***************************************************************************)
PutOverwriteRefused(n) ==
  /\ Producer("PutOverwrite")
  /\ \/ n < 0 /\ Returns(E_BadParam)
     \/ n >= 0 /\ shadow > 1 /\ Returns(E_OverwriteNotAllow)

PutOverwriteFits(n, d) ==
  /\ Producer("PutOverwrite")
  /\ n >= 0 /\ shadow <= 1 /\ n <= VacantEles
  /\ IF n = 0 THEN moved' = <<>> /\ UNCHANGED bufVars
              ELSE PutFrom(head, cureles, n, d)
  /\ ret' = 0
  /\ UNCHANGED reading

PutOverwriteSome(n, d) ==
  LET overwrites == n - VacantEles
  IN  /\ Producer("PutOverwrite")
      /\ n >= 0 /\ shadow <= 1 /\ n > VacantEles /\ n < qsize
      /\ PutFrom(Forward(head, overwrites), cureles - overwrites, n, d)
      /\ ret' = overwrites
      /\ UNCHANGED reading

PutOverwriteAll(n, d) ==
  /\ Producer("PutOverwrite")
  /\ qsize = 0 \/ "OverwriteLong" \in Calls
  /\ n >= 0 /\ shadow <= 1 /\ n > VacantEles /\ n >= qsize
  /\ head' = 0 /\ tail' = 0
  /\ qbuf' = Stored(0, LastOf(d, qsize))
  /\ cureles' = qsize
  /\ peakuse' = qsize
  /\ ret' = StockEles + n - qsize /\ moved' = d
  /\ UNCHANGED <<qsize, shadow, reading>>

(***************************************************************************)
(* OverwriteHead(): a short run replaces the oldest elements in place; a   *)
(* run at least as long as the stock replaces the whole content.           *)
(***************************************************************************)
OverwriteHead(n, d) ==
  /\ Producer("OverwriteHead")
  /\ \/ n < 0 /\ Returns(E_BadParam)
     \/ n >= 0 /\ shadow > 1 /\ Returns(E_OverwriteNotAllow)
     \/ /\ n >= 0 /\ shadow <= 1 /\ n < StockEles
        /\ qbuf' = Stored(head, d)
        /\ ret' = 0 /\ moved' = d
        /\ UNCHANGED <<qsize, shadow, head, tail, peakuse, cureles, reading>>
     \/ LET exceed == HigherOf(0, n - qsize)
            kept   == n - exceed
        IN /\ n >= 0 /\ shadow <= 1 /\ n >= StockEles
           /\ head' = 0 /\ tail' = kept
           /\ qbuf' = Stored(0, LastOf(d, kept))
           /\ cureles' = kept
           /\ ret' = exceed + StockEles /\ moved' = d
           /\ UNCHANGED <<qsize, shadow, peakuse, reading>>

--------------------------------------------------------------------------------
\* The part of Get() that follows its checks; m = min(n, StockEles).
Take(m) ==
  /\ head' = Forward(head, m)
  /\ cureles' = cureles - m
  /\ ret' = m
  /\ UNCHANGED <<qsize, shadow, qbuf, tail, peakuse, reading>>

Get(n) ==
  /\ "Get" \in Calls
  /\ \/ n < 0 /\ Returns(E_BadParam)
     \/ /\ n >= 0
        /\ Take(LowerOf(n, StockEles))
        /\ moved' = Fetch(head, LowerOf(n, StockEles))

\* Mutation: the note in Clear() is ignored, the tail moves to the head.
DropAllMovingTail == head' = head /\ tail' = head

\* The tail may be in a pending read, so the head moves to it.
DropAll == head' = tail /\ tail' = tail

\* Clear(eles, reset): a negative count clears everything.
Clear(n, reset) ==
  /\ "Clear" \in Calls
  /\ moved' = <<>>
  /\ \/ /\ n < 0
        /\ reset => reading = Idle \/ "ClearReset" \in Calls
        /\ IF reset THEN head' = 0 /\ tail' = 0 ELSE DropAll
        /\ cureles' = 0
        /\ ret' = StockEles
        /\ UNCHANGED <<qsize, shadow, qbuf, peakuse, reading>>
     \/ n >= 0 /\ Take(LowerOf(n, StockEles))

\* ResetPtr(): its test, `m_pHead = m_pTail_', is an assignment, and true
\* for every created buffer.  A client that resets only an empty buffer no
\* device writes to has no "ResetStocked" among its calls.
ResetPtr ==
  /\ "ResetPtr" \in Calls
  /\ (cureles = 0 /\ reading = Idle) \/ ("ResetStocked" \in Calls /\ DriftBounded)
  /\ head' = 0 /\ tail' = 0
  /\ ret' = IF qsize = 0 THEN 0 ELSE 1
  /\ moved' = <<>>
  /\ UNCHANGED <<qsize, shadow, qbuf, peakuse, cureles, reading>>

ResetPeakUsage ==
  /\ "ResetPeakUsage" \in Calls
  /\ peakuse' = 0
  /\ ret' = 0 /\ moved' = <<>>
  /\ UNCHANGED <<qsize, shadow, qbuf, head, tail, cureles, reading>>

--------------------------------------------------------------------------------
(***************************************************************************)
(* ShadowPeekHead(n): the caller then reads n contiguous cells at the head *)
(* pointer, some of them in the shadow.  `eles_count <= m_qsize' is        *)
(* asserted in _BreakApart; the client keeps it.  On an empty buffer the   *)
(* call rewinds both pointers; a client that peeks only what is in stock   *)
(* has no "PeekBeyond" among its calls.                                    *)
(***************************************************************************)
ShadowPeekHead(n) ==
  /\ "ShadowPeekHead" \in Calls
  /\ \/ (n > shadow \/ n < 0) /\ Returns(E_BadParam)
     \/ LET empty == head = tail
            start == IF empty THEN 0 ELSE head
            part2 == n - Part1(start, n)
        IN /\ 0 <= n /\ n <= shadow /\ n <= qsize
           /\ (n <= StockEles /\ ~empty) \/ "PeekBeyond" \in Calls
           /\ head' = start
           /\ tail' = IF empty THEN 0 ELSE tail
           /\ qbuf' = [i \in DOMAIN qbuf |->
                         IF qboundary <= i /\ i < qboundary + part2
                         THEN qbuf[i - qboundary] ELSE qbuf[i]]
           /\ moved' = [i \in 1..LowerOf(n, StockEles) |-> qbuf'[start + i - 1]]
           /\ ret' = E_Success
           /\ UNCHANGED <<qsize, shadow, peakuse, cureles, reading>>

(***************************************************************************)
(* The producer side of the shadow: the client hands TailPtr_() to a       *)
(* device, which later fills up to `len' contiguous cells there, and the   *)
(* client then calls ShadowRetrieveEnd for what arrived.  Between these    *)
(* steps the consumer may call in.                                         *)
(***************************************************************************)
BeginDeviceRead(n) ==
  /\ Producer("ShadowRetrieveEnd")
  /\ 0 < n /\ n <= shadow /\ n <= VacantEles
  /\ reading' = [at |-> tail, len |-> n, data |-> <<>>, stored |-> FALSE]
  /\ ret' = 0 /\ moved' = <<>>
  /\ UNCHANGED bufVars

DeviceStore(d) ==
  /\ reading # Idle /\ ~reading.stored
  /\ Len(d) <= reading.len
  /\ qbuf' = [i \in DOMAIN qbuf |->
                IF reading.at <= i /\ i < reading.at + Len(d)
                THEN d[i - reading.at + 1] ELSE qbuf[i]]
  /\ reading' = [reading EXCEPT !.data = d, !.stored = TRUE]
  /\ ret' = 0 /\ moved' = <<>>
  /\ UNCHANGED <<qsize, shadow, head, tail, peakuse, cureles>>

ShadowRetrieveRefused(n) ==
  /\ Producer("ShadowRetrieveEnd")
  /\ n < 0 \/ n > shadow
  /\ Returns(E_BadParam)

\* Where the head goes when the oldest elements gave way to the tail.
HeadAfterLate(t)  == t + 1   \* mutation: no rewind
HeadAfter(t) == IF t = qboundary - 1 THEN 0 ELSE t + 1

\* Mutation: `_ResetPtrIfEmpty(); // this is Wrong!' is called first.
RetrieveStartReset == IF head = tail THEN 0 ELSE tail

RetrieveStart == tail

\* ShadowRetrieveEnd() for n elements that lie at the tail in storage m.
Retrieve(n, d, m, overflow) ==
  LET part1   == Part1(RetrieveStart, n)
      part2   == n - part1
      newtail == IF part2 > 0 THEN part2 ELSE Forward(RetrieveStart, part1)
      newhead == IF overflow > 0 THEN HeadAfter(newtail) ELSE head
  IN  /\ qbuf' = [i \in DOMAIN m |-> IF i < part2 THEN m[qboundary + i] ELSE m[i]]
      /\ tail' = newtail
      /\ head' = newhead
      /\ cureles' = cureles + n - HigherOf(0, overflow)
      /\ peakuse' = PeakWith(newhead, newtail)
      /\ ret' = E_Success /\ moved' = d
      /\ UNCHANGED <<qsize, shadow>>

ShadowRetrieveEnd ==
  LET n == Len(reading.data)
  IN  /\ "ShadowRetrieveEnd" \in Calls
      /\ reading # Idle /\ reading.stored
      /\ reading' = Idle
      /\ \/ /\ n > VacantEles
            /\ ret' = E_Full /\ moved' = <<>>
            /\ UNCHANGED bufVars
         \/ /\ n <= VacantEles
            /\ Retrieve(n, reading.data, qbuf, n - VacantEles)

(***************************************************************************)
(* The same with pOverWrittenBytes given: the client stores n contiguous   *)
(* elements at the tail and retrieves them with no other call in between,  *)
(* and the oldest elements give way.                                       *)
(***************************************************************************)
ShadowStoreOverwrite(n, d) ==
  /\ Producer("ShadowOverwrite")
  /\ 0 <= n /\ n <= shadow /\ n <= qsize
  /\ Retrieve(n, d,
              [i \in DOMAIN qbuf |->
                 IF tail <= i /\ i < tail + n THEN d[i - tail + 1] ELSE qbuf[i]],
              n - VacantEles)
  /\ UNCHANGED reading

--------------------------------------------------------------------------------
Next ==
  \/ \E q \in 0..MaxQueue, s \in -1..MaxShadow : Create(q, s)
  \/ Destroy
  \/ \E n \in Counts : \E d \in Strings(n) \cup {NULL} : Put(n, d)
  \/ \E n \in Counts : PutOverwriteRefused(n)
  \/ \E n \in Counts : \E d \in Strings(n) :
        \/ PutOverwriteFits(n, d)
        \/ PutOverwriteSome(n, d)
        \/ PutOverwriteAll(n, d)
        \/ OverwriteHead(n, d)
        \/ ShadowStoreOverwrite(n, d)
  \/ \E n \in Counts : Get(n)
  \/ \E n \in Counts, reset \in BOOLEAN : Clear(n, reset)
  \/ ResetPtr
  \/ ResetPeakUsage
  \/ \E n \in Counts : ShadowPeekHead(n)
  \/ \E n \in Counts : BeginDeviceRead(n) \/ ShadowRetrieveRefused(n)
  \/ \E n \in 0..MaxEles : \E d \in Strings(n) : DeviceStore(d)
  \/ ShadowRetrieveEnd

Spec == Init /\ [][Next]_vars

--------------------------------------------------------------------------------
(***************************************************************************)
(* Properties.                                                             *)
(***************************************************************************)

\* Both pointers stay on the ring, and whatever is read or written through
\* them, by a copy or by a device, lies inside the allocated block.
TypeOK ==
  /\ qsize \in Nat /\ shadow \in Nat /\ (qsize = 0 <=> shadow = 0)
  /\ qbuf \in [0 .. AllStorage - 1 -> Byte]
  /\ head \in 0 .. qsize /\ tail \in 0 .. qsize
  /\ peakuse \in Nat /\ cureles \in Int
  /\ reading = Idle
     \/ /\ reading.at \in 0 .. qsize /\ reading.len \in 0 .. shadow
        /\ reading.data \in Seq(Byte) /\ Len(reading.data) <= reading.len
        /\ reading.at + reading.len <= AllStorage
        /\ reading.stored \in BOOLEAN

\* The count the debug build keeps call by call agrees with the one the two
\* pointers give: a full ring never looks empty, nor an empty one full.  This
\* is StockEles()'s assertion, made in every call that reads the stock.
CurElesExact == cureles = StockEles

\* While a device fills the tail, no call of the consumer moves the tail: what
\* ShadowRetrieveEnd then takes in is what the device stored (the note in
\* Clear(), "Tail ptr may be in a pending USB read").
DeviceTargetStable == reading # Idle => reading.at = tail

OverwritesHead == \E n \in Counts : \E d \in Strings(n) : OverwriteHead(n, d)

\* PeakUsage() never falls behind a growing stock, however it grows, but for
\* OverwriteHead() with more than the stock.
PeakFollowsGrowth ==
  [][StockEles' > StockEles => peakuse' >= StockEles' \/ OverwritesHead]_vars

\* What a client sees is a bounded queue of bytes: in order, nothing lost or
\* made up, every Put() all or nothing, overwrites dropping the oldest only.
Queue == INSTANCE ByteQueue WITH cap <- qsize, q <- Fetch(head, StockEles)

ImplementsByteQueue == Queue!Spec
================================================================================
