-------------------------- MODULE ScalableArrayProofs --------------------------
(***************************************************************************)
(* The elements of TScalableArray are the objects it has constructed, what *)
(* a deletion leaves is the room its trait asks for, no assertion fails,   *)
(* and the client sees a sequence: the proofs of AliveExact,               *)
(* SpareAfterShrink, NoFault and ImplementsGrowingArray, for every trait,  *)
(* every sequence of elements and every choice of the calls at which       *)
(* memory is short.  Each call amounts to one that adds elements (Adds) or *)
(* to one that takes some away (Takes), and is one step of GrowingArray;   *)
(* DeleteMatch() is an induction over its rounds.                          *)
(***************************************************************************)
EXTENDS ScalableArray, FiniteSetTheorems, WellFoundedInduction, TLAPS

\* Induction over the numbers, said of a set, so that it has no operator for a
\* parameter.  It rests on what the library says of the strict subsets of a finite
\* set: they get no smaller for ever.
LEMMA Induction ==
  ASSUME NEW S, 0 \in S, \A n \in Nat : n \in S => n + 1 \in S
  PROVE  Nat \subseteq S
  <1> DEFINE T == {1 .. n : n \in Nat \ S}
             R == StrictSubsetOrdering(Nat)
  <1> SUFFICES ASSUME ~(Nat \subseteq S) PROVE FALSE
    OBVIOUS
  <1>0. T # {}
    OBVIOUS
  <1>1. T \subseteq FiniteSubsetsOf(Nat)
    <2>1. \A n \in Nat : 1 .. n \in FiniteSubsetsOf(Nat)
      BY FS_Interval DEF FiniteSubsetsOf
    <2>2. QED
      BY <2>1
  <1>2. PICK x \in T : \A y \in T : ~(<<y, x>> \in R)
    <2> HIDE DEF T, R
    <2>1. QED
      BY <1>0, <1>1, FS_StrictSubsetOrderingWellFounded, WFMin DEF R
  <1>3. PICK m \in Nat \ S : x = 1 .. m
    OBVIOUS
  <1>4. m - 1 \in Nat \ S /\ m \in 1 .. m /\ m \notin 1 .. (m - 1)
    BY <1>3
  <1>5. <<1 .. (m - 1), x>> \in R
    BY <1>3, <1>4 DEF StrictSubsetOrdering
  <1>6. QED
    BY <1>2, <1>4, <1>5

\* Rounding up to a whole number of steps reaches n, and no further step.
LEMMA Rounding ==
  ASSUME NEW n \in Nat, NEW x \in Nat \ {0}
  PROVE  /\ OCC_DIVIDE(n, x) \in Nat
         /\ OCC_DIVIDE(n, x) * x \in Nat
         /\ n <= OCC_DIVIDE(n, x) * x
         /\ OCC_DIVIDE(n, x) * x < n + x
BY DEF OCC_DIVIDE

LEMMA RoundingMonotonic ==
  ASSUME NEW m \in Nat, NEW n \in Nat, m <= n, NEW x \in Nat \ {0}
  PROVE  OCC_DIVIDE(m, x) <= OCC_DIVIDE(n, x)
BY DEF OCC_DIVIDE

LEMMA RoundedBelow ==
  ASSUME NEW k \in Nat, NEW n \in Nat, NEW x \in Nat \ {0}, k < OCC_DIVIDE(n, x)
  PROVE  k * x < n
<1>1. OCC_DIVIDE(n, x) \in Nat /\ OCC_DIVIDE(n, x) * x < n + x
      BY Rounding
<1> DEFINE o == OCC_DIVIDE(n, x)
<1> HIDE DEF o
<1>2. k + 1 <= o /\ o \in Nat /\ o * x < n + x
      BY <1>1 DEF o
<1>3. (k + 1) * x <= o * x
      BY <1>2
<1>4. (k + 1) * x = k * x + x /\ k * x \in Nat /\ o * x \in Nat
      BY <1>2
<1> QED BY <1>2, <1>3, <1>4

LEMMA MultiplesDivide ==
  ASSUME NEW k \in Int, NEW x \in Nat \ {0}
  PROVE  (k * x) % x = 0
<1> DEFINE q == (k * x) \div x
           r == (k * x) % x
<1>1. q \in Int /\ r \in 0 .. x - 1 /\ k * x = x * q + r
      OBVIOUS
<1> HIDE DEF q, r
<1>2. r = x * (k - q)
      BY <1>1
<1>3. CASE k - q >= 1
      BY <1>1, <1>2, <1>3
<1>4. CASE k - q <= -1
      BY <1>1, <1>2, <1>4
<1>5. CASE k - q = 0
      BY <1>1, <1>2, <1>5
<1> QED BY <1>1, <1>3, <1>4, <1>5 DEF r

\* A storage of whole DecSizes is one of whole IncSizes too.
LEMMA MultipleOfMultiple ==
  ASSUME NEW k \in Nat, NEW y \in Nat, NEW x \in Nat \ {0}, y % x = 0
  PROVE  (k * y) % x = 0
<1> DEFINE q == y \div x
<1>1. q \in Nat /\ y = x * q
      OBVIOUS
<1> HIDE DEF q
<1>2. k * y = (k * q) * x
      BY <1>1
<1> QED BY <1>1, <1>2, MultiplesDivide

--------------------------------------------------------------------------------
\* What a cell of the block can hold.
Cell == Value \cup {Default, Zero}

\* The assertions that can fail.
Faults == {"assert", "no copy"}

Arrays == [cells : Seq(Cell), storage : Nat, eles : Nat, alive : Nat, faults : SUBSET Faults]

\* The elements lie in the storage, and the storage in the block.
Sound(a) == a \in Arrays /\ a.eles <= a.storage /\ a.storage <= Len(a.cells)

\* Nothing has failed yet, and nothing will for the storage that there is.
Whole(a) == a.faults = {} /\ a.storage % trait.inc = 0

\* The storage is whole increments, or as much as the trait allows.
Fits(a) == a.storage % trait.inc = 0 \/ a.storage = trait.max

\* A trait that the array can have: every size but the spare is positive.
TraitTyped ==
  trait \in [max : Nat \ {0}, inc : Nat \ {0}, dec : Nat \ {0}, thres : Nat]

LEMMA TraitParts ==
  ASSUME TraitTyped
  PROVE  /\ trait.max \in Nat \ {0} /\ trait.inc \in Nat \ {0}
         /\ trait.dec \in Nat \ {0} /\ trait.thres \in Nat
BY DEF TraitTyped

LEMMA ArrayParts ==
  ASSUME NEW a, Sound(a)
  PROVE  /\ a.cells \in Seq(Cell) /\ a.storage \in Nat /\ a.eles \in Nat /\ a.alive \in Nat
         /\ a.faults \in SUBSET Faults /\ Len(a.cells) \in Nat
         /\ a.eles <= a.storage /\ a.storage <= Len(a.cells)
BY DEF Sound, Arrays

\* A block that has been given back.
LEMMA NoCells == <<>> \in Seq(Cell) /\ Len(<<>>) = 0 /\ SubSeq(<<>>, 1, 0) = <<>>
OBVIOUS

\* A sequence written cell by cell.
LEMMA Written ==
  ASSUME NEW n \in Nat, NEW F, F = [i \in 1..n |-> F[i]], \A i \in 1..n : F[i] \in Cell
  PROVE  F \in Seq(Cell) /\ Len(F) = n
<1>1. F \in [1..n -> Cell]
      OBVIOUS
<1> QED BY <1>1

\* New storage holds as many elements as were asked for.
LEMMA StorageEnough ==
  ASSUME TraitTyped, NEW n \in Nat, n <= trait.max
  PROVE  StorageFor(n) \in Nat /\ n <= StorageFor(n)
<1>1. UP_ROUND(n, trait.inc) \in Nat /\ n <= UP_ROUND(n, trait.inc)
      BY Rounding, TraitParts DEF UP_ROUND
<1> QED BY <1>1, TraitParts DEF StorageFor, LowerOf

\* New storage is a multiple of IncSize, unless it is the maximum.
LEMMA StorageMultiple ==
  ASSUME TraitTyped, NEW n \in Nat
  PROVE  StorageFor(n) % trait.inc = 0 \/ StorageFor(n) = trait.max
<1>1. UP_ROUND(n, trait.inc) % trait.inc = 0
  <2>1. trait.inc \in Nat \ {0} /\ OCC_DIVIDE(n, trait.inc) \in Int
        BY Rounding, TraitParts
  <2>2. (OCC_DIVIDE(n, trait.inc) * trait.inc) % trait.inc = 0
        BY <2>1, MultiplesDivide
  <2> QED BY <2>2 DEF UP_ROUND
<1>2. StorageFor(n) \in {UP_ROUND(n, trait.inc), trait.max}
      BY DEF StorageFor, LowerOf
<1> QED BY <1>1, <1>2

\* What ExtendEles() is to leave: nothing is lost, and there is room for n.
Extended(a, n, ctor, code, b) ==
  /\ Sound(b) /\ code \in {"ok", "full", "no memory"}
  /\ a.storage <= b.storage
  /\ code = "ok" => n <= b.eles
  /\ (code = "ok" /\ a.eles < n) => b.eles = n
  /\ (code # "ok" \/ n <= a.eles) => b.eles = a.eles
  /\ ctor => b.alive = a.alive + (b.eles - a.eles)
  /\ ~ctor => b.alive = a.alive
  /\ (Whole(a) /\ trait.max % trait.inc = 0) => Whole(b)
  /\ Fits(a) => Fits(b)

LEMMA GrownType ==
  ASSUME NEW a, Sound(a), NEW n \in Nat
  PROVE  Grown(a, n) \in Seq(Cell) /\ Len(Grown(a, n)) = n
<1>1. Grown(a, n) = [i \in 1..n |-> Grown(a, n)[i]]
      BY DEF Grown
<1>2. ASSUME NEW i \in 1..n PROVE Grown(a, n)[i] \in Cell
  <2>1. CASE i <= a.storage
    <3>1. i \in 1..Len(a.cells) /\ a.cells[i] \in Cell
          BY ArrayParts, <2>1
    <3> QED BY <2>1, <3>1 DEF Grown
  <2>2. CASE ~(i <= a.storage)
        BY <2>2 DEF Grown, Cell
  <2> QED BY <2>1, <2>2
<1> QED BY <1>1, <1>2, Written

\* ExtendEles(), whether or not Realloc() gives the memory.
LEMMA ExtendSound ==
  ASSUME TraitTyped, NEW a, Sound(a), NEW n \in Nat, NEW ctor \in BOOLEAN,
         NEW o \in ExtendEles(a, n, ctor)
  PROVE  Extended(a, n, ctor, o.code, o.a) /\ o = Out(o.code, o.a)
<1>0. /\ a.cells \in Seq(Cell) /\ a.storage \in Nat /\ a.eles \in Nat /\ a.alive \in Nat
      /\ a.faults \in SUBSET Faults /\ Len(a.cells) \in Nat
      /\ a.eles <= a.storage /\ a.storage <= Len(a.cells)
      BY ArrayParts
<1> DEFINE new    == HigherOf(a.storage, StorageFor(n))
           grows  == StorageFor(n) > a.storage
           block  == IF grows THEN Grown(a, StorageFor(n)) ELSE a.cells
           filled == [i \in DOMAIN block |->
                        IF a.eles < i /\ i <= n THEN Blank(block[i], ctor) ELSE block[i]]
           made   == IF ctor THEN n - a.eles ELSE 0
           flt    == a.faults \cup FaultIf(a.storage % trait.inc # 0)
           bigger == [cells |-> filled, storage |-> new, eles |-> n,
                      alive |-> a.alive + made, faults |-> flt]
           failed == [a EXCEPT !.faults = flt]
<1>1. flt \in SUBSET Faults /\ (a.storage % trait.inc = 0 => flt = a.faults)
      BY <1>0 DEF FaultIf, Faults
<1>2. \/ o = Out("ok", a) /\ n <= a.eles
      \/ o = Out("full", a)
      \/ n > a.eles /\ n <= trait.max /\ o = Out("ok", bigger)
      \/ o = Out("no memory", failed)
  <2>1. CASE n <= a.eles
        BY <2>1 DEF ExtendEles
  <2>2. CASE ~(n <= a.eles) /\ n > trait.max
        BY <2>2 DEF ExtendEles
  <2>3. CASE ~(n <= a.eles) /\ ~(n > trait.max)
    <3>1. o = Out("ok", bigger) \/ o = Out("no memory", failed)
          BY <2>3, Zenon DEF ExtendEles
    <3>2. n > a.eles /\ n <= trait.max
          BY <1>0, <2>3, TraitParts
    <3> QED BY <3>1, <3>2
  <2> QED BY <2>1, <2>2, <2>3
<1> HIDE DEF flt
<1>3. CASE o = Out("ok", a) /\ n <= a.eles
  <2>1. Extended(a, n, ctor, "ok", a)
        BY <1>0, <1>3 DEF Extended
  <2> QED BY <1>3, <2>1 DEF Out
<1>4. CASE o = Out("full", a)
  <2>1. Extended(a, n, ctor, "full", a)
        BY <1>0 DEF Extended
  <2> QED BY <1>4, <2>1 DEF Out
<1>5. CASE n > a.eles /\ n <= trait.max /\ o = Out("ok", bigger)
  <2>1. StorageFor(n) \in Nat /\ n <= StorageFor(n)
        BY <1>5, StorageEnough
  <2>2. new \in Nat /\ n <= new /\ a.storage <= new /\ new \in {a.storage, StorageFor(n)}
        BY <1>0, <2>1 DEF HigherOf
  <2>3. block \in Seq(Cell) /\ new <= Len(block)
    <3>1. CASE grows
          BY <1>0, <2>1, <3>1, GrownType DEF HigherOf
    <3>2. CASE ~grows
          BY <1>0, <2>1, <3>2 DEF HigherOf
    <3> QED BY <3>1, <3>2
  <2> HIDE DEF block
  <2>4. filled \in Seq(Cell) /\ Len(filled) = Len(block)
    <3>1. DOMAIN block = 1..Len(block) /\ Len(block) \in Nat
          BY <2>3
    <3>2. ASSUME NEW i \in 1..Len(block) PROVE filled[i] \in Cell
          BY <2>3, <3>1 DEF Blank, Cell
    <3>3. filled = [i \in 1..Len(block) |-> filled[i]]
          BY <3>1
    <3> HIDE DEF filled
    <3> QED BY <3>1, <3>2, <3>3, Written
  <2>5. made \in Nat /\ (ctor => made = n - a.eles) /\ (~ctor => made = 0)
        BY <1>0, <1>5
  <2> HIDE DEF filled, made, new
  <2>6. /\ bigger \in Arrays /\ bigger.cells = filled /\ bigger.storage = new /\ bigger.eles = n
        /\ bigger.alive = a.alive + made /\ bigger.faults = flt
        BY <1>0, <1>1, <2>2, <2>4, <2>5 DEF Arrays
  <2> HIDE DEF bigger
  <2>7. Sound(bigger)
        BY <2>2, <2>3, <2>4, <2>6 DEF Sound
  <2>8. (Whole(a) /\ trait.max % trait.inc = 0) => Whole(bigger)
        BY <1>1, <2>2, <2>6, StorageMultiple DEF Whole
  <2>fits. Fits(a) => Fits(bigger)
        BY <2>2, <2>6, StorageMultiple DEF Fits
  <2>9. Extended(a, n, ctor, "ok", bigger)
        BY <1>0, <1>5, <2>2, <2>5, <2>6, <2>7, <2>8, <2>fits DEF Extended
  <2> QED BY <1>5, <2>9 DEF Out
<1>6. CASE o = Out("no memory", failed)
  <2>1. /\ failed \in Arrays /\ failed.cells = a.cells /\ failed.storage = a.storage
        /\ failed.eles = a.eles /\ failed.alive = a.alive /\ failed.faults = flt
        BY <1>1 DEF Sound, Arrays
  <2> HIDE DEF failed
  <2>2. Sound(failed) /\ (Whole(a) => Whole(failed)) /\ (Fits(a) => Fits(failed))
        BY <1>0, <1>1, <2>1 DEF Sound, Whole, Fits
  <2>3. Extended(a, n, ctor, "no memory", failed)
        BY <1>0, <2>1, <2>2 DEF Extended
  <2> QED BY <1>6, <2>3 DEF Out
<1> QED BY <1>2, <1>3, <1>4, <1>5, <1>6

--------------------------------------------------------------------------------
\* What the calls return.
Codes == {"ok", "invalid", "full", "no memory", "bad trait"}

\* Every element is an object that lives.
Lively(a) == a.alive = a.eles

\* What the calls that add elements do to an array.
Fuller(a, b) ==
  /\ Sound(b) /\ a.storage <= b.storage /\ a.eles <= b.eles
  /\ Lively(a) => Lively(b)
  /\ (Whole(a) /\ trait.max % trait.inc = 0) => Whole(b)
  /\ Fits(a) => Fits(b)

LEMMA SameIsFuller ==
  ASSUME NEW a, Sound(a)
  PROVE  Fuller(a, a)
BY ArrayParts DEF Fuller

\* ShiftDownEles() and CopyInEles() into room that ExtendEles() has made.
LEMMA InsertedSound ==
  ASSUME NEW a, Sound(a), NEW pos \in Nat, NEW d \in Seq(Cell), pos + Len(d) <= a.eles
  PROVE  LET b == Inserted(a, pos, d)
         IN  /\ Sound(b) /\ b.storage = a.storage /\ b.eles = a.eles /\ b.faults = a.faults
             /\ b.alive = a.alive + Len(d)
<1> DEFINE c == [i \in DOMAIN a.cells |->
                   IF pos < i /\ i <= pos + Len(d) THEN d[i - pos]
                   ELSE IF pos + Len(d) < i /\ i <= a.eles THEN a.cells[i - Len(d)]
                   ELSE a.cells[i]]
           l == a.alive + Len(d)
           b == [a EXCEPT !.cells = c, !.alive = l]
<1>0. /\ a.cells \in Seq(Cell) /\ a.storage \in Nat /\ a.eles \in Nat /\ a.alive \in Nat
      /\ Len(a.cells) \in Nat /\ Len(d) \in Nat
      /\ a.eles <= a.storage /\ a.storage <= Len(a.cells)
      BY ArrayParts
<1>1. c \in Seq(Cell) /\ Len(c) = Len(a.cells)
  <2>1. DOMAIN a.cells = 1..Len(a.cells)
        BY <1>0
  <2>2. ASSUME NEW i \in 1..Len(a.cells) PROVE c[i] \in Cell
    <3>1. CASE pos < i /\ i <= pos + Len(d)
      <4>1. i - pos \in 1..Len(d) /\ d[i - pos] \in Cell
            BY <1>0, <3>1
      <4> QED BY <2>1, <3>1, <4>1
    <3>2. CASE pos + Len(d) < i /\ i <= a.eles
      <4>1. i - Len(d) \in 1..Len(a.cells) /\ a.cells[i - Len(d)] \in Cell
            BY <1>0, <3>2
      <4> QED BY <1>0, <2>1, <3>2, <4>1
    <3>3. CASE ~(pos < i /\ i <= pos + Len(d)) /\ ~(pos + Len(d) < i /\ i <= a.eles)
          BY <1>0, <2>1, <3>3
    <3> QED BY <3>1, <3>2, <3>3
  <2>3. c = [i \in 1..Len(a.cells) |-> c[i]]
        BY <2>1
  <2> HIDE DEF c
  <2> QED BY <1>0, <2>2, <2>3, Written
<1>2. l \in Nat
      BY <1>0
<1>3. Inserted(a, pos, d) = b
      BY Zenon DEF Inserted
<1> HIDE DEF c, l
<1>4. /\ b \in Arrays /\ b.cells = c /\ b.storage = a.storage /\ b.eles = a.eles
      /\ b.alive = l /\ b.faults = a.faults
      BY <1>1, <1>2 DEF Sound, Arrays
<1> HIDE DEF b
<1>5. Sound(b)
      BY <1>0, <1>1, <1>4 DEF Sound
<1> QED BY <1>3, <1>4, <1>5 DEF l

LEMMA CopiedInSound ==
  ASSUME NEW a, Sound(a), NEW pos \in Nat, NEW d \in Seq(Cell), pos + Len(d) <= a.eles
  PROVE  LET b == CopiedIn(a, pos, d)
         IN  /\ Sound(b) /\ b.storage = a.storage /\ b.eles = a.eles /\ b.faults = a.faults
             /\ b.alive = a.alive
<1> DEFINE c == [i \in DOMAIN a.cells |->
                   IF pos < i /\ i <= pos + Len(d) THEN d[i - pos] ELSE a.cells[i]]
           b == [a EXCEPT !.cells = c]
<1>0. /\ a.cells \in Seq(Cell) /\ a.storage \in Nat /\ a.eles \in Nat /\ a.alive \in Nat
      /\ Len(a.cells) \in Nat /\ Len(d) \in Nat
      /\ a.eles <= a.storage /\ a.storage <= Len(a.cells)
      BY ArrayParts
<1>1. c \in Seq(Cell) /\ Len(c) = Len(a.cells)
  <2>1. DOMAIN a.cells = 1..Len(a.cells)
        BY <1>0
  <2>2. ASSUME NEW i \in 1..Len(a.cells) PROVE c[i] \in Cell
    <3>1. CASE pos < i /\ i <= pos + Len(d)
      <4>1. i - pos \in 1..Len(d) /\ d[i - pos] \in Cell
            BY <1>0, <3>1
      <4> QED BY <2>1, <3>1, <4>1
    <3>2. CASE ~(pos < i /\ i <= pos + Len(d))
          BY <1>0, <2>1, <3>2
    <3> QED BY <3>1, <3>2
  <2>3. c = [i \in 1..Len(a.cells) |-> c[i]]
        BY <2>1
  <2> HIDE DEF c
  <2> QED BY <1>0, <2>2, <2>3, Written
<1>2. CopiedIn(a, pos, d) = b
      BY Zenon DEF CopiedIn
<1> HIDE DEF c
<1>3. /\ b \in Arrays /\ b.cells = c /\ b.storage = a.storage /\ b.eles = a.eles
      /\ b.alive = a.alive /\ b.faults = a.faults
      BY <1>1 DEF Sound, Arrays
<1> HIDE DEF b
<1>4. Sound(b)
      BY <1>0, <1>1, <1>3 DEF Sound
<1> QED BY <1>2, <1>3, <1>4

LEMMA CopiedInFuller ==
  ASSUME NEW a, Sound(a), NEW pos \in Nat, NEW d \in Seq(Cell), pos + Len(d) <= a.eles
  PROVE  Fuller(a, CopiedIn(a, pos, d))
<1> DEFINE b == CopiedIn(a, pos, d)
<1>1. /\ Sound(b) /\ b.storage = a.storage /\ b.eles = a.eles /\ b.faults = a.faults
      /\ b.alive = a.alive
      BY CopiedInSound
<1>2. a.storage \in Nat /\ a.eles \in Nat
      BY ArrayParts
<1> HIDE DEF b
<1>3. Fuller(a, b)
      BY <1>1, <1>2 DEF Fuller, Lively, Whole, Fits
<1> QED BY <1>3 DEF b

\* InsertBefore(), wherever the client wants the elements.
LEMMA InsertBeforeSound ==
  ASSUME TraitTyped, NEW a, Sound(a), NEW pos \in Int, NEW d \in Seq(Cell),
         NEW o \in InsertBefore(a, pos, d)
  PROVE  Fuller(a, o.a) /\ o.code \in Codes
<1>1. CASE d = <<>>
  <2>1. o = Out("ok", a)
        BY <1>1 DEF InsertBefore
  <2> QED BY <2>1, SameIsFuller DEF Out, Codes
<1>2. CASE d # <<>> /\ (pos < 0 \/ pos > a.eles)
  <2>1. o = Out("invalid", a)
        BY <1>2 DEF InsertBefore
  <2> QED BY <2>1, SameIsFuller DEF Out, Codes
<1>3. CASE d # <<>> /\ ~(pos < 0 \/ pos > a.eles)
  <2>0. /\ a.eles \in Nat /\ a.storage \in Nat /\ a.alive \in Nat /\ Len(d) \in Nat /\ Len(d) > 0
        /\ a.eles + Len(d) \in Nat /\ pos \in Nat /\ pos <= a.eles
        BY <1>3, ArrayParts
  <2>1. PICK e \in ExtendEles(a, a.eles + Len(d), FALSE) :
               o = IF e.code = "ok" THEN Out("ok", Inserted(e.a, pos, d)) ELSE e
        BY <1>3, Zenon DEF InsertBefore
  <2>2. Extended(a, a.eles + Len(d), FALSE, e.code, e.a)
        BY <2>0, ExtendSound
  <2>3. CASE e.code = "ok"
    <3> DEFINE b == Inserted(e.a, pos, d)
    <3>1. Sound(e.a) /\ e.a.eles = a.eles + Len(d) /\ e.a.alive = a.alive /\ a.storage <= e.a.storage
          BY <2>0, <2>2, <2>3 DEF Extended
    <3>2. /\ Sound(b) /\ b.storage = e.a.storage /\ b.eles = e.a.eles /\ b.faults = e.a.faults
          /\ b.alive = e.a.alive + Len(d)
          BY <2>0, <3>1, InsertedSound
    <3>3. /\ (Whole(a) /\ trait.max % trait.inc = 0) => Whole(b)
          /\ Fits(a) => Fits(b)
          BY <2>2, <3>2 DEF Whole, Fits, Extended
    <3> HIDE DEF b
    <3>4. Fuller(a, b)
          BY <2>0, <3>1, <3>2, <3>3 DEF Fuller, Lively
    <3>5. o.a = b /\ o.code = "ok"
          BY <2>1, <2>3 DEF Out, b
    <3> QED BY <3>4, <3>5 DEF Codes
  <2>4. CASE e.code # "ok"
    <3>1. o = e
          BY <2>1, <2>4
    <3>2. /\ Sound(e.a) /\ e.a.eles = a.eles /\ e.a.alive = a.alive /\ a.storage <= e.a.storage
          /\ (Whole(a) /\ trait.max % trait.inc = 0) => Whole(e.a)
          /\ Fits(a) => Fits(e.a)
          /\ e.code \in Codes
          BY <2>2, <2>4 DEF Extended, Codes
    <3>3. Fuller(a, e.a)
          BY <2>0, <3>2 DEF Fuller, Lively
    <3> QED BY <3>1, <3>2, <3>3
  <2> QED BY <2>3, <2>4
<1> QED BY <1>1, <1>2, <1>3

--------------------------------------------------------------------------------
\* Storage that was given back left what SpareAfterShrink asks for.
Spares(a, b) ==
  b.storage < a.storage /\ b.storage # 0 =>
    /\ b.storage >= b.eles + trait.thres
    /\ b.storage < b.eles + trait.thres + trait.dec

\* A deletion does not leave storage to spare either.
Snug(a, b) ==
  a.eles + trait.thres <= a.storage /\ b.eles < a.eles =>
    b.storage < b.eles + trait.thres + trait.dec

\* What the calls that take elements away do to an array.
Thinner(a, b) ==
  /\ Sound(b) /\ b.storage <= a.storage /\ b.eles <= a.eles
  /\ Lively(b)
  /\ Spares(a, b) /\ Snug(a, b)
  /\ (Whole(a) /\ trait.thres <= 1 /\ trait.dec % trait.inc = 0) => Whole(b)
  /\ (Fits(a) /\ trait.dec % trait.inc = 0) => Fits(b)

LEMMA SameIsThinner ==
  ASSUME NEW a, Sound(a), Lively(a)
  PROVE  Thinner(a, a)
BY ArrayParts DEF Thinner, Spares, Snug

\* ShiftUpEles() destructs as many elements as it takes out.
LEMMA RemovedSound ==
  ASSUME NEW a, Sound(a), Lively(a), NEW pos \in Nat, NEW n \in Nat, pos + n <= a.eles
  PROVE  LET b == Removed(a, pos, n)
         IN  /\ Sound(b) /\ Lively(b) /\ b.storage = a.storage /\ b.eles = a.eles - n
             /\ b.faults = a.faults
<1> DEFINE c == [i \in DOMAIN a.cells |->
                   IF pos < i /\ i <= a.eles - n THEN a.cells[i + n] ELSE a.cells[i]]
           m == a.eles - n
           l == a.alive - Dropped(n)
           b == [a EXCEPT !.cells = c, !.eles = m, !.alive = l]
<1>0. /\ a.cells \in Seq(Cell) /\ a.storage \in Nat /\ a.eles \in Nat /\ a.alive = a.eles
      /\ Len(a.cells) \in Nat
      /\ a.eles <= a.storage /\ a.storage <= Len(a.cells)
      BY ArrayParts DEF Lively
<1>1. c \in Seq(Cell) /\ Len(c) = Len(a.cells)
  <2>1. DOMAIN a.cells = 1..Len(a.cells)
        BY <1>0
  <2>2. ASSUME NEW i \in 1..Len(a.cells) PROVE c[i] \in Cell
    <3>1. CASE pos < i /\ i <= a.eles - n
      <4>1. i + n \in 1..Len(a.cells) /\ a.cells[i + n] \in Cell
            BY <1>0, <3>1
      <4> QED BY <2>1, <3>1, <4>1
    <3>2. CASE ~(pos < i /\ i <= a.eles - n)
          BY <1>0, <2>1, <3>2
    <3> QED BY <3>1, <3>2
  <2>3. c = [i \in 1..Len(a.cells) |-> c[i]]
        BY <2>1
  <2> HIDE DEF c
  <2> QED BY <1>0, <2>2, <2>3, Written
<1>2. m \in Nat /\ l \in Nat /\ l = m
      BY <1>0 DEF Dropped
<1>3. Removed(a, pos, n) = b
      BY Zenon DEF Removed
<1> HIDE DEF c, m, l
<1>4. /\ b \in Arrays /\ b.cells = c /\ b.storage = a.storage /\ b.eles = m
      /\ b.alive = l /\ b.faults = a.faults
      BY <1>1, <1>2 DEF Sound, Arrays
<1> HIDE DEF b
<1>5. m <= a.eles
      BY <1>0 DEF m
<1>6. Sound(b)
      BY <1>0, <1>1, <1>2, <1>4, <1>5 DEF Sound
<1> QED BY <1>2, <1>3, <1>4, <1>6 DEF m, Lively

LEMMA EmptySound ==
  ASSUME NEW a, Sound(a), Lively(a)
  PROVE  /\ Sound(Empty(a)) /\ Lively(Empty(a))
         /\ Empty(a).storage = 0 /\ Empty(a).eles = 0 /\ Empty(a).faults = a.faults
<1> DEFINE c == <<>>
           l == a.alive - a.eles
           f == a.faults \cup FaultIf(a.cells = <<>> /\ a.storage # 0)
           b == [a EXCEPT !.cells = c, !.storage = 0, !.eles = 0, !.alive = l, !.faults = f]
<1>0. /\ a.cells \in Seq(Cell) /\ a.storage \in Nat /\ a.eles \in Nat /\ a.alive = a.eles
      /\ a.faults \in SUBSET Faults /\ a.storage <= Len(a.cells)
      BY ArrayParts DEF Lively
<1>1. ~(a.cells = <<>> /\ a.storage # 0)
      BY <1>0
<1>2. f = a.faults
      BY <1>1 DEF FaultIf
<1>3. l = 0 /\ c \in Seq(Cell) /\ Len(c) = 0
      BY <1>0
<1>4. Empty(a) = b
      BY Zenon DEF Empty
<1> HIDE DEF c, l, f
<1>5. /\ b \in Arrays /\ b.cells = c /\ b.storage = 0 /\ b.eles = 0
      /\ b.alive = l /\ b.faults = f
      BY <1>0, <1>2, <1>3 DEF Sound, Arrays
<1> HIDE DEF b
<1>6. Sound(b) /\ Lively(b)
      BY <1>3, <1>5 DEF Sound, Lively
<1> QED BY <1>2, <1>4, <1>5, <1>6

\* The end of DeleteEles(), after a deletion that left no more than an element
\* of the spare beyond the storage.
LEMMA ShrunkSound ==
  ASSUME TraitTyped, NEW a, Sound(a), Lively(a), NEW b \in Shrunk(a)
  PROVE  /\ Sound(b) /\ Lively(b) /\ b.eles = a.eles /\ b.storage <= a.storage
         /\ Spares(a, b)
         /\ a.eles + trait.thres <= a.storage => b.storage < b.eles + trait.thres + trait.dec
         /\ (/\ Whole(a) /\ a.eles + trait.thres <= a.storage
             /\ trait.dec % trait.inc = 0) => Whole(b)
         /\ (Fits(a) /\ trait.dec % trait.inc = 0) => Fits(b)
<1> DEFINE occn == OCC_DIVIDE(a.storage, trait.dec)
           new  == Occupied(a.eles)
           size == new * trait.dec
           keep == [a EXCEPT !.storage = size]
           part == SubSeq(a.cells, 1, size)
<1>0. /\ a.cells \in Seq(Cell) /\ a.storage \in Nat /\ a.eles \in Nat /\ a.alive = a.eles
      /\ a.faults \in SUBSET Faults /\ Len(a.cells) \in Nat
      /\ a.eles <= a.storage /\ a.storage <= Len(a.cells)
      /\ trait.dec \in Nat \ {0} /\ trait.inc \in Nat \ {0} /\ trait.thres \in Nat
      BY ArrayParts, TraitParts DEF Lively
<1>1. occn \in Nat /\ a.storage <= occn * trait.dec
      BY <1>0, Rounding
<1>2. /\ new \in Nat /\ size \in Nat
      /\ a.eles + trait.thres <= size /\ size < a.eles + trait.thres + trait.dec
  <2> DEFINE need == a.eles + trait.thres
  <2>1. need \in Nat
        BY <1>0
  <2> HIDE DEF need
  <2>2. /\ OCC_DIVIDE(need, trait.dec) \in Nat
        /\ OCC_DIVIDE(need, trait.dec) * trait.dec \in Nat
        /\ need <= OCC_DIVIDE(need, trait.dec) * trait.dec
        /\ OCC_DIVIDE(need, trait.dec) * trait.dec < need + trait.dec
        BY <1>0, <2>1, Rounding
  <2> QED BY <2>2 DEF Occupied, need
<1>3. a.eles + trait.thres <= a.storage => new <= occn
      BY <1>0, RoundingMonotonic DEF Occupied
<1>4. new < occn => size < a.storage
      BY <1>0, <1>2, RoundedBelow
<1>5. trait.dec % trait.inc = 0 => size % trait.inc = 0
      BY <1>0, <1>2, MultipleOfMultiple
<1>6. new = 0 => size = 0
      BY <1>0
<1>7. \/ new > occn /\ b = [a EXCEPT !.faults = {"assert"}]
      \/ new <= occn /\ new = 0 /\ b = Empty(a)
      \/ new = occn /\ b = a
      \/ new < occn /\ b = [keep EXCEPT !.cells = SubSeq(keep.cells, 1, size)]
      \/ new < occn /\ b = keep
  <2>1. CASE new > occn
        BY <2>1 DEF Shrunk
  <2>2. CASE ~(new > occn) /\ new = 0
    <3>1. b = Empty(a)
          BY <2>2 DEF Shrunk
    <3>2. new <= occn
          BY <1>1, <1>2, <2>2
    <3> QED BY <2>2, <3>1, <3>2
  <2>3. CASE ~(new > occn) /\ new # 0 /\ new = occn
        BY <2>3 DEF Shrunk
  <2>4. CASE ~(new > occn) /\ new # 0 /\ new # occn
    <3>1. b = [keep EXCEPT !.cells = SubSeq(keep.cells, 1, size)] \/ b = keep
          BY <2>4, Zenon DEF Shrunk
    <3>2. new < occn
          BY <1>1, <1>2, <2>4
    <3> QED BY <3>1, <3>2
  <2> QED BY <2>1, <2>2, <2>3, <2>4
<1> HIDE DEF occn, new, size
<1>8. CASE new > occn /\ b = [a EXCEPT !.faults = {"assert"}]
  <2>1. /\ b \in Arrays /\ b.cells = a.cells /\ b.storage = a.storage /\ b.eles = a.eles
        /\ b.alive = a.alive
        BY <1>8 DEF Sound, Arrays, Faults
  <2>2. ~(a.eles + trait.thres <= a.storage)
        BY <1>1, <1>2, <1>3, <1>8
  <2> QED BY <1>0, <2>1, <2>2 DEF Sound, Lively, Spares, Fits
<1>9. CASE new <= occn /\ new = 0 /\ b = Empty(a)
  <2>1. a.eles = 0
        BY <1>0, <1>2, <1>6, <1>9
  <2>2. /\ Sound(b) /\ Lively(b) /\ b.storage = 0 /\ b.eles = 0 /\ b.faults = a.faults
        BY <1>9, EmptySound
  <2>3. 0 % trait.inc = 0
        BY <1>0
  <2> QED BY <1>0, <2>1, <2>2, <2>3 DEF Spares, Whole, Fits
<1>10. CASE new = occn /\ b = a
  <2>1. occn * trait.dec = size
        BY <1>10 DEF size
  <2> DEFINE room == a.eles + trait.thres + trait.dec
  <2>2. a.storage <= size
        BY <1>1, <2>1
  <2>3. size < room /\ room \in Nat
        BY <1>0, <1>2
  <2> HIDE DEF room
  <2>4. a.storage < room
        BY <1>0, <1>2, <2>2, <2>3
  <2> QED BY <1>0, <1>10, <2>4 DEF Spares, room
<1>11. /\ keep \in Arrays /\ keep.cells = a.cells /\ keep.storage = size /\ keep.eles = a.eles
       /\ keep.alive = a.alive /\ keep.faults = a.faults
       BY <1>2 DEF Sound, Arrays
<1> HIDE DEF keep
<1>12. ASSUME new < occn, b \in Arrays, b.storage = size, b.eles = a.eles, b.alive = a.alive,
              b.faults = a.faults, size <= Len(b.cells)
       PROVE  /\ Sound(b) /\ Lively(b) /\ b.eles = a.eles /\ b.storage <= a.storage
              /\ Spares(a, b) /\ b.storage < b.eles + trait.thres + trait.dec
              /\ (Whole(a) /\ trait.dec % trait.inc = 0) => Whole(b)
              /\ trait.dec % trait.inc = 0 => Fits(b)
  <2>1. size < a.storage /\ a.eles <= size
        BY <1>0, <1>2, <1>4, <1>12
  <2>2. Sound(b) /\ Lively(b)
        BY <1>0, <1>2, <1>12, <2>1 DEF Sound, Lively
  <2>3. Spares(a, b)
        BY <1>0, <1>2, <1>12 DEF Spares
  <2>4. trait.dec % trait.inc = 0 => (Whole(a) => Whole(b)) /\ Fits(b)
        BY <1>5, <1>12 DEF Whole, Fits
  <2> QED BY <1>0, <1>2, <1>12, <2>1, <2>2, <2>3, <2>4
<1>13. CASE new < occn /\ b = [keep EXCEPT !.cells = SubSeq(keep.cells, 1, size)]
  <2>1. size < a.storage
        BY <1>4, <1>13
  <2>2. part \in Seq(Cell) /\ Len(part) = size
    <3>1. CASE size = 0
          BY <1>0, <3>1
    <3>2. CASE size # 0
          BY <1>0, <1>2, <2>1, <3>2
    <3> QED BY <3>1, <3>2
  <2>3. b = [keep EXCEPT !.cells = part]
        BY <1>11, <1>13
  <2> HIDE DEF part
  <2>4. /\ b \in Arrays /\ b.cells = part /\ b.storage = size /\ b.eles = a.eles
        /\ b.alive = a.alive /\ b.faults = a.faults
        BY <1>11, <2>2, <2>3 DEF Arrays
  <2> QED BY <1>2, <1>12, <1>13, <2>2, <2>4
<1>14. CASE new < occn /\ b = keep
  <2>1. size <= Len(a.cells)
        BY <1>0, <1>2, <1>4, <1>14
  <2> QED BY <1>11, <1>12, <1>14, <2>1
<1> QED BY <1>7, <1>8, <1>9, <1>10, <1>13, <1>14

\* DeleteEles(): what was deleted makes up for the spare, if that is one element.
LEMMA DeleteElesSound ==
  ASSUME TraitTyped, NEW a, Sound(a), Lively(a), NEW pos \in Int, NEW n \in Int,
         NEW o \in DeleteEles(a, pos, n)
  PROVE  Thinner(a, o.a) /\ o.code \in Codes
<1>0. a.eles \in Nat /\ a.storage \in Nat /\ a.eles <= a.storage
      BY ArrayParts
<1>1. CASE n < 0 \/ pos < 0 \/ pos > a.eles
  <2>1. o = Out("invalid", a)
        BY <1>1 DEF DeleteEles
  <2> QED BY <2>1, SameIsThinner DEF Out, Codes
<1>2. CASE ~(n < 0 \/ pos < 0 \/ pos > a.eles) /\ (n = 0 \/ pos = a.eles)
  <2>1. o = Out("ok", a)
        BY <1>2 DEF DeleteEles
  <2> QED BY <2>1, SameIsThinner DEF Out, Codes
<1>3. CASE ~(n < 0 \/ pos < 0 \/ pos > a.eles) /\ ~(n = 0 \/ pos = a.eles)
  <2> DEFINE m == LowerOf(n, a.eles - pos)
             r == Removed(a, pos, m)
  <2>1. PICK b \in Shrunk(r) : o = Out("ok", b)
        BY <1>3, Zenon DEF DeleteEles
  <2>2. m \in Nat /\ m >= 1 /\ pos \in Nat /\ pos + m <= a.eles
        BY <1>0, <1>3 DEF LowerOf
  <2> HIDE DEF m
  <2>3. /\ Sound(r) /\ Lively(r) /\ r.storage = a.storage /\ r.eles = a.eles - m
        /\ r.faults = a.faults
        BY <2>2, RemovedSound
  <2> HIDE DEF r
  <2>4. /\ Sound(b) /\ Lively(b) /\ b.eles = r.eles /\ b.storage <= r.storage
        /\ Spares(r, b)
        /\ r.eles + trait.thres <= r.storage => b.storage < b.eles + trait.thres + trait.dec
        /\ (Whole(r) /\ r.eles + trait.thres <= r.storage
            /\ trait.dec % trait.inc = 0) => Whole(b)
        /\ (Fits(r) /\ trait.dec % trait.inc = 0) => Fits(b)
        BY <2>3, ShrunkSound
  <2>5. trait.thres <= 1 => r.eles + trait.thres <= r.storage
        BY <1>0, <2>2, <2>3, TraitParts
  <2>6. (Whole(a) => Whole(r)) /\ (Fits(a) => Fits(r))
        BY <2>3 DEF Whole, Fits
  <2>7. b.eles <= a.eles
        BY <1>0, <2>2, <2>3, <2>4
  <2>8. Spares(a, b)
        BY <2>3, <2>4 DEF Spares
  <2>9. Snug(a, b)
    <3>1. a.eles + trait.thres <= a.storage => r.eles + trait.thres <= r.storage
          BY <1>0, <2>2, <2>3, TraitParts
    <3> QED BY <2>4, <3>1 DEF Snug
  <2>10. Thinner(a, b)
        BY <2>3, <2>4, <2>5, <2>6, <2>7, <2>8, <2>9 DEF Thinner
  <2> QED BY <2>1, <2>10 DEF Out, Codes
<1> QED BY <1>1, <1>2, <1>3

--------------------------------------------------------------------------------
(***************************************************************************)
(* The elements, which the client sees as a sequence.                      *)
(***************************************************************************)
Seen(a) == SubSeq(a.cells, 1, a.eles)

LEMMA PrefixParts ==
  ASSUME NEW c \in Seq(Cell), NEW n \in Nat, n <= Len(c)
  PROVE  /\ SubSeq(c, 1, n) \in Seq(Cell) /\ Len(SubSeq(c, 1, n)) = n
         /\ \A i \in 1..n : SubSeq(c, 1, n)[i] = c[i]
<1>1. CASE n = 0
      BY <1>1
<1>2. CASE n # 0
      BY <1>2
<1> QED BY <1>1, <1>2

LEMMA SuffixParts ==
  ASSUME NEW c \in Seq(Cell), NEW n \in Nat, n <= Len(c)
  PROVE  /\ SubSeq(c, n + 1, Len(c)) \in Seq(Cell) /\ Len(SubSeq(c, n + 1, Len(c))) = Len(c) - n
         /\ \A i \in 1..Len(c) - n : SubSeq(c, n + 1, Len(c))[i] = c[i + n]
<1>1. CASE n = Len(c)
      BY <1>1
<1>2. CASE n # Len(c)
      BY <1>2
<1> QED BY <1>1, <1>2

LEMMA JoinedParts ==
  ASSUME NEW s \in Seq(Cell), NEW t \in Seq(Cell)
  PROVE  /\ s \o t \in Seq(Cell) /\ Len(s \o t) = Len(s) + Len(t)
         /\ \A i \in 1..Len(s) + Len(t) : (s \o t)[i] = IF i <= Len(s) THEN s[i] ELSE t[i - Len(s)]
OBVIOUS

LEMMA SameCells ==
  ASSUME NEW s \in Seq(Cell), NEW t \in Seq(Cell), Len(s) = Len(t),
         \A i \in 1..Len(s) : s[i] = t[i]
  PROVE  s = t
OBVIOUS

LEMMA SeenParts ==
  ASSUME NEW a, Sound(a)
  PROVE  /\ Seen(a) \in Seq(Cell) /\ Len(Seen(a)) = a.eles
         /\ \A i \in 1..a.eles : Seen(a)[i] = a.cells[i]
<1>1. a.cells \in Seq(Cell) /\ a.eles \in Nat /\ a.eles <= Len(a.cells)
      BY ArrayParts
<1> QED BY <1>1, PrefixParts DEF Seen

LEMMA SeenIs ==
  ASSUME NEW a, Sound(a), NEW s \in Seq(Cell), Len(s) = a.eles,
         \A i \in 1..a.eles : a.cells[i] = s[i]
  PROVE  Seen(a) = s
BY SeenParts, SameCells

\* m elements from pos on make way for d.
Replaced(s, pos, m, d) == SubSeq(s, 1, pos) \o d \o SubSeq(s, pos + m + 1, Len(s))

\* What r holds if it is s with m elements from pos on replaced by d.
IsReplaced(r, s, pos, m, d) ==
  /\ r \in Seq(Cell) /\ Len(r) = (Len(s) - m) + Len(d)
  /\ \A i \in 1..(Len(s) - m) + Len(d) :
       r[i] = IF i <= pos THEN s[i] ELSE IF i <= pos + Len(d) THEN d[i - pos]
              ELSE s[(i - Len(d)) + m]

LEMMA ReplacedParts ==
  ASSUME NEW s \in Seq(Cell), NEW d \in Seq(Cell), NEW pos \in Nat, NEW m \in Nat,
         pos + m <= Len(s)
  PROVE  IsReplaced(Replaced(s, pos, m, d), s, pos, m, d)
<1> DEFINE u == SubSeq(s, 1, pos)
           v == SubSeq(s, pos + m + 1, Len(s))
           n == (Len(s) - m) + Len(d)
<1>1. /\ u \in Seq(Cell) /\ Len(u) = pos
      /\ \A i \in 1..pos : u[i] = s[i]
      BY PrefixParts
<1>2. /\ v \in Seq(Cell) /\ Len(v) = Len(s) - (pos + m)
      /\ \A i \in 1..Len(s) - (pos + m) : v[i] = s[i + (pos + m)]
      BY SuffixParts
<1>3. Replaced(s, pos, m, d) = (u \o d) \o v
      BY DEF Replaced
<1> HIDE DEF u, v
<1>4. /\ u \o d \in Seq(Cell) /\ Len(u \o d) = pos + Len(d)
      /\ \A i \in 1..pos + Len(d) : (u \o d)[i] = IF i <= pos THEN u[i] ELSE d[i - pos]
      BY <1>1, JoinedParts
<1> DEFINE w == u \o d
<1>5. /\ w \in Seq(Cell) /\ Len(w) = pos + Len(d)
      /\ \A i \in 1..pos + Len(d) : w[i] = IF i <= pos THEN u[i] ELSE d[i - pos]
      BY <1>4
<1> HIDE DEF w
<1>6. /\ w \o v \in Seq(Cell) /\ Len(w \o v) = Len(w) + Len(v)
      /\ \A i \in 1..Len(w) + Len(v) : (w \o v)[i] = IF i <= Len(w) THEN w[i] ELSE v[i - Len(w)]
      BY <1>2, <1>5, JoinedParts
<1>7. Len(w) + Len(v) = n /\ n \in Nat /\ Len(d) \in Nat /\ Len(s) \in Nat
      BY <1>2, <1>5
<1>8. ASSUME NEW i \in 1..n
      PROVE  (w \o v)[i] = IF i <= pos THEN s[i]
                           ELSE IF i <= pos + Len(d) THEN d[i - pos]
                           ELSE s[(i - Len(d)) + m]
  <2>1. (w \o v)[i] = IF i <= pos + Len(d) THEN w[i] ELSE v[i - (pos + Len(d))]
        BY <1>5, <1>6, <1>7
  <2>2. CASE i <= pos
    <3>1. i \in 1..pos + Len(d) /\ i \in 1..pos
          BY <1>7, <2>2
    <3> QED BY <1>1, <1>5, <2>1, <2>2, <3>1
  <2>3. CASE ~(i <= pos) /\ i <= pos + Len(d)
    <3>1. i \in 1..pos + Len(d)
          BY <1>7, <2>3
    <3> QED BY <1>5, <2>1, <2>3, <3>1
  <2>4. CASE ~(i <= pos) /\ ~(i <= pos + Len(d))
    <3> DEFINE j == i - (pos + Len(d))
    <3>1. j \in 1..Len(s) - (pos + m) /\ j + (pos + m) = (i - Len(d)) + m
          BY <1>7, <2>4
    <3> HIDE DEF j
    <3>2. v[j] = s[j + (pos + m)]
          BY <1>2, <3>1
    <3> QED BY <2>1, <2>4, <3>1, <3>2 DEF j
  <2> QED BY <2>2, <2>3, <2>4
<1> QED BY <1>3, <1>6, <1>7, <1>8 DEF w, IsReplaced

\* What is to go may end beyond the elements.
LEMMA ReplacedToEnd ==
  ASSUME NEW s \in Seq(Cell), NEW d \in Seq(Cell), NEW pos \in Nat, NEW m \in Nat,
         pos <= Len(s), Len(s) <= pos + m
  PROVE  Replaced(s, pos, m, d) = Replaced(s, pos, Len(s) - pos, d)
<1>1. SubSeq(s, pos + m + 1, Len(s)) = <<>>
      OBVIOUS
<1>2. SubSeq(s, pos + (Len(s) - pos) + 1, Len(s)) = <<>>
      OBVIOUS
<1> QED BY <1>1, <1>2 DEF Replaced

LEMMA ProductMonotonic ==
  ASSUME NEW k \in Nat, NEW l \in Nat, NEW x \in Nat, k <= l
  PROVE  k * x <= l * x
<1>1. (l - k) * x \in Nat
      OBVIOUS
<1>2. (l - k) * x = l * x - k * x
      OBVIOUS
<1> QED BY <1>1, <1>2

\* Storage that fits is not too small for the elements it has room for.
LEMMA RoomEnough ==
  ASSUME TraitTyped, NEW a, a.storage \in Nat, Fits(a), NEW n \in Nat, n <= a.storage
  PROVE  StorageFor(n) <= a.storage
<1>0. trait.inc \in Nat \ {0} /\ trait.max \in Nat
      BY TraitParts
<1>1. UP_ROUND(n, trait.inc) \in Nat
      BY <1>0, Rounding DEF UP_ROUND
<1>2. CASE a.storage = trait.max
      BY <1>0, <1>1, <1>2 DEF StorageFor, LowerOf
<1>3. CASE a.storage % trait.inc = 0
  <2> DEFINE k == a.storage \div trait.inc
             q == OCC_DIVIDE(n, trait.inc)
  <2>1. k \in Nat /\ k * trait.inc = a.storage
        BY <1>0, <1>3
  <2>2. q \in Nat
        BY <1>0, Rounding
  <2> HIDE DEF k
  <2>3. ~(k < q)
    <3>1. k < q => k * trait.inc < n
          BY <1>0, <2>1, RoundedBelow
    <3> QED BY <2>1, <3>1
  <2> HIDE DEF q
  <2>4. q * trait.inc <= k * trait.inc
        BY <1>0, <2>1, <2>2, <2>3, ProductMonotonic
  <2>5. UP_ROUND(n, trait.inc) <= a.storage
        BY <2>1, <2>4 DEF UP_ROUND, q
  <2> QED BY <1>0, <1>1, <2>5 DEF StorageFor, LowerOf
<1> QED BY <1>2, <1>3 DEF Fits

\* b is a with blank elements after its own, n in all.
Lengthened(a, b, n, blank) ==
  /\ b.eles = n
  /\ \A i \in 1..n : b.cells[i] = IF i <= a.eles THEN a.cells[i] ELSE blank

\* ExtendEles() leaves the elements there are and adds blank ones, or says why not.
LEMMA ExtendSeen ==
  ASSUME TraitTyped, NEW a, Sound(a), NEW n \in Nat, NEW ctor \in BOOLEAN,
         NEW o \in ExtendEles(a, n, ctor)
  PROVE  /\ \/ o.code = "ok" /\ n <= a.eles /\ o.a = a
            \/ /\ o.code = "ok" /\ a.eles < n /\ n <= trait.max
               /\ Lengthened(a, o.a, n, Blank(Zero, ctor))
            \/ o.code = "full" /\ n > trait.max /\ Seen(o.a) = Seen(a)
            \/ o.code = "no memory" /\ Seen(o.a) = Seen(a)
         /\ Fits(a) /\ n <= a.storage => o.code # "no memory"
<1>0. /\ a.cells \in Seq(Cell) /\ a.storage \in Nat /\ a.eles \in Nat /\ a.alive \in Nat
      /\ a.faults \in SUBSET Faults /\ Len(a.cells) \in Nat
      /\ a.eles <= a.storage /\ a.storage <= Len(a.cells) /\ trait.max \in Nat
      BY ArrayParts, TraitParts
<1> DEFINE new    == HigherOf(a.storage, StorageFor(n))
           grows  == StorageFor(n) > a.storage
           block  == IF grows THEN Grown(a, StorageFor(n)) ELSE a.cells
           filled == [i \in DOMAIN block |->
                        IF a.eles < i /\ i <= n THEN Blank(block[i], ctor) ELSE block[i]]
           made   == IF ctor THEN n - a.eles ELSE 0
           flt    == a.faults \cup FaultIf(a.storage % trait.inc # 0)
           bigger == [cells |-> filled, storage |-> new, eles |-> n,
                      alive |-> a.alive + made, faults |-> flt]
           failed == [a EXCEPT !.faults = flt]
<1>1. CASE n <= a.eles
  <2>1. o = Out("ok", a)
        BY <1>1 DEF ExtendEles
  <2> QED BY <1>1, <2>1 DEF Out
<1>2. CASE ~(n <= a.eles) /\ n > trait.max
  <2>1. o = Out("full", a)
        BY <1>2 DEF ExtendEles
  <2> QED BY <1>2, <2>1 DEF Out
<1>3. CASE ~(n <= a.eles) /\ ~(n > trait.max)
  <2>0. a.eles < n /\ n <= trait.max
        BY <1>0, <1>3
  <2>1. o = Out("ok", bigger) \/ (grows /\ o = Out("no memory", failed))
        BY <1>3, Zenon DEF ExtendEles
  <2>2. StorageFor(n) \in Nat /\ n <= StorageFor(n)
        BY <2>0, StorageEnough
  <2>3. CASE o = Out("ok", bigger)
    <3>1. DOMAIN block = 1..Len(block) /\ n <= Len(block)
      <4>1. CASE grows
            BY <2>2, <4>1, GrownType
      <4>2. CASE ~grows
            BY <1>0, <2>2, <4>2
      <4> QED BY <4>1, <4>2
    <3>2. ASSUME NEW i \in 1..a.eles PROVE block[i] = a.cells[i]
      <4>1. CASE grows
        <5>1. i \in 1..StorageFor(n) /\ i <= a.storage
              BY <1>0, <2>0, <2>2
        <5> QED BY <4>1, <5>1 DEF Grown
      <4>2. CASE ~grows
            BY <4>2
      <4> QED BY <4>1, <4>2
    <3> HIDE DEF block
    <3>3. ASSUME NEW i \in 1..n
          PROVE  filled[i] = IF i <= a.eles THEN a.cells[i] ELSE Blank(Zero, ctor)
      <4>1. i \in DOMAIN block
            BY <2>0, <3>1
      <4>2. CASE i <= a.eles
        <5>1. i \in 1..a.eles /\ ~(a.eles < i)
              BY <1>0, <4>2
        <5> QED BY <3>2, <4>1, <4>2, <5>1
      <4>3. CASE ~(i <= a.eles)
        <5>1. a.eles < i /\ i <= n
              BY <1>0, <4>3
        <5> QED BY <4>1, <4>3, <5>1 DEF Blank
      <4> QED BY <4>2, <4>3
    <3>4. bigger.cells = filled /\ bigger.eles = n
          BY Zenon
    <3> HIDE DEF filled, bigger
    <3> QED BY <2>0, <2>3, <3>3, <3>4 DEF Out, Lengthened
  <2>4. CASE grows /\ o = Out("no memory", failed)
    <3>1. failed.cells = a.cells /\ failed.eles = a.eles
          BY DEF Sound, Arrays
    <3>2. ASSUME Fits(a), n <= a.storage PROVE FALSE
      <4>1. StorageFor(n) <= a.storage
            BY <1>0, <3>2, RoomEnough
      <4>2. StorageFor(n) > a.storage
            BY <2>4
      <4> QED BY <1>0, <2>2, <4>1, <4>2
    <3> HIDE DEF failed
    <3>3. Seen(failed) = Seen(a)
          BY <3>1 DEF Seen
    <3> QED BY <2>4, <3>2, <3>3 DEF Out
  <2> QED BY <2>1, <2>3, <2>4
<1> QED BY <1>1, <1>2, <1>3

\* ShiftDownEles() and CopyInEles(), into room that holds nothing yet.
LEMMA InsertedSeen ==
  ASSUME NEW a, Sound(a), NEW s \in Seq(Cell), NEW pos \in Nat, NEW d \in Seq(Cell),
         pos <= Len(s), a.eles = Len(s) + Len(d), \A i \in 1..Len(s) : a.cells[i] = s[i]
  PROVE  Seen(Inserted(a, pos, d)) = Replaced(s, pos, 0, d)
<1> DEFINE b == Inserted(a, pos, d)
           r == Replaced(s, pos, 0, d)
<1>0. /\ a.cells \in Seq(Cell) /\ a.eles \in Nat /\ Len(a.cells) \in Nat
      /\ Len(d) \in Nat /\ Len(s) \in Nat /\ a.eles <= Len(a.cells)
      BY ArrayParts
<1>1. Sound(b) /\ b.eles = a.eles
      BY <1>0, InsertedSound
<1>2. ASSUME NEW i \in 1..a.eles
      PROVE  b.cells[i] = IF pos < i /\ i <= pos + Len(d) THEN d[i - pos]
                          ELSE IF pos + Len(d) < i /\ i <= a.eles THEN a.cells[i - Len(d)]
                          ELSE a.cells[i]
  <2>1. i \in DOMAIN a.cells
        BY <1>0
  <2> QED BY <2>1 DEF Inserted, Sound, Arrays
<1>3. /\ r \in Seq(Cell) /\ Len(r) = (Len(s) - 0) + Len(d)
      /\ \A i \in 1..(Len(s) - 0) + Len(d) :
           r[i] = IF i <= pos THEN s[i] ELSE IF i <= pos + Len(d) THEN d[i - pos]
                  ELSE s[(i - Len(d)) + 0]
  <2>1. 0 \in Nat /\ pos + 0 <= Len(s)
        BY <1>0
  <2>2. IsReplaced(r, s, pos, 0, d)
        BY <2>1, ReplacedParts
  <2> HIDE DEF r
  <2> QED BY <2>2 DEF IsReplaced
<1> HIDE DEF b, r
<1>4. ASSUME NEW i \in 1..a.eles PROVE b.cells[i] = r[i]
  <2>0. r[i] = IF i <= pos THEN s[i] ELSE IF i <= pos + Len(d) THEN d[i - pos] ELSE s[i - Len(d)]
        BY <1>0, <1>3
  <2>1. CASE i <= pos
    <3>1. i \in 1..Len(s) /\ ~(pos < i) /\ ~(pos + Len(d) < i)
          BY <1>0, <2>1
    <3> QED BY <1>2, <2>0, <2>1, <3>1
  <2>2. CASE ~(i <= pos) /\ i <= pos + Len(d)
    <3>1. pos < i
          BY <2>2
    <3> QED BY <1>2, <2>0, <2>2, <3>1
  <2>3. CASE ~(i <= pos) /\ ~(i <= pos + Len(d))
    <3> DEFINE j == i - Len(d)
    <3>1. j \in 1..Len(s) /\ pos + Len(d) < i /\ i <= a.eles
          BY <1>0, <2>3
    <3>2. a.cells[j] = s[j]
          BY <3>1
    <3> QED BY <1>2, <2>0, <2>3, <3>1, <3>2
  <2> QED BY <2>1, <2>2, <2>3
<1>5. r \in Seq(Cell) /\ Len(r) = b.eles
      BY <1>0, <1>1, <1>3
<1> QED BY <1>1, <1>4, <1>5, SeenIs DEF b, r

\* CopyInEles() over elements.
LEMMA CopiedInSeen ==
  ASSUME NEW a, Sound(a), NEW pos \in Nat, NEW d \in Seq(Cell), pos + Len(d) <= a.eles
  PROVE  Seen(CopiedIn(a, pos, d)) = Replaced(Seen(a), pos, Len(d), d)
<1> DEFINE b == CopiedIn(a, pos, d)
           s == Seen(a)
           m == Len(d)
           r == Replaced(s, pos, m, d)
<1>0. /\ a.cells \in Seq(Cell) /\ a.eles \in Nat /\ Len(a.cells) \in Nat
      /\ Len(d) \in Nat /\ a.eles <= Len(a.cells)
      BY ArrayParts
<1>s. /\ s \in Seq(Cell) /\ Len(s) = a.eles /\ \A i \in 1..a.eles : s[i] = a.cells[i]
      BY SeenParts
<1>1. Sound(b) /\ b.eles = a.eles
      BY <1>0, CopiedInSound
<1>2. ASSUME NEW i \in 1..a.eles
      PROVE  b.cells[i] = IF pos < i /\ i <= pos + Len(d) THEN d[i - pos] ELSE a.cells[i]
  <2>1. i \in DOMAIN a.cells
        BY <1>0
  <2> QED BY <2>1 DEF CopiedIn, Sound, Arrays
<1> HIDE DEF s
<1>3. /\ r \in Seq(Cell) /\ Len(r) = (Len(s) - m) + Len(d)
      /\ \A i \in 1..(Len(s) - m) + Len(d) :
           r[i] = IF i <= pos THEN s[i] ELSE IF i <= pos + Len(d) THEN d[i - pos]
                  ELSE s[(i - Len(d)) + m]
  <2>1. m \in Nat /\ pos + m <= Len(s) /\ s \in Seq(Cell)
        BY <1>0, <1>s
  <2> HIDE DEF m
  <2>2. IsReplaced(r, s, pos, m, d)
        BY <2>1, ReplacedParts
  <2> HIDE DEF r
  <2> QED BY <2>2 DEF IsReplaced
<1> HIDE DEF b, r, m
<1>4. ASSUME NEW i \in 1..a.eles PROVE b.cells[i] = r[i]
  <2>0. r[i] = IF i <= pos THEN s[i] ELSE IF i <= pos + Len(d) THEN d[i - pos] ELSE s[i]
        BY <1>0, <1>s, <1>3 DEF m
  <2>1. b.cells[i] = IF pos < i /\ i <= pos + Len(d) THEN d[i - pos] ELSE a.cells[i]
        BY <1>2
  <2>2. s[i] = a.cells[i]
        BY <1>s
  <2>3. i \in Int
        OBVIOUS
  <2>4. CASE i <= pos
        BY <1>0, <2>0, <2>1, <2>2, <2>3, <2>4
  <2>5. CASE ~(i <= pos) /\ i <= pos + Len(d)
        BY <1>0, <2>0, <2>1, <2>3, <2>5
  <2>6. CASE ~(i <= pos) /\ ~(i <= pos + Len(d))
        BY <2>0, <2>1, <2>2, <2>6
  <2> QED BY <2>4, <2>5, <2>6
<1>5. r \in Seq(Cell) /\ Len(r) = b.eles
      BY <1>0, <1>1, <1>3, <1>s DEF m
<1> QED BY <1>1, <1>4, <1>5, SeenIs DEF b, r, s, m

\* What InsertBefore() is to leave: all of d is in, or none of it.
InsertsAll(a, pos, d, o) ==
  \/ d = <<>> /\ o = Out("ok", a)
  \/ /\ o.code = "ok" /\ pos \in 0 .. a.eles /\ a.eles + Len(d) <= trait.max
     /\ Seen(o.a) = Replaced(Seen(a), pos, 0, d)
  \/ o.code # "ok" /\ Seen(o.a) = Seen(a)

\* And when it can fail.
InsertFails(a, pos, d, code) ==
  /\ pos \in 0 .. a.eles /\ a.eles + Len(d) <= trait.max => code \in {"ok", "no memory"}
  /\ Fits(a) /\ a.eles + Len(d) <= a.storage => code # "no memory"

LEMMA InsertBeforeSeen ==
  ASSUME TraitTyped, NEW a, Sound(a), NEW pos \in Int, NEW d \in Seq(Cell),
         NEW o \in InsertBefore(a, pos, d)
  PROVE  InsertsAll(a, pos, d, o) /\ InsertFails(a, pos, d, o.code)
<1>1. CASE d = <<>>
  <2>1. o = Out("ok", a)
        BY <1>1 DEF InsertBefore
  <2> QED BY <1>1, <2>1 DEF Out, InsertsAll, InsertFails
<1>2. CASE d # <<>> /\ (pos < 0 \/ pos > a.eles)
  <2>1. o = Out("invalid", a)
        BY <1>2 DEF InsertBefore
  <2>2. ~(pos \in 0 .. a.eles)
        BY <1>2, ArrayParts
  <2> QED BY <2>1, <2>2 DEF Out, InsertsAll, InsertFails
<1>3. CASE d # <<>> /\ ~(pos < 0 \/ pos > a.eles)
  <2>0. /\ a.eles \in Nat /\ a.storage \in Nat /\ Len(d) \in Nat /\ Len(d) > 0
        /\ a.eles + Len(d) \in Nat /\ pos \in Nat /\ pos <= a.eles /\ trait.max \in Nat
        BY <1>3, ArrayParts, TraitParts
  <2> DEFINE n == a.eles + Len(d)
  <2>1. PICK e \in ExtendEles(a, n, FALSE) :
               o = IF e.code = "ok" THEN Out("ok", Inserted(e.a, pos, d)) ELSE e
        BY <1>3, Zenon DEF InsertBefore
  <2>2. n \in Nat /\ a.eles < n
        BY <2>0
  <2> HIDE DEF n
  <2>3. /\ \/ e.code = "ok" /\ n <= a.eles /\ e.a = a
           \/ /\ e.code = "ok" /\ a.eles < n /\ n <= trait.max
              /\ Lengthened(a, e.a, n, Blank(Zero, FALSE))
           \/ e.code = "full" /\ n > trait.max /\ Seen(e.a) = Seen(a)
           \/ e.code = "no memory" /\ Seen(e.a) = Seen(a)
        /\ Fits(a) /\ n <= a.storage => e.code # "no memory"
        BY <2>1, <2>2, ExtendSeen
  <2>4. Sound(e.a)
        BY <2>1, <2>2, ExtendSound DEF Extended
  <2>5. CASE e.code = "ok"
    <3>0. n <= trait.max /\ Lengthened(a, e.a, n, Blank(Zero, FALSE))
      <4>1. ~(n <= a.eles)
            BY <2>0, <2>2
      <4> QED BY <2>3, <2>5, <4>1, Zenon
    <3> DEFINE blank == Blank(Zero, FALSE)
    <3> HIDE DEF blank
    <3>1. /\ n <= trait.max /\ e.a.eles = n
          /\ \A i \in 1..n : e.a.cells[i] = IF i <= a.eles THEN a.cells[i] ELSE blank
          BY <3>0 DEF Lengthened, blank
    <3> DEFINE s == Seen(a)
    <3>2. s \in Seq(Cell) /\ Len(s) = a.eles /\ \A i \in 1..a.eles : s[i] = a.cells[i]
          BY SeenParts
    <3> HIDE DEF s
    <3>3. ASSUME NEW i \in 1..Len(s) PROVE e.a.cells[i] = s[i]
      <4>1. i \in 1..n /\ i \in 1..a.eles /\ i <= a.eles
            BY <2>0, <2>2, <3>2
      <4> QED BY <3>1, <3>2, <4>1
    <3>4. pos <= Len(s) /\ e.a.eles = Len(s) + Len(d)
          BY <2>0, <3>1, <3>2 DEF n
    <3>5. Seen(Inserted(e.a, pos, d)) = Replaced(s, pos, 0, d)
          BY <2>0, <2>4, <3>2, <3>3, <3>4, InsertedSeen
    <3>6. o.code = "ok" /\ o.a = Inserted(e.a, pos, d)
          BY <2>1, <2>5 DEF Out
    <3>7. pos \in 0 .. a.eles
          BY <2>0
    <3> QED BY <3>1, <3>5, <3>6, <3>7 DEF n, s, InsertsAll, InsertFails
  <2>6. CASE e.code # "ok"
    <3>1. o = e
          BY <2>1, <2>6
    <3>2. n > trait.max <=> ~(a.eles + Len(d) <= trait.max)
          BY <2>0 DEF n
    <3> QED BY <2>2, <2>3, <2>6, <3>1, <3>2 DEF n, InsertsAll, InsertFails
  <2> QED BY <2>5, <2>6
<1> QED BY <1>1, <1>2, <1>3

LEMMA NothingReplaced ==
  ASSUME NEW s \in Seq(Cell), NEW pos \in Nat, pos <= Len(s)
  PROVE  Replaced(s, pos, 0, <<>>) = s
<1> DEFINE d == <<>>
           m == 0
           r == Replaced(s, pos, m, d)
<1>1. d \in Seq(Cell) /\ Len(d) = 0 /\ m \in Nat /\ m = 0 /\ pos + m <= Len(s) /\ Len(s) \in Nat
      OBVIOUS
<1> HIDE DEF d, m
<1>2. /\ r \in Seq(Cell) /\ Len(r) = (Len(s) - m) + Len(d)
      /\ \A i \in 1..(Len(s) - m) + Len(d) :
           r[i] = IF i <= pos THEN s[i] ELSE IF i <= pos + Len(d) THEN d[i - pos]
                  ELSE s[(i - Len(d)) + m]
  <2>1. IsReplaced(r, s, pos, m, d)
        BY <1>1, ReplacedParts
  <2> HIDE DEF r
  <2> QED BY <2>1 DEF IsReplaced
<1> HIDE DEF r
<1>3. ASSUME NEW i \in 1..Len(s) PROVE r[i] = s[i]
  <2>1. r[i] = IF i <= pos THEN s[i] ELSE IF i <= pos + 0 THEN d[i - pos] ELSE s[(i - 0) + 0]
        BY <1>1, <1>2
  <2> QED BY <2>1
<1>4. r \in Seq(Cell) /\ Len(r) = Len(s)
      BY <1>1, <1>2
<1>5. r = s
      BY <1>3, <1>4, SameCells
<1> QED BY <1>5 DEF r, d, m

\* ShiftUpEles().
LEMMA RemovedSeen ==
  ASSUME NEW a, Sound(a), Lively(a), NEW pos \in Nat, NEW n \in Nat, pos + n <= a.eles
  PROVE  Seen(Removed(a, pos, n)) = Replaced(Seen(a), pos, n, <<>>)
<1> DEFINE b == Removed(a, pos, n)
           s == Seen(a)
           d == <<>>
           r == Replaced(s, pos, n, d)
<1>0. /\ a.cells \in Seq(Cell) /\ a.eles \in Nat /\ Len(a.cells) \in Nat /\ a.eles <= Len(a.cells)
      BY ArrayParts
<1>s. /\ s \in Seq(Cell) /\ Len(s) = a.eles /\ \A i \in 1..a.eles : s[i] = a.cells[i]
      BY SeenParts
<1>d. d \in Seq(Cell) /\ Len(d) = 0
      OBVIOUS
<1>1. Sound(b) /\ b.eles = a.eles - n
      BY RemovedSound, Zenon
<1>2. ASSUME NEW i \in 1..a.eles - n
      PROVE  b.cells[i] = IF pos < i THEN a.cells[i + n] ELSE a.cells[i]
  <2>1. i \in DOMAIN a.cells /\ i <= a.eles - n
        BY <1>0
  <2>2. b.cells[i] = IF pos < i /\ i <= a.eles - n THEN a.cells[i + n] ELSE a.cells[i]
        BY <2>1 DEF Removed, Sound, Arrays
  <2> QED BY <2>1, <2>2
<1> HIDE DEF s, d
<1>3. /\ r \in Seq(Cell) /\ Len(r) = (Len(s) - n) + Len(d)
      /\ \A i \in 1..(Len(s) - n) + Len(d) :
           r[i] = IF i <= pos THEN s[i] ELSE IF i <= pos + Len(d) THEN d[i - pos]
                  ELSE s[(i - Len(d)) + n]
  <2>1. pos + n <= Len(s)
        BY <1>s
  <2>2. IsReplaced(r, s, pos, n, d)
        BY <2>1, <1>s, <1>d, ReplacedParts
  <2> HIDE DEF r
  <2> QED BY <2>2 DEF IsReplaced
<1> HIDE DEF b, r
<1>4. ASSUME NEW i \in 1..a.eles - n PROVE b.cells[i] = r[i]
  <2>0. r[i] = IF i <= pos THEN s[i] ELSE IF i <= pos + 0 THEN d[i - pos] ELSE s[(i - 0) + n]
        BY <1>0, <1>s, <1>d, <1>3
  <2>1. CASE i <= pos
    <3>1. i \in 1..a.eles
          BY <1>0
    <3> QED BY <1>2, <1>s, <2>0, <2>1, <3>1
  <2>2. CASE ~(i <= pos)
    <3>1. i + n \in 1..a.eles /\ r[i] = s[i + n] /\ pos < i
          BY <1>0, <2>0, <2>2
    <3> QED BY <1>2, <1>s, <3>1
  <2> QED BY <2>1, <2>2
<1>5. r \in Seq(Cell) /\ Len(r) = b.eles /\ b.eles = a.eles - n
      BY <1>0, <1>1, <1>3, <1>s, <1>d
<1> QED BY <1>1, <1>4, <1>5, SeenIs DEF b, r, s, d

\* Storage is given back, or is not, without a loss.
LEMMA ShrunkSeen ==
  ASSUME TraitTyped, NEW a, Sound(a), Lively(a), NEW b \in Shrunk(a)
  PROVE  Seen(b) = Seen(a)
<1> DEFINE occn == OCC_DIVIDE(a.storage, trait.dec)
           new  == Occupied(a.eles)
           size == new * trait.dec
           keep == [a EXCEPT !.storage = size]
<1>0. /\ a.cells \in Seq(Cell) /\ a.eles \in Nat /\ Len(a.cells) \in Nat /\ a.storage \in Nat
      /\ a.storage <= Len(a.cells) /\ trait.dec \in Nat \ {0}
      BY ArrayParts, TraitParts
<1>1. Sound(b) /\ b.eles = a.eles /\ b.storage <= a.storage
      BY ShrunkSound
<1>2. /\ b.cells \in Seq(Cell) /\ b.eles <= b.storage /\ b.storage <= Len(b.cells)
      /\ b.storage \in Nat /\ b.eles \in Nat /\ Len(b.cells) \in Nat
      BY <1>1, ArrayParts
<1>3. \/ b.cells = a.cells
      \/ b = Empty(a)
      \/ b = [keep EXCEPT !.cells = SubSeq(keep.cells, 1, size)]
  <2>1. \/ b = [a EXCEPT !.faults = {"assert"}]
        \/ b = Empty(a)
        \/ b = a
        \/ b = [keep EXCEPT !.cells = SubSeq(keep.cells, 1, size)]
        \/ b = keep
        BY Zenon DEF Shrunk
  <2>2. [a EXCEPT !.faults = {"assert"}].cells = a.cells /\ keep.cells = a.cells
        BY DEF Sound, Arrays
  <2> QED BY <2>1, <2>2, Zenon
<1>4. CASE b.cells = a.cells
      BY <1>1, <1>4 DEF Seen
<1>5. CASE b = Empty(a)
  <2>1. a.eles = 0
        BY <1>1, <1>5, EmptySound
  <2> QED BY <1>0, <1>1, <1>2, <2>1 DEF Seen
<1>6. CASE b = [keep EXCEPT !.cells = SubSeq(keep.cells, 1, size)]
  <2>1. b.cells = SubSeq(a.cells, 1, size) /\ b.storage = size
        BY <1>6 DEF Sound, Arrays
  <2> HIDE DEF size, new, keep
  <2>2. size \in Nat /\ size <= Len(a.cells) /\ a.eles <= size
        BY <1>0, <1>1, <1>2, <2>1
  <2>3. \A i \in 1..size : SubSeq(a.cells, 1, size)[i] = a.cells[i]
        BY <1>0, <2>2, PrefixParts
  <2>4. ASSUME NEW i \in 1..a.eles PROVE b.cells[i] = Seen(a)[i]
    <3>1. i \in 1..size
          BY <1>0, <2>2
    <3>2. Seen(a)[i] = a.cells[i]
          BY SeenParts
    <3> QED BY <2>1, <2>3, <3>1, <3>2
  <2>5. Seen(a) \in Seq(Cell) /\ Len(Seen(a)) = b.eles
        BY <1>1, SeenParts
  <2> QED BY <1>1, <2>4, <2>5, SeenIs
<1> QED BY <1>3, <1>4, <1>5, <1>6

\* DeleteEles() takes out what was asked for, as far as there is as much.
LEMMA DeleteElesSeen ==
  ASSUME TraitTyped, NEW a, Sound(a), Lively(a), NEW pos \in Int, NEW n \in Int,
         NEW o \in DeleteEles(a, pos, n)
  PROVE  /\ \/ /\ o.code = "ok" /\ pos \in 0 .. a.eles /\ n \in Nat
               /\ Seen(o.a) = Replaced(Seen(a), pos, n, <<>>)
            \/ o.code # "ok" /\ Seen(o.a) = Seen(a)
         /\ pos \in 0 .. a.eles /\ n \in Nat => o.code = "ok"
<1>0. a.eles \in Nat
      BY ArrayParts
<1> DEFINE s == Seen(a)
<1>s. s \in Seq(Cell) /\ Len(s) = a.eles
      BY SeenParts
<1>d. <<>> \in Seq(Cell)
      OBVIOUS
<1> HIDE DEF s
<1>1. CASE n < 0 \/ pos < 0 \/ pos > a.eles
  <2>1. o = Out("invalid", a)
        BY <1>1 DEF DeleteEles
  <2>2. ~(pos \in 0 .. a.eles /\ n \in Nat)
        BY <1>0, <1>1
  <2> QED BY <2>1, <2>2 DEF Out
<1>2. CASE ~(n < 0 \/ pos < 0 \/ pos > a.eles) /\ (n = 0 \/ pos = a.eles)
  <2>1. o = Out("ok", a)
        BY <1>2 DEF DeleteEles
  <2>2. pos \in 0 .. a.eles /\ n \in Nat /\ pos \in Nat /\ pos <= Len(s)
        BY <1>0, <1>2, <1>s
  <2>3. Replaced(s, pos, 0, <<>>) = s
        BY <1>s, <2>2, NothingReplaced
  <2>4. Replaced(s, pos, n, <<>>) = s
    <3>1. CASE n = 0
          BY <2>3, <3>1
    <3>2. CASE pos = a.eles
      <4>1. Len(s) <= pos + n /\ Len(s) - pos = 0
            BY <1>0, <1>s, <2>2, <3>2
      <4>2. Replaced(s, pos, n, <<>>) = Replaced(s, pos, Len(s) - pos, <<>>)
            BY <1>s, <1>d, <2>2, <4>1, ReplacedToEnd
      <4> QED BY <2>3, <4>1, <4>2
    <3> QED BY <1>2, <3>1, <3>2
  <2> QED BY <2>1, <2>2, <2>4 DEF Out, s
<1>3. CASE ~(n < 0 \/ pos < 0 \/ pos > a.eles) /\ ~(n = 0 \/ pos = a.eles)
  <2> DEFINE m == LowerOf(n, a.eles - pos)
             r == Removed(a, pos, m)
  <2>1. PICK b \in Shrunk(r) : o = Out("ok", b)
        BY <1>3, Zenon DEF DeleteEles
  <2>2. /\ m \in Nat /\ m >= 1 /\ pos \in Nat /\ pos + m <= a.eles
        /\ n \in Nat /\ pos \in 0 .. a.eles /\ (m = n \/ (m = a.eles - pos /\ a.eles <= pos + n))
        BY <1>0, <1>3 DEF LowerOf
  <2> HIDE DEF m
  <2>3. Sound(r) /\ Lively(r) /\ Seen(r) = Replaced(s, pos, m, <<>>)
        BY <2>2, RemovedSound, RemovedSeen DEF s
  <2> HIDE DEF r
  <2>4. Seen(b) = Seen(r)
        BY <2>3, ShrunkSeen
  <2>5. Replaced(s, pos, n, <<>>) = Replaced(s, pos, m, <<>>)
    <3>1. CASE m = n
          BY <3>1
    <3>2. CASE m = a.eles - pos /\ a.eles <= pos + n
      <4>1. pos <= Len(s) /\ Len(s) <= pos + n /\ Len(s) - pos = m
            BY <1>0, <1>s, <2>2, <3>2
      <4> QED BY <1>s, <1>d, <2>2, <4>1, ReplacedToEnd
    <3> QED BY <2>2, <3>1, <3>2
  <2> QED BY <2>1, <2>2, <2>3, <2>4, <2>5 DEF Out, s
<1> QED BY <1>1, <1>2, <1>3

--------------------------------------------------------------------------------
(* The calls.                                                                  *)

\* The inductive invariant: every element lives.
Steady == TypeOK /\ alive = eles

LEMMA NowSound ==
  ASSUME Steady
  PROVE  /\ Sound(Now) /\ Lively(Now) /\ TraitTyped
         /\ Now.cells = cells /\ Now.storage = storage /\ Now.eles = eles /\ Now.alive = alive
         /\ Now.faults = faults
<1>1. /\ cells \in Seq(Cell) /\ storage \in Nat /\ eles \in Nat /\ alive \in Nat
      /\ faults \in SUBSET Faults /\ eles <= storage /\ storage <= Len(cells) /\ alive = eles
      BY DEF Steady, TypeOK, Cell, Faults
<1>2. /\ Now \in Arrays
      /\ Now.cells = cells /\ Now.storage = storage /\ Now.eles = eles /\ Now.alive = alive
      /\ Now.faults = faults
      BY <1>1 DEF Now, Arrays
<1> QED BY <1>1, <1>2 DEF Sound, Lively, Steady, TypeOK, TraitTyped

LEMMA BecomesSteady ==
  ASSUME NEW call, NEW o, Becomes(call, o), Sound(o.a), Lively(o.a), o.code \in Codes, TraitTyped'
  PROVE  Steady'
<1>1. /\ o.a.cells \in Seq(Cell) /\ o.a.storage \in Nat /\ o.a.eles \in Nat /\ o.a.alive \in Nat
      /\ o.a.faults \in SUBSET Faults /\ o.a.eles <= o.a.storage
      /\ o.a.storage <= Len(o.a.cells) /\ o.a.alive = o.a.eles
      BY ArrayParts DEF Lively
<1>2. ret'.code \in Codes
      BY DEF Becomes
<1> QED BY <1>1, <1>2 DEF Becomes, Steady, TypeOK, TraitTyped, Cell, Codes, Faults

\* What the calls amount to.
Adds  == UNCHANGED trait /\ \E call, o : Becomes(call, o) /\ Fuller(Now, o.a) /\ o.code \in Codes
Takes == UNCHANGED trait /\ \E call, o : Becomes(call, o) /\ Thinner(Now, o.a) /\ o.code \in Codes

LEMMA GivenCells ==
  ASSUME NEW d \in Given
  PROVE  d \in Seq(Cell)
<1>1. PICK n \in 0 .. MaxGiven : d \in [1..n -> Value]
      BY DEF Given
<1>2. n \in Nat /\ d \in [1..n -> Cell]
      BY <1>1, ArrayAssumption DEF Cell
<1> QED BY <1>2

LEMMA FullerTransitive ==
  ASSUME NEW a, NEW b, NEW c, Sound(a), Fuller(a, b), Fuller(b, c)
  PROVE  Fuller(a, c)
<1>1. /\ a.storage \in Nat /\ b.storage \in Nat /\ c.storage \in Nat
      /\ a.eles \in Nat /\ b.eles \in Nat /\ c.eles \in Nat
      BY ArrayParts DEF Fuller
<1> QED BY <1>1 DEF Fuller

LEMMA NowMayStay ==
  ASSUME Steady, NEW code \in Codes
  PROVE  /\ Fuller(Now, Out(code, Now).a) /\ Out(code, Now).code \in Codes
BY NowSound, SameIsFuller DEF Out

LEMMA CountsTyped ==
  ASSUME Steady
  PROVE  /\ eles \in Nat /\ storage \in Nat /\ alive = eles
         /\ \A pos \in Positions : pos \in Int
<1>1. eles \in Nat /\ storage \in Nat /\ alive = eles
      BY DEF Steady, TypeOK
<1> QED BY <1>1 DEF Positions

LEMMA InsertAdds ==
  ASSUME Steady, NEW pos \in Positions, NEW d \in Given, Insert(pos, d)
  PROVE  Adds
<1>1. pos \in Int /\ d \in Seq(Cell)
      BY GivenCells, CountsTyped
<1>2. PICK o \in InsertBefore(Now, pos, d) : Becomes(<<"insert", pos, d>>, o)
      BY DEF Insert
<1>3. Fuller(Now, o.a) /\ o.code \in Codes
      BY <1>1, NowSound, InsertBeforeSound
<1> QED BY <1>2, <1>3 DEF Adds, Insert

LEMMA AppendAtAdds ==
  ASSUME Steady, NEW pos \in Positions, NEW d \in Given, AppendAt(pos, d)
  PROVE  Adds
<1> DEFINE asked == <<"append at", pos, d>>
           over == SubSeq(d, 1, eles - pos)
           rest == SubSeq(d, eles - pos + 1, Len(d))
           part == CopiedIn(Now, pos, over)
<1>0. /\ Sound(Now) /\ TraitTyped /\ Now.eles = eles /\ eles \in Nat /\ pos \in Int
      BY NowSound, CountsTyped
<1>1. pos \in Int /\ d \in Seq(Cell) /\ Len(d) \in Nat
      BY <1>0, GivenCells
<1>2. \/ \E code \in Codes : Becomes(asked, Out(code, Now))
      \/ \E o \in InsertBefore(Now, pos, d) : Becomes(asked, o)
      \/ /\ 0 <= pos /\ pos < eles /\ pos + Len(d) <= eles
         /\ Becomes(asked, Out("ok", CopiedIn(Now, pos, d)))
      \/ /\ 0 <= pos /\ pos < eles /\ pos + Len(d) > eles
         /\ \E o \in InsertBefore(part, eles, rest) : Becomes(asked, o)
      BY DEF AppendAt, Codes
<1>3. CASE \E code \in Codes : Becomes(asked, Out(code, Now))
      BY <1>3, NowMayStay DEF Adds, AppendAt
<1>4. CASE \E o \in InsertBefore(Now, pos, d) : Becomes(asked, o)
      BY <1>0, <1>1, <1>4, InsertBeforeSound DEF Adds, AppendAt
<1>5. CASE /\ 0 <= pos /\ pos < eles /\ pos + Len(d) <= eles
           /\ Becomes(asked, Out("ok", CopiedIn(Now, pos, d)))
  <2>1. 0 <= pos /\ pos + Len(d) <= eles
        BY <1>5
  <2>2. pos \in Nat /\ pos + Len(d) <= Now.eles
        BY <1>0, <1>1, <2>1
  <2>3. Fuller(Now, CopiedIn(Now, pos, d))
        BY <1>0, <1>1, <2>2, CopiedInFuller
  <2> DEFINE o == Out("ok", CopiedIn(Now, pos, d))
  <2>4. Fuller(Now, o.a) /\ o.code \in Codes
        BY <2>3 DEF Out, Codes
  <2> HIDE DEF o
  <2>5. Becomes(asked, o)
        BY <1>5 DEF o
  <2> QED BY <2>4, <2>5 DEF Adds, AppendAt
<1>6. CASE /\ 0 <= pos /\ pos < eles /\ pos + Len(d) > eles
           /\ \E o \in InsertBefore(part, eles, rest) : Becomes(asked, o)
  <2>0. 0 <= pos /\ pos < eles /\ pos + Len(d) > eles
        BY <1>6
  <2>1. pos \in Nat /\ eles - pos \in 1 .. Len(d) /\ eles - pos + 1 \in 1 .. Len(d) + 1
        BY <1>0, <1>1, <2>0
  <2>2. over \in Seq(Cell) /\ Len(over) = eles - pos
        BY <1>1, <2>1
  <2>3. rest \in Seq(Cell)
        BY <1>1, <2>1
  <2> HIDE DEF over, rest
  <2>4. pos + Len(over) <= Now.eles
        BY <1>0, <2>1, <2>2
  <2>5. Fuller(Now, part)
        BY <1>0, <2>1, <2>2, <2>4, CopiedInFuller
  <2> HIDE DEF part
  <2>6. PICK o \in InsertBefore(part, eles, rest) : Becomes(asked, o)
        BY <1>6
  <2>7. Fuller(part, o.a) /\ o.code \in Codes
        BY <1>0, <2>3, <2>5, InsertBeforeSound DEF Fuller
  <2>8. Fuller(Now, o.a)
        BY <1>0, <2>5, <2>7, FullerTransitive
  <2> QED BY <2>6, <2>7, <2>8 DEF Adds, AppendAt
<1> QED BY <1>2, <1>3, <1>4, <1>5, <1>6

LEMMA AppendOneAtAdds ==
  ASSUME Steady, NEW pos \in Positions, NEW v \in Value, AppendOneAt(pos, v)
  PROVE  Adds
<1> DEFINE asked == <<"append at", pos, <<v>>>>
<1>0. /\ Sound(Now) /\ TraitTyped /\ Now.eles = eles /\ eles \in Nat /\ pos \in Int
      BY NowSound, CountsTyped
<1>1. pos \in Int /\ <<v>> \in Seq(Cell) /\ Len(<<v>>) = 1
      BY <1>0 DEF Cell
<1>2. \/ Becomes(asked, Out("invalid", Now))
      \/ \E o \in InsertBefore(Now, pos, <<v>>) : Becomes(asked, Out("ok", o.a))
      \/ /\ 0 <= pos /\ pos < eles
         /\ Becomes(asked, Out("ok", CopiedIn(Now, pos, <<v>>)))
      BY DEF AppendOneAt
<1>3. ASSUME NEW a, NEW code \in Codes, Fuller(Now, a), Becomes(asked, Out(code, a)) PROVE Adds
  <2> DEFINE o == Out(code, a)
  <2>1. Fuller(Now, o.a) /\ o.code \in Codes
        BY <1>3 DEF Out
  <2> HIDE DEF o
  <2>2. Becomes(asked, o)
        BY <1>3 DEF o
  <2> QED BY <2>1, <2>2 DEF Adds, AppendOneAt
<1>4. CASE Becomes(asked, Out("invalid", Now))
      BY <1>0, <1>3, <1>4, SameIsFuller DEF Codes
<1>5. CASE \E o \in InsertBefore(Now, pos, <<v>>) : Becomes(asked, Out("ok", o.a))
  <2>1. PICK o \in InsertBefore(Now, pos, <<v>>) : Becomes(asked, Out("ok", o.a))
        BY <1>5
  <2>2. Fuller(Now, o.a)
        BY <1>0, <1>1, InsertBeforeSound
  <2> QED BY <1>3, <2>1, <2>2 DEF Codes
<1>6. CASE /\ 0 <= pos /\ pos < eles
           /\ Becomes(asked, Out("ok", CopiedIn(Now, pos, <<v>>)))
  <2>0. 0 <= pos /\ pos < eles
        BY <1>6
  <2>1. pos \in Nat /\ pos + Len(<<v>>) <= Now.eles
        BY <1>0, <1>1, <2>0
  <2>2. Fuller(Now, CopiedIn(Now, pos, <<v>>))
        BY <1>0, <1>1, <2>1, CopiedInFuller
  <2> QED BY <1>3, <1>6, <2>2 DEF Codes
<1> QED BY <1>2, <1>4, <1>5, <1>6

LEMMA DeleteTakes ==
  ASSUME Steady, NEW pos \in Positions, NEW n \in -1 .. eles + 1, Delete(pos, n)
  PROVE  Takes
<1>1. pos \in Int /\ n \in Int
      BY CountsTyped
<1>2. PICK o \in DeleteEles(Now, pos, n) : Becomes(<<"delete", pos, n>>, o)
      BY DEF Delete
<1>3. Thinner(Now, o.a) /\ o.code \in Codes
      BY <1>1, NowSound, DeleteElesSound
<1> QED BY <1>2, <1>3 DEF Takes, Delete

(***************************************************************************)
(* DeleteMatch(), a loop of deletions.  Its rounds are a recursive         *)
(* function, of which the loop takes the last value: that there is such a  *)
(* function, and what each round leaves, are inductions over the rounds.   *)
(***************************************************************************)
\* One round of DeleteMatch(): the arrays that can come out of it.
MatchStep(b, i, v) ==
  UNION {IF i \in DOMAIN a.cells /\ a.cells[i] = v
         THEN {o.a : o \in DeleteEles(a, i - 1, 1)} ELSE {a} : a \in b}

\* The rounds so far, as the loop of DeleteMatch() makes them.
Rounds(f, n, v) ==
  f = [i \in 0 .. n |-> IF i = 0 THEN {Now} ELSE MatchStep(f[i - 1], i, v)]

LEMMA RoundsExist ==
  ASSUME NEW v, NEW n \in Nat
  PROVE  \E f : Rounds(f, n, v)
<1> DEFINE S == {k \in Nat : \E f : Rounds(f, k, v)}
<1>1. 0 \in S
  <2>1. Rounds([i \in 0 .. 0 |-> {Now}], 0, v)
        BY DEF Rounds
  <2> QED BY <2>1
<1>2. ASSUME NEW k \in Nat, k \in S PROVE k + 1 \in S
  <2>1. PICK f : Rounds(f, k, v)
        BY <1>2
  <2> DEFINE g == [i \in 0 .. k + 1 |-> IF i = k + 1 THEN MatchStep(f[k], k + 1, v) ELSE f[i]]
             h == [i \in 0 .. k + 1 |-> IF i = 0 THEN {Now} ELSE MatchStep(g[i - 1], i, v)]
  <2>2. ASSUME NEW i \in 0 .. k + 1
        PROVE  g[i] = IF i = 0 THEN {Now} ELSE MatchStep(g[i - 1], i, v)
    <3>1. CASE i = k + 1
      <4>1. i - 1 = k /\ g[k] = f[k] /\ i # 0
            BY <3>1
      <4> QED BY <3>1, <4>1
    <3>2. CASE i # k + 1 /\ i # 0
      <4>1. i \in 0 .. k /\ i - 1 \in 0 .. k /\ i - 1 # k + 1
            BY <3>2
      <4>2. f[i] = MatchStep(f[i - 1], i, v)
            BY <2>1, <3>2, <4>1 DEF Rounds
      <4>3. g[i] = f[i] /\ g[i - 1] = f[i - 1]
            BY <3>2, <4>1
      <4> QED BY <3>2, <4>2, <4>3
    <3>3. CASE i = 0
      <4>1. f[0] = {Now} /\ 0 # k + 1
            BY <2>1 DEF Rounds
      <4> QED BY <3>3, <4>1
    <3> QED BY <3>1, <3>2, <3>3
  <2>3. g = [i \in 0 .. k + 1 |-> g[i]]
        OBVIOUS
  <2> HIDE DEF g
  <2>4. Rounds(g, k + 1, v)
        BY <2>2, <2>3, Zenon DEF Rounds
  <2> QED BY <2>4
<1> HIDE DEF S
<1>3. Nat \subseteq S
      BY <1>1, <1>2, Induction
<1> QED BY <1>3 DEF S

LEMMA ThinnerTransitive ==
  ASSUME TraitTyped, NEW a, NEW b, NEW c, Sound(a), Thinner(a, b), Thinner(b, c)
  PROVE  Thinner(a, c)
<1>1. /\ a.storage \in Nat /\ b.storage \in Nat /\ c.storage \in Nat
      /\ a.eles \in Nat /\ b.eles \in Nat /\ c.eles \in Nat
      /\ trait.thres \in Nat /\ trait.dec \in Nat \ {0}
      BY ArrayParts, TraitParts DEF Thinner
<1>2. /\ b.storage <= a.storage /\ b.eles <= a.eles /\ Spares(a, b) /\ Snug(a, b)
      /\ c.storage <= b.storage /\ c.eles <= b.eles /\ Spares(b, c) /\ Snug(b, c)
      BY DEF Thinner
<1>3. Spares(a, c)
  <2>1. CASE c.storage < b.storage
        BY <1>1, <1>2, <2>1 DEF Spares
  <2>2. CASE c.storage = b.storage /\ c.eles = b.eles
        BY <1>1, <1>2, <2>2 DEF Spares
  <2>3. CASE c.storage = b.storage /\ c.eles < b.eles
        BY <1>1, <1>2, <2>3 DEF Spares, Snug
  <2> QED BY <1>1, <1>2, <2>1, <2>2, <2>3
<1>4. Snug(a, c)
  <2> SUFFICES ASSUME a.eles + trait.thres <= a.storage, c.eles < a.eles
               PROVE  c.storage < c.eles + trait.thres + trait.dec
      BY DEF Snug
  <2>1. CASE c.eles = b.eles
        BY <1>1, <1>2, <2>1 DEF Snug
  <2>2. CASE c.eles < b.eles /\ b.eles + trait.thres <= b.storage
        BY <1>1, <1>2, <2>2 DEF Snug
  <2>3. CASE c.eles < b.eles /\ ~(b.eles + trait.thres <= b.storage)
    <3>1. b.storage < a.storage
          BY <1>1, <1>2, <2>3
    <3>2. b.storage = 0
          BY <1>1, <1>2, <2>3, <3>1 DEF Spares
    <3> QED BY <1>1, <1>2, <3>2
  <2> QED BY <1>1, <1>2, <2>1, <2>2, <2>3
<1> QED BY <1>1, <1>2, <1>3, <1>4 DEF Thinner

\* However many rounds there are, each only takes elements away.
LEMMA DeleteMatchTakes ==
  ASSUME Steady, NEW v \in Value, DeleteMatch(v)
  PROVE  Takes
<1> DEFINE f == CHOOSE g : Rounds(g, eles, v)
<1>0. Sound(Now) /\ Lively(Now) /\ TraitTyped /\ eles \in Nat
      BY NowSound, CountsTyped
<1>1. Rounds(f, eles, v)
      BY <1>0, RoundsExist
<1>2. MatchesDeleted(v) = f[eles]
      BY Zenon DEF MatchesDeleted, Rounds, MatchStep
<1> HIDE DEF f
<1> DEFINE S == {i \in Nat : i <= eles => \A a \in f[i] : Thinner(Now, a)}
<1>3. 0 \in S
  <2>1. f[0] = {Now}
        BY <1>0, <1>1 DEF Rounds
  <2> QED BY <1>0, <2>1, SameIsThinner
<1>4. ASSUME NEW i \in Nat, i \in S PROVE i + 1 \in S
  <2> SUFFICES ASSUME i + 1 <= eles, NEW b \in f[i + 1] PROVE Thinner(Now, b)
      OBVIOUS
  <2>1. f[i + 1] = MatchStep(f[i], i + 1, v)
    <3>1. i + 1 \in 0 .. eles /\ i + 1 # 0 /\ (i + 1) - 1 = i
          BY <1>0
    <3> QED BY <1>1, <3>1 DEF Rounds
  <2>2. PICK a \in f[i] : b \in IF i + 1 \in DOMAIN a.cells /\ a.cells[i + 1] = v
                               THEN {o.a : o \in DeleteEles(a, (i + 1) - 1, 1)} ELSE {a}
        BY <2>1 DEF MatchStep
  <2>3. Thinner(Now, a)
        BY <1>0, <1>4
  <2>4. CASE b = a
        BY <2>3, <2>4
  <2>5. CASE \E o \in DeleteEles(a, (i + 1) - 1, 1) : b = o.a
    <3>1. PICK o \in DeleteEles(a, (i + 1) - 1, 1) : b = o.a
          BY <2>5
    <3>2. (i + 1) - 1 \in Int /\ 1 \in Int /\ Sound(a) /\ Lively(a)
          BY <2>3 DEF Thinner
    <3>3. Thinner(a, b)
          BY <1>0, <3>1, <3>2, DeleteElesSound
    <3> QED BY <1>0, <2>3, <3>3, ThinnerTransitive
  <2> QED BY <2>2, <2>4, <2>5
<1> HIDE DEF S
<1>5. eles \in S
  <2>1. Nat \subseteq S
        BY <1>3, <1>4, Induction
  <2> QED BY <1>0, <2>1
<1>6. PICK a \in MatchesDeleted(v) : Becomes(<<"delete match", v>>, Out("ok", a))
      BY DEF DeleteMatch
<1>7. Thinner(Now, a)
  <2>1. eles \in Nat /\ eles <= eles
        BY <1>0
  <2>2. \A b \in f[eles] : Thinner(Now, b)
        BY <1>5, <2>1 DEF S
  <2> QED BY <1>2, <1>6, <2>2
<1> DEFINE o == Out("ok", a)
<1>8. o.a = a /\ o.code \in Codes
      BY DEF Out, Codes
<1>9. Becomes(<<"delete match", v>>, o)
      BY <1>6
<1> HIDE DEF o
<1> QED BY <1>7, <1>8, <1>9 DEF Takes, DeleteMatch

LEMMA SetEleQuanChanges ==
  ASSUME Steady, NEW n \in -1 .. eles + MaxGiven, NEW isZeroContent \in BOOLEAN,
         SetEleQuan(n, isZeroContent)
  PROVE  Adds \/ Takes
<1> DEFINE asked == <<"resize", n, IF isZeroContent THEN Zero ELSE Default>>
<1>0. /\ Sound(Now) /\ Lively(Now) /\ TraitTyped /\ Now.eles = eles /\ Now.alive = alive
      /\ eles \in Nat /\ alive = eles /\ Now.storage \in Nat
      BY NowSound, CountsTyped
<1>1. n \in Int
      BY <1>0, ArrayAssumption
<1>2. \/ \E code \in Codes : Becomes(asked, Out(code, Now))
      \/ 0 <= n /\ n < eles /\ \E o \in DeleteEles(Now, n, eles - n) : Becomes(asked, o)
      \/ /\ n > eles
         /\ \E o \in ExtendEles(Now, n, ~isZeroContent) :
              Becomes(asked, IF isZeroContent THEN [o EXCEPT !.a.alive = @ + (o.a.eles - eles)] ELSE o)
      BY DEF SetEleQuan, Codes
<1>3. CASE \E code \in Codes : Becomes(asked, Out(code, Now))
      BY <1>3, NowMayStay DEF Adds, SetEleQuan
<1>4. CASE 0 <= n /\ n < eles /\ \E o \in DeleteEles(Now, n, eles - n) : Becomes(asked, o)
  <2>1. eles - n \in Int
        BY <1>0, <1>1
  <2> QED BY <1>0, <1>1, <1>4, <2>1, DeleteElesSound DEF Takes, SetEleQuan
<1>5. CASE /\ n > eles
           /\ \E o \in ExtendEles(Now, n, ~isZeroContent) :
                Becomes(asked, IF isZeroContent THEN [o EXCEPT !.a.alive = @ + (o.a.eles - eles)] ELSE o)
  <2>1. PICK o \in ExtendEles(Now, n, ~isZeroContent) :
               Becomes(asked, IF isZeroContent THEN [o EXCEPT !.a.alive = @ + (o.a.eles - eles)] ELSE o)
        BY <1>5
  <2>2. n \in Nat
        BY <1>0, <1>1, <1>5
  <2>3. Extended(Now, n, ~isZeroContent, o.code, o.a) /\ o = Out(o.code, o.a)
        BY <1>0, <2>2, ExtendSound
  <2>4. /\ Sound(o.a) /\ o.code \in Codes /\ Now.storage <= o.a.storage
        /\ (Whole(Now) /\ trait.max % trait.inc = 0) => Whole(o.a)
        /\ Fits(Now) => Fits(o.a)
        BY <2>3 DEF Extended, Codes
  <2>eles. o.a.eles \in Nat /\ o.a.alive \in Nat /\ eles <= o.a.eles
    <3>1. o.a.eles \in Nat /\ o.a.alive \in Nat
          BY <2>4, ArrayParts
    <3>2. (o.code = "ok" => n <= o.a.eles) /\ (o.code # "ok" => o.a.eles = Now.eles)
          BY <2>3 DEF Extended
    <3>3. n > eles
          BY <1>5
    <3> QED BY <1>0, <2>2, <3>1, <3>2, <3>3
  <2>5. CASE ~isZeroContent
    <3>1. o.a.alive = Now.alive + (o.a.eles - Now.eles)
          BY <2>3, <2>5 DEF Extended
    <3>lively. Lively(o.a)
          BY <1>0, <2>eles, <3>1 DEF Lively
    <3>2. Fuller(Now, o.a)
          BY <1>0, <2>4, <2>eles, <3>lively DEF Fuller
    <3> QED BY <2>1, <2>4, <2>5, <3>2 DEF Adds, SetEleQuan
  <2>6. CASE isZeroContent
    <3> DEFINE l == o.a.alive + (o.a.eles - eles)
               b == [o.a EXCEPT !.alive = l]
               p == [o EXCEPT !.a.alive = @ + (o.a.eles - eles)]
    <3>alive. o.a.alive = Now.alive
          BY <2>3, <2>6 DEF Extended
    <3>1. l \in Nat /\ l = o.a.eles
          BY <1>0, <2>eles, <3>alive
    <3>2. p.a = b /\ p.code = o.code
          BY <2>3 DEF Out
    <3> HIDE DEF l
    <3>3. /\ b \in Arrays /\ b.cells = o.a.cells /\ b.storage = o.a.storage /\ b.eles = o.a.eles
          /\ b.alive = l /\ b.faults = o.a.faults
          BY <2>4, <3>1 DEF Sound, Arrays
    <3>4. Becomes(asked, p)
          BY <2>1, <2>6
    <3> HIDE DEF b, p
    <3>5. Fuller(Now, b)
          BY <1>0, <2>4, <2>eles, <3>1, <3>3 DEF Fuller, Sound, Lively, Whole, Fits
    <3> QED BY <2>4, <3>2, <3>4, <3>5 DEF Adds, SetEleQuan
  <2> QED BY <2>5, <2>6
<1> QED BY <1>2, <1>3, <1>4, <1>5

\* SetTrait() takes a trait only if it is sound.
TraitSound(t) ==
  /\ t \in [max : Nat \ {0}, inc : Nat \ {0}, dec : Nat \ {0}, thres : Nat]
  /\ t.dec % t.inc = 0

LEMMA SetTraitSound ==
  ASSUME NEW t \in Traits, SetTrait(t)
  PROVE  /\ UNCHANGED <<cells, storage, eles, alive, faults>>
         /\ ret'.code \in Codes
         /\ \/ UNCHANGED trait
            \/ /\ TraitSound(trait') /\ trait'.max = t.max /\ trait'.inc = t.inc
               /\ trait'.thres = t.thres /\ t.max % t.inc = 0
               /\ storage % t.inc = 0 \/ "TraitLate" \in Calls
<1>1. UNCHANGED <<cells, storage, eles, alive, faults>> /\ ret'.code \in Codes
  <2>1. /\ UNCHANGED <<cells, storage, eles, alive, faults>>
        /\ TraitSaid("invalid") \/ TraitSaid("bad trait") \/ TraitSaid("ok")
        BY Zenon DEF SetTrait
  <2>2. ASSUME NEW code, TraitSaid(code) PROVE ret'.code = code
        BY <2>2 DEF TraitSaid
  <2> QED BY <2>1, <2>2 DEF Codes
<1>2. CASE UNCHANGED trait
      BY <1>1, <1>2
<1>3. CASE ~UNCHANGED trait
  <2>1. /\ t.max > 0 /\ t.dec >= 0 /\ t.thres >= 0
        /\ ~BadTrait(Meant(t)) /\ trait' = Meant(t)
        /\ (storage % t.inc = 0 \/ "TraitLate" \in Calls)
        BY <1>3, Zenon DEF SetTrait
  <2>2. t \in [max : Int, inc : Int, dec : Int, thres : Int]
        BY ArrayAssumption
  <2> DEFINE d == IF t.dec = 0 THEN t.max ELSE t.dec
             u == [t EXCEPT !.dec = d]
  <2>3. d \in Nat \ {0}
        BY <2>1, <2>2
  <2>4. Meant(t) = u
        BY DEF Meant
  <2> HIDE DEF d
  <2>5. u.max = t.max /\ u.inc = t.inc /\ u.dec = d /\ u.thres = t.thres
        BY <2>2, <2>3
  <2>6. ~(u.inc <= 0) /\ u.max % u.inc = 0 /\ u.dec % u.inc = 0
        BY <2>1, <2>4 DEF BadTrait, BadDec
  <2>7. u \in [max : Nat \ {0}, inc : Nat \ {0}, dec : Nat \ {0}, thres : Nat]
        BY <2>1, <2>2, <2>3, <2>5, <2>6
  <2> HIDE DEF u
  <2> QED BY <1>1, <2>1, <2>4, <2>5, <2>6, <2>7 DEF TraitSound
<1> QED BY <1>2, <1>3

\* A copy that holds what the array held.
Copied ==
  /\ UNCHANGED eles
  /\ trait.max % trait.inc = 0 => faults' = {} /\ storage' % trait.inc = 0
  /\ storage' % trait.inc = 0 \/ storage' = trait.max
  /\ SubSeq(cells', 1, eles') = SubSeq(cells, 1, eles) /\ ret' = [call |-> <<"copy">>, code |-> "ok"]

\* A copy for which memory was short leaves the array, or nothing.
NotCopied ==
  /\ \E code : code # "ok" /\ ret' = [call |-> <<"copy">>, code |-> code]
  /\ \/ UNCHANGED <<cells, storage, eles>> /\ faults' \in {faults, {"no copy"}}
     \/ SubSeq(cells', 1, eles') = <<>> /\ storage' = 0 /\ eles' = 0 /\ faults' = {}

LEMMA CopyMade ==
  ASSUME Steady, UNCHANGED trait, NEW o \in ExtendEles(Vacant, eles, FALSE), o.code = "ok",
         Becomes(<<"copy">>, Out("ok", [CopiedIn(o.a, 0, SubSeq(cells, 1, eles)) EXCEPT !.alive = eles]))
  PROVE  Steady' /\ Copied
<1> DEFINE blank == Vacant
           kept  == SubSeq(cells, 1, eles)
<1>0. /\ TraitTyped /\ eles \in Nat /\ cells \in Seq(Cell) /\ Len(cells) \in Nat /\ eles <= Len(cells)
  <2>1. /\ eles \in Nat /\ storage \in Nat /\ eles <= storage /\ storage <= Len(cells)
        /\ cells \in Seq(Cell) /\ TraitTyped
        BY DEF Steady, TypeOK, TraitTyped, Cell
  <2> QED BY <2>1
<1>1. /\ o \in ExtendEles(blank, eles, FALSE) /\ o.code = "ok"
      /\ Becomes(<<"copy">>, Out("ok", [CopiedIn(o.a, 0, kept) EXCEPT !.alive = eles]))
      OBVIOUS
<1>2. /\ blank \in Arrays /\ blank.storage = 0 /\ blank.eles = 0 /\ blank.faults = {}
      /\ Len(blank.cells) = 0
  <2>1. <<>> \in Seq(Cell) /\ Len(<<>>) = 0
        OBVIOUS
  <2> QED BY <2>1 DEF Arrays, Vacant
<1> HIDE DEF blank
<1>3. Sound(blank) /\ Whole(blank) /\ Fits(blank)
  <2>1. trait.inc \in Nat \ {0} /\ 0 % trait.inc = 0
        BY <1>0, TraitParts
  <2> QED BY <1>2, <2>1 DEF Sound, Whole, Fits
<1>4. Extended(blank, eles, FALSE, o.code, o.a)
  <2>1. o \in ExtendEles(blank, eles, FALSE)
        BY <1>1
  <2>2. FALSE \in BOOLEAN
        OBVIOUS
  <2> QED BY <1>0, <1>3, <2>1, <2>2, ExtendSound, Zenon
<1>5. /\ Sound(o.a) /\ o.a.eles = eles /\ Fits(o.a)
      /\ trait.max % trait.inc = 0 => Whole(o.a)
  <2>1. CASE eles = 0
        BY <1>1, <1>2, <1>3, <1>4, <2>1 DEF Extended
  <2>2. CASE eles # 0
        BY <1>0, <1>1, <1>2, <1>3, <1>4, <2>2 DEF Extended
  <2> QED BY <2>1, <2>2
<1>6. kept \in Seq(Cell) /\ Len(kept) = eles
  <2>1. CASE eles = 0
        BY <1>0, <2>1
  <2>2. CASE eles # 0
        BY <1>0, <2>2
  <2> QED BY <2>1, <2>2
<1> HIDE DEF kept
<1> DEFINE c == CopiedIn(o.a, 0, kept)
           b == [c EXCEPT !.alive = eles]
<1>7. /\ Sound(c) /\ c.storage = o.a.storage /\ c.eles = eles /\ c.faults = o.a.faults
  <2>1. 0 \in Nat /\ 0 + Len(kept) <= o.a.eles
        BY <1>0, <1>5, <1>6
  <2> QED BY <1>5, <1>6, <2>1, CopiedInSound
<1>seen. Seen(c) = kept
  <2> DEFINE s == Seen(o.a)
             m == Len(kept)
             z == 0
             r == Replaced(s, z, m, kept)
  <2>1. s \in Seq(Cell) /\ Len(s) = eles
        BY <1>5, SeenParts
  <2>2. m \in Nat /\ m = eles /\ z \in Nat /\ z = 0 /\ z + m <= o.a.eles /\ z + m <= Len(s)
        BY <1>0, <1>5, <1>6, <2>1
  <2>3. Seen(c) = r
        BY <1>5, <1>6, <2>2, CopiedInSeen
  <2> HIDE DEF s, m, z
  <2>4. IsReplaced(r, s, z, m, kept)
        BY <1>6, <2>1, <2>2, ReplacedParts
  <2> HIDE DEF r
  <2>5. /\ r \in Seq(Cell) /\ Len(r) = eles
        /\ \A i \in 1..eles : r[i] = kept[i]
        BY <1>0, <1>6, <2>1, <2>2, <2>4 DEF IsReplaced
  <2>6. r = kept
        BY <1>6, <2>5, SameCells
  <2> QED BY <2>3, <2>6
<1> HIDE DEF c
<1>8. /\ b \in Arrays /\ b.cells = c.cells /\ b.storage = c.storage /\ b.eles = c.eles
      /\ b.alive = eles /\ b.faults = c.faults
      BY <1>0, <1>7 DEF Sound, Arrays
<1>9. Becomes(<<"copy">>, Out("ok", b))
      BY <1>1 DEF c
<1> HIDE DEF b
<1>10. Sound(b) /\ Lively(b)
       BY <1>7, <1>8 DEF Sound, Lively
<1> DEFINE p == Out("ok", b)
<1>11. p.a = b /\ p.code \in Codes
       BY DEF Out, Codes
<1> HIDE DEF p
<1>12. Becomes(<<"copy">>, p)
       BY <1>9 DEF p
<1>13. UNCHANGED trait
       OBVIOUS
<1>14. TraitTyped'
       BY <1>0, <1>13 DEF TraitTyped
<1>15. Steady'
       BY <1>10, <1>11, <1>12, <1>14, BecomesSteady
<1>16. SubSeq(cells', 1, eles') = kept
  <2>1. cells' = c.cells /\ eles' = c.eles
        BY <1>7, <1>8, <1>11, <1>12 DEF Becomes
  <2> QED BY <1>seen, <2>1 DEF Seen
<1>17. ret' = [call |-> <<"copy">>, code |-> "ok"]
       BY <1>12 DEF Becomes, Out, p
<1> QED BY <1>5, <1>7, <1>8, <1>11, <1>12, <1>13, <1>15, <1>16, <1>17
        DEF Becomes, Whole, Fits, kept, Copied

\* What a copy for which memory was short may leave.
LeftBy(a) == a \in {[Now EXCEPT !.faults = {"no copy"}], Now, Vacant}

LEMMA CopyNotMade ==
  ASSUME Steady, UNCHANGED trait, NEW o \in ExtendEles(Vacant, eles, FALSE), o.code # "ok",
         NEW a, LeftBy(a), Becomes(<<"copy">>, Out(o.code, a))
  PROVE  Steady' /\ NotCopied
<1>0. Sound(Now) /\ Lively(Now) /\ TraitTyped /\ TraitTyped' /\ eles \in Nat
      BY NowSound, CountsTyped DEF TraitTyped
<1>1. /\ Sound(Vacant) /\ Lively(Vacant) /\ Vacant.cells = <<>> /\ Vacant.storage = 0
      /\ Vacant.eles = 0 /\ Vacant.faults = {}
  <2>1. {} \in SUBSET Faults
        OBVIOUS
  <2>2. /\ Vacant \in Arrays /\ Vacant.cells = <<>> /\ Vacant.storage = 0 /\ Vacant.eles = 0
        /\ Vacant.alive = 0 /\ Vacant.faults = {}
        BY <2>1, NoCells DEF Vacant, Arrays
  <2>3. 0 \in Nat /\ 0 <= 0
        OBVIOUS
  <2> QED BY <2>2, <2>3, NoCells, Zenon DEF Sound, Lively
<1>2. o.code \in Codes
  <2>1. Extended(Vacant, eles, FALSE, o.code, o.a)
        BY <1>0, <1>1, ExtendSound
  <2> QED BY <2>1 DEF Extended, Codes
<1> DEFINE left == [Now EXCEPT !.faults = {"no copy"}]
<1>3. /\ Sound(left) /\ Lively(left) /\ left.cells = cells /\ left.storage = storage
      /\ left.eles = eles /\ left.faults = {"no copy"}
  <2>1. left.faults \in SUBSET Faults
        BY DEF Faults, Now
  <2>2. /\ left \in Arrays /\ left.cells = Now.cells /\ left.storage = Now.storage
        /\ left.eles = Now.eles /\ left.alive = Now.alive /\ left.faults = {"no copy"}
        BY <1>0, <2>1 DEF Sound, Arrays, Now
  <2> QED BY <1>0, <2>2, NowSound DEF Sound, Lively
<1> HIDE DEF left
<1>4. a \in {left, Now, Vacant}
      BY DEF left, LeftBy
<1> DEFINE p == Out(o.code, a)
<1>5. p.a = a /\ p.code = o.code
      BY DEF Out
<1> HIDE DEF p
<1>6. Becomes(<<"copy">>, p)
      BY DEF p
<1>7. Sound(a) /\ Lively(a)
      BY <1>0, <1>1, <1>3, <1>4
<1>8. Steady'
      BY <1>0, <1>2, <1>5, <1>6, <1>7, BecomesSteady
<1>9. /\ cells' = a.cells /\ storage' = a.storage /\ eles' = a.eles /\ faults' = a.faults
      /\ ret' = [call |-> <<"copy">>, code |-> o.code]
      BY <1>5, <1>6 DEF Becomes
<1>10. CASE a = Vacant
  <2>1. /\ cells' = <<>> /\ storage' = 0 /\ eles' = 0 /\ faults' = {}
        BY <1>1, <1>9, <1>10
  <2>2. SubSeq(cells', 1, eles') = <<>>
        BY <2>1, NoCells
  <2> QED BY <1>8, <1>9, <2>1, <2>2 DEF NotCopied
<1>11. CASE a = left
       BY <1>3, <1>8, <1>9, <1>11 DEF NotCopied
<1>12. CASE a = Now
       BY <1>8, <1>9, <1>12, NowSound DEF NotCopied
<1> QED BY <1>4, <1>10, <1>11, <1>12

LEMMA CopySound ==
  ASSUME Steady, Copy
  PROVE  Steady' /\ UNCHANGED trait /\ (Copied \/ NotCopied)
<1>1. UNCHANGED trait
      BY DEF Copy
<1>2. PICK o \in ExtendEles(Vacant, eles, FALSE) :
        \/ o.code = "ok" /\ Becomes(<<"copy">>, Out("ok", [CopiedIn(o.a, 0, SubSeq(cells, 1, eles)) EXCEPT !.alive = eles]))
        \/ o.code # "ok" /\ \E a \in {[Now EXCEPT !.faults = {"no copy"}], Now, Vacant} :
                                Becomes(<<"copy">>, Out(o.code, a))
      BY Zenon DEF Copy
<1> QED BY <1>1, <1>2, CopyMade, CopyNotMade DEF LeftBy

LEMMA CleanupSound ==
  ASSUME Steady, Cleanup
  PROVE  /\ Steady' /\ UNCHANGED trait /\ storage' = 0
         /\ "CleanupVacant" \notin Calls => faults' = faults
<1>0. Sound(Now) /\ Lively(Now) /\ TraitTyped /\ Now.faults = faults
      BY NowSound
<1> DEFINE e == Empty(Now)
           f == e.faults \cup FaultIf(eles = 0 /\ cells # <<>>)
           b == [e EXCEPT !.faults = f]
<1>1. /\ Sound(e) /\ Lively(e) /\ e.storage = 0 /\ e.eles = 0 /\ e.faults = faults
      BY <1>0, EmptySound
<1>2. Becomes(<<"cleanup">>, Out("ok", b))
      BY Zenon DEF Cleanup, DeleteAllStorage
<1> HIDE DEF e
<1>3. f \in SUBSET Faults /\ ("CleanupVacant" \notin Calls => f = faults)
  <2>1. f \in SUBSET Faults
        BY <1>1, ArrayParts DEF FaultIf, Faults
  <2>2. "CleanupVacant" \notin Calls => ~(eles = 0 /\ cells # <<>>)
        BY DEF Cleanup
  <2> QED BY <1>1, <2>1, <2>2 DEF FaultIf
<1> HIDE DEF f
<1>4. /\ b \in Arrays /\ b.cells = e.cells /\ b.storage = 0 /\ b.eles = 0 /\ b.alive = e.alive
      /\ b.faults = f
      BY <1>1, <1>3 DEF Sound, Arrays
<1> HIDE DEF b
<1>5. Sound(b) /\ Lively(b)
      BY <1>1, <1>4 DEF Sound, Lively
<1> DEFINE p == Out("ok", b)
<1>6. p.a = b /\ p.code \in Codes
      BY DEF Out, Codes
<1> HIDE DEF p
<1>7. Becomes(<<"cleanup">>, p)
      BY <1>2 DEF p
<1>8. UNCHANGED trait /\ TraitTyped'
      BY <1>0 DEF Cleanup, TraitTyped
<1>9. Steady'
      BY <1>5, <1>6, <1>7, <1>8, BecomesSteady
<1> QED BY <1>3, <1>4, <1>6, <1>7, <1>8, <1>9 DEF Becomes

LEMMA MoveAwaySound ==
  ASSUME Steady, MoveAway
  PROVE  Steady' /\ storage' = 0 /\ UNCHANGED faults /\ trait' = DefTrait
<1>1. /\ cells' = <<>> /\ storage' = 0 /\ eles' = 0 /\ alive' = 0 /\ trait' = DefTrait
      /\ ret' = [call |-> <<"move">>, code |-> "ok"] /\ UNCHANGED faults
      BY DEF MoveAway
<1>2. cells' \in Seq(Cell) /\ Len(cells') = 0
      BY <1>1
<1>3. faults \in SUBSET Faults
      BY DEF Steady, TypeOK, Faults
<1>4. ret'.code = "ok"
      BY <1>1
<1>5. trait' \in [max : Nat \ {0}, inc : Nat \ {0}, dec : Nat \ {0}, thres : Nat]
      BY <1>1, ArrayAssumption
<1>6. eles' <= storage' /\ storage' <= Len(cells')
      BY <1>1, <1>2
<1>7. faults' \in SUBSET Faults
      BY <1>1, <1>3
<1>8. eles' \in Nat /\ storage' \in Nat /\ alive' \in Nat /\ alive' = eles'
      BY <1>1
<1> QED BY <1>1, <1>2, <1>4, <1>5, <1>6, <1>7, <1>8 DEF Steady, TypeOK, Cell, Faults

--------------------------------------------------------------------------------
\* Inserting without an array.
LEMMA InsertNoneAdds ==
  ASSUME Steady, NEW pos, InsertNone(pos)
  PROVE  Adds
<1>1. PICK code \in {"ok", "invalid"} : Becomes(<<"insert", pos, <<>>>>, Out(code, Now))
      BY DEF InsertNone
<1>2. code \in Codes /\ UNCHANGED trait
      BY DEF Codes, InsertNone
<1> QED BY <1>1, <1>2, NowMayStay DEF Adds

\* Every step adds elements, takes some away, or is one of four calls.
LEMMA NextAmountsTo ==
  ASSUME Steady, [Next]_vars
  PROVE  \/ Adds \/ Takes
         \/ \E t \in Traits : SetTrait(t)
         \/ Cleanup \/ Copy \/ MoveAway \/ UNCHANGED vars
BY InsertAdds, InsertNoneAdds, AppendAtAdds, AppendOneAtAdds, DeleteTakes, DeleteMatchTakes,
   SetEleQuanChanges DEF Next

LEMMA AddsKeep ==
  ASSUME Steady, Adds
  PROVE  /\ Steady' /\ UNCHANGED trait /\ storage <= storage'
         /\ (Whole(Now) /\ trait.max % trait.inc = 0) => faults' = {} /\ storage' % trait.inc = 0
<1>1. PICK call, o : Becomes(call, o) /\ Fuller(Now, o.a) /\ o.code \in Codes
      BY DEF Adds
<1>2. /\ Sound(Now) /\ Lively(Now) /\ TraitTyped /\ Now.storage = storage
      BY NowSound
<1>3. UNCHANGED trait /\ TraitTyped'
      BY <1>2 DEF Adds, TraitTyped
<1>4. Sound(o.a) /\ Lively(o.a) /\ storage <= o.a.storage
      BY <1>1, <1>2 DEF Fuller
<1>5. Steady'
      BY <1>1, <1>3, <1>4, BecomesSteady
<1>6. storage' = o.a.storage /\ faults' = o.a.faults
      BY <1>1 DEF Becomes
<1> QED BY <1>1, <1>3, <1>4, <1>5, <1>6 DEF Fuller, Whole

LEMMA TakesKeep ==
  ASSUME Steady, Takes
  PROVE  /\ Steady' /\ UNCHANGED trait
         /\ storage' < storage /\ storage' # 0 =>
              /\ storage' >= eles' + trait.thres
              /\ storage' < eles' + trait.thres + trait.dec
         /\ (Whole(Now) /\ trait.thres <= 1 /\ trait.dec % trait.inc = 0)
              => faults' = {} /\ storage' % trait.inc = 0
<1>1. PICK call, o : Becomes(call, o) /\ Thinner(Now, o.a) /\ o.code \in Codes
      BY DEF Takes
<1>2. /\ Sound(Now) /\ Lively(Now) /\ TraitTyped /\ Now.storage = storage
      BY NowSound
<1>3. UNCHANGED trait /\ TraitTyped'
      BY <1>2 DEF Takes, TraitTyped
<1>4. Sound(o.a) /\ Lively(o.a)
      BY <1>1 DEF Thinner
<1>5. Steady'
      BY <1>1, <1>3, <1>4, BecomesSteady
<1>6. storage' = o.a.storage /\ eles' = o.a.eles /\ faults' = o.a.faults
      BY <1>1 DEF Becomes
<1>7. Spares(Now, o.a)
      BY <1>1 DEF Thinner
<1>8. (Whole(Now) /\ trait.thres <= 1 /\ trait.dec % trait.inc = 0) => Whole(o.a)
      BY <1>1 DEF Thinner
<1> QED BY <1>2, <1>3, <1>5, <1>6, <1>7, <1>8 DEF Spares, Whole

LEMMA StillSteady ==
  ASSUME Steady, UNCHANGED <<cells, storage, eles, alive, faults>>, ret'.code \in Codes, TraitTyped'
  PROVE  Steady'
BY DEF Steady, TypeOK, TraitTyped, Codes

LEMMA SetTraitKeeps ==
  ASSUME Steady, NEW t \in Traits, SetTrait(t)
  PROVE  Steady'
<1>1. TraitTyped'
      BY SetTraitSound, NowSound DEF TraitSound, TraitTyped
<1> QED BY <1>1, SetTraitSound, StillSteady

LEMMA NextSteady ==
  ASSUME Steady, [Next]_vars
  PROVE  Steady'
<1>1. CASE UNCHANGED vars
      BY <1>1 DEF vars, Steady, TypeOK
<1> QED BY <1>1, NextAmountsTo, AddsKeep, TakesKeep, SetTraitKeeps, CleanupSound, CopySound,
           MoveAwaySound

LEMMA InitSteady == Init => Steady
<1> SUFFICES ASSUME Init PROVE Steady
    OBVIOUS
<1>1. cells \in Seq(Cell) /\ Len(cells) = 0
      BY DEF Init
<1>2. ret.code = "ok"
      BY DEF Init
<1>3. trait \in [max : Nat \ {0}, inc : Nat \ {0}, dec : Nat \ {0}, thres : Nat]
      BY ArrayAssumption DEF Init
<1> QED BY <1>1, <1>2, <1>3 DEF Init, Steady, TypeOK, Cell

\* However a client inserts, overwrites, deletes and resizes, for every trait and
\* whenever Realloc() fails, each element is an object constructed once and not
\* yet destructed, and all of them lie in the storage.
THEOREM ArrayCorrect ==
  Spec => []AliveExact
<1>1. Init => Steady
      BY InitSteady
<1>2. Steady /\ [Next]_vars => Steady'
      BY NextSteady
<1>3. Steady => AliveExact
      BY DEF Steady, AliveExact
<1> QED BY <1>1, <1>2, <1>3, PTL DEF Spec

\* What SpareAfterShrink says of a step.
SpareStep ==
  storage' < storage /\ storage' # 0 /\ trait' = trait /\ eles' < eles =>
    /\ storage' >= eles' + trait.thres
    /\ storage' < eles' + trait.thres + trait.dec

LEMMA NextSpares ==
  ASSUME Steady, [Next]_vars
  PROVE  SpareStep
<1>1. storage \in Nat /\ eles \in Nat
      BY CountsTyped
<1>2. CASE Adds
  <2>1. storage' \in Nat /\ storage <= storage'
        BY <1>2, AddsKeep DEF Steady, TypeOK
  <2> QED BY <1>1, <2>1 DEF SpareStep
<1>3. CASE Takes
      BY <1>3, TakesKeep DEF SpareStep
<1>4. CASE storage' = storage
      BY <1>1, <1>4 DEF SpareStep
<1>5. CASE \E t \in Traits : SetTrait(t)
      BY <1>4, <1>5, SetTraitSound
<1>6. CASE Cleanup \/ MoveAway
      BY <1>6, CleanupSound, MoveAwaySound DEF SpareStep
<1>7. CASE Copy
  <2>1. eles' = eles \/ storage' = 0
        BY <1>7, CopySound DEF Copied, NotCopied
  <2> QED BY <1>1, <2>1 DEF SpareStep
<1>8. CASE UNCHANGED vars
      BY <1>4, <1>8 DEF vars
<1> QED BY <1>2, <1>3, <1>5, <1>6, <1>7, <1>8, NextAmountsTo

\* A deletion that gives storage back leaves the room that DecThres asks for, and
\* less than a whole DecSize more, for every trait.
THEOREM SpareCorrect ==
  Spec => SpareAfterShrink
<1>1. Steady /\ [Next]_vars => [SpareStep]_vars
      BY NextSpares
<1>2. Spec => []Steady
      BY InitSteady, NextSteady, PTL DEF Spec
<1> QED BY <1>1, <1>2, PTL DEF Spec, SpareAfterShrink, SpareStep

--------------------------------------------------------------------------------
(***************************************************************************)
(* No assertion fails, but a copy's that memory is short.  The storage stays a multiple of IncSize because    *)
(* the maximum and DecSize are, and a deletion never calls for more        *)
(* storage than there is because the spare is no more than what was        *)
(* deleted.                                                                *)
(***************************************************************************)
FaultInv ==
  /\ faults \in {{}, {"no copy"}}
  /\ storage % trait.inc = 0
  /\ trait.max % trait.inc = 0 /\ trait.dec % trait.inc = 0
  /\ trait.thres <= 1

\* No trait asks for a spare of more than one element.
SmallSpares ==
  /\ DefTrait.max % DefTrait.inc = 0
  /\ \A t \in Traits \cup {DefTrait} : t.thres <= 1

LEMMA ZeroDivides ==
  ASSUME NEW x \in Nat \ {0}
  PROVE  0 % x = 0
OBVIOUS

\* Nothing is called after an assertion has failed.
LEMMA NothingAfterFault ==
  ASSUME Next
  PROVE  faults = {}
BY Zenon DEF Next, Insert, InsertNone, AppendAt, AppendOneAt, Delete, DeleteMatch, SetEleQuan,
             SetTrait, Cleanup, Copy, MoveAway, Calling

LEMMA NextIsFaultless ==
  ASSUME Steady, FaultInv, [Next]_vars,
         "TraitLate" \notin Calls, "CleanupVacant" \notin Calls, SmallSpares
  PROVE  FaultInv'
<1>0. trait.inc \in Nat \ {0}
      BY NowSound, TraitParts
<1>8. CASE UNCHANGED vars
      BY <1>8 DEF vars, FaultInv
<1> SUFFICES ASSUME Next PROVE FaultInv'
    BY <1>8
<1>9. faults = {}
      BY NothingAfterFault
<1>1. Whole(Now)
      BY <1>9, NowSound DEF Whole, FaultInv
<1>2. CASE Adds
      BY <1>1, <1>2, AddsKeep DEF FaultInv
<1>3. CASE Takes
      BY <1>1, <1>3, TakesKeep DEF FaultInv
<1>4. ASSUME NEW t \in Traits, SetTrait(t) PROVE FaultInv'
  <2>1. UNCHANGED <<storage, faults>>
        BY <1>4, SetTraitSound
  <2>2. CASE UNCHANGED trait
        BY <2>1, <2>2 DEF FaultInv
  <2>3. CASE ~UNCHANGED trait
    <3>1. /\ TraitSound(trait') /\ trait'.max = t.max /\ trait'.inc = t.inc
          /\ trait'.thres = t.thres /\ t.max % t.inc = 0 /\ storage % t.inc = 0
          BY <1>4, <2>3, SetTraitSound
    <3> QED BY <2>1, <3>1 DEF FaultInv, TraitSound, SmallSpares
  <2> QED BY <2>2, <2>3
<1>5. CASE Cleanup
      BY <1>0, <1>5, CleanupSound, ZeroDivides DEF FaultInv
<1>6. CASE Copy
  <2>1. UNCHANGED trait
        BY <1>6, CopySound
  <2>2. CASE Copied
        BY <2>1, <2>2 DEF Copied, FaultInv
  <2>3. CASE NotCopied
        BY <1>0, <1>9, <2>1, <2>3, ZeroDivides DEF NotCopied, FaultInv
  <2> QED BY <1>6, <2>2, <2>3, CopySound
<1>7. CASE MoveAway
  <2>1. DefTrait.inc \in Nat \ {0} /\ DefTrait.dec % DefTrait.inc = 0
        BY ArrayAssumption
  <2> QED BY <1>7, <2>1, MoveAwaySound, ZeroDivides DEF FaultInv, SmallSpares
<1> QED BY <1>2, <1>3, <1>4, <1>5, <1>6, <1>7, <1>8, NextAmountsTo

\* No assertion of the array fails, whenever memory is short, but the one by which
\* a copy says that it is, for traits whose spare is one element at most and clients
\* that neither set a trait the storage does not fit nor clean up an array that kept
\* storage without elements.
THEOREM ArrayFaultless ==
  ASSUME "TraitLate" \notin Calls, "CleanupVacant" \notin Calls,
         SmallSpares
  PROVE  Spec => []NoFault
<1>1. Init => Steady /\ FaultInv
  <2>1. DefTrait.inc \in Nat \ {0} /\ DefTrait.dec % DefTrait.inc = 0
        BY ArrayAssumption
  <2> QED BY <2>1, InitSteady, ZeroDivides DEF Init, FaultInv, SmallSpares
<1>2. Steady /\ FaultInv /\ [Next]_vars => Steady' /\ FaultInv'
      BY NextSteady, NextIsFaultless
<1>3. FaultInv => NoFault
      BY Zenon DEF FaultInv, NoFault
<1> QED BY <1>1, <1>2, <1>3, PTL DEF Spec
--------------------------------------------------------------------------------
(***************************************************************************)
(* The client sees a sequence.  Each call is one step of GrowingArray: the *)
(* elements a call leaves are known, cell by cell, and are compared with   *)
(* what the step asks for.                                                 *)
(***************************************************************************)
Shown == SubSeq(cells, 1, eles)

\* There are no more elements than the trait allows, and the storage is whole
\* increments or the most there may be: the room there is takes what it has room
\* for, without asking for memory.
Fitted ==
  /\ eles <= trait.max
  /\ storage % trait.inc = 0 \/ storage = trait.max
  /\ trait.dec % trait.inc = 0

LEMMA ShownParts ==
  ASSUME Steady
  PROVE  /\ Shown = Seen(Now) /\ Shown \in Seq(Cell) /\ Len(Shown) = eles
         /\ eles \in Nat /\ storage \in Nat
         /\ \A i \in 1..eles : Shown[i] = cells[i]
<1>1. Sound(Now) /\ Now.cells = cells /\ Now.eles = eles
      BY NowSound
<1>2. Shown = Seen(Now)
      BY <1>1 DEF Shown, Seen
<1> QED BY <1>1, <1>2, SeenParts, CountsTyped

LEMMA BecomesShown ==
  ASSUME NEW call, NEW o, Becomes(call, o)
  PROVE  Shown' = Seen(o.a) /\ ret' = [call |-> call, code |-> o.code]
BY DEF Becomes, Shown, Seen

\* A call that has failed.
LEMMA RefuseMaps ==
  ASSUME NEW call, NEW code, code # "ok", ret' = [call |-> call, code |-> code],
         Shown' = Shown, UNCHANGED trait
  PROVE  Array!Refuse
<1>1. ret'.code # "ok"
      BY Zenon
<1> QED BY <1>1 DEF Array!Refuse, Shown

LEMMA RefuseNowMaps ==
  ASSUME Steady, NEW call, NEW code, code # "ok", Becomes(call, Out(code, Now)), UNCHANGED trait
  PROVE  Array!Next
<1> DEFINE o == Out(code, Now)
<1>1. o.code = code /\ Seen(o.a) = Shown
      BY ShownParts DEF Out
<1>2. Becomes(call, o)
      OBVIOUS
<1> HIDE DEF o
<1>3. Shown' = Shown /\ ret' = [call |-> call, code |-> code]
      BY <1>1, <1>2, BecomesShown
<1>4. Array!Refuse
      BY <1>3, RefuseMaps
<1> QED BY <1>4 DEF Array!Next

LEMMA MaxTyped ==
  ASSUME Steady
  PROVE  trait.max \in Nat
BY NowSound, TraitParts

LEMMA InsertMaps ==
  ASSUME Steady, Fitted, NEW pos \in Positions, NEW d \in Given, Insert(pos, d)
  PROVE  Array!Next
<1> DEFINE asked == <<"insert", pos, d>>
<1>1. pos \in Int /\ d \in Seq(Cell)
      BY GivenCells, CountsTyped
<1>2. PICK o \in InsertBefore(Now, pos, d) : Becomes(asked, o)
      BY DEF Insert
<1>3. UNCHANGED trait
      BY DEF Insert
<1>4. /\ Shown = Seen(Now) /\ Shown \in Seq(Cell) /\ Len(Shown) = eles /\ eles \in Nat
      /\ Sound(Now) /\ TraitTyped /\ Now.eles = eles
      BY ShownParts, NowSound
<1>5. \/ d = <<>> /\ o = Out("ok", Now)
      \/ /\ o.code = "ok" /\ pos \in 0 .. eles /\ eles + Len(d) <= trait.max
         /\ Seen(o.a) = Replaced(Shown, pos, 0, d)
      \/ o.code # "ok" /\ Seen(o.a) = Shown
  <2>1. InsertsAll(Now, pos, d, o)
        BY <1>1, <1>4, InsertBeforeSeen
  <2> QED BY <1>4, <2>1 DEF InsertsAll
<1>6. Shown' = Seen(o.a) /\ ret' = [call |-> asked, code |-> o.code]
      BY <1>2, BecomesShown
<1>7. CASE d = <<>> /\ o = Out("ok", Now)
  <2>1. Shown' = Shown /\ ret' = [call |-> <<"insert", pos, <<>>>>, code |-> "ok"]
        BY <1>4, <1>6, <1>7 DEF Out
  <2>2. pos \in -1 .. Len(Shown) + 1
        BY <1>4 DEF Positions
  <2>3. Array!InsertNothing
        BY <1>3, <2>1, <2>2 DEF Array!InsertNothing, Array!Returns, Shown
  <2> QED BY <2>3 DEF Array!Next
<1>8. CASE /\ o.code = "ok" /\ pos \in 0 .. eles /\ eles + Len(d) <= trait.max
           /\ Seen(o.a) = Replaced(Shown, pos, 0, d)
  <2> DEFINE m == 0
             r == Replaced(Shown, pos, m, d)
  <2>1. r = SubSeq(Shown, 1, pos) \o d \o SubSeq(Shown, pos + 1, Len(Shown))
    <3>1. pos + 0 + 1 = pos + 1
          BY <1>1
    <3> QED BY <3>1 DEF Replaced
  <2>2. Len(r) <= trait.max
    <3>1. m \in Nat /\ m = 0 /\ pos \in Nat /\ pos + m <= Len(Shown) /\ Len(d) \in Nat
          BY <1>1, <1>4, <1>8
    <3> HIDE DEF m
    <3>2. IsReplaced(r, Shown, pos, m, d)
          BY <1>1, <1>4, <3>1, ReplacedParts
    <3> HIDE DEF r
    <3>3. Len(r) = (Len(Shown) - m) + Len(d)
          BY <3>2 DEF IsReplaced
    <3> QED BY <1>4, <1>8, <3>1, <3>3
  <2>3. Shown' = r
        BY <1>6, <1>8
  <2> HIDE DEF r
  <2>4. Array!Insert(pos, d)
        BY <1>3, <1>6, <1>8, <2>1, <2>2, <2>3 DEF Array!Insert, Array!Returns, Array!Becomes, Shown
  <2>5. pos \in 0 .. Len(Shown)
        BY <1>4, <1>8
  <2> QED BY <2>4, <2>5 DEF Array!Next, Shown
<1>9. CASE o.code # "ok" /\ Seen(o.a) = Shown
  <2>1. Array!Refuse
        BY <1>3, <1>6, <1>9, RefuseMaps
  <2> QED BY <2>1 DEF Array!Next
<1> QED BY <1>5, <1>7, <1>8, <1>9

LEMMA DeleteMaps ==
  ASSUME Steady, Fitted, NEW pos \in Positions, NEW n \in -1 .. eles + 1, Delete(pos, n)
  PROVE  Array!Next
<1> DEFINE asked == <<"delete", pos, n>>
           e == <<>>
           r == Replaced(Shown, pos, n, e)
<1>1. pos \in Int /\ n \in Int /\ e \in Seq(Cell)
      BY CountsTyped
<1>2. PICK o \in DeleteEles(Now, pos, n) : Becomes(asked, o)
      BY DEF Delete
<1>3. UNCHANGED trait
      BY DEF Delete
<1>4. /\ Shown = Seen(Now) /\ Shown \in Seq(Cell) /\ Len(Shown) = eles /\ eles \in Nat
      /\ Sound(Now) /\ Lively(Now) /\ TraitTyped /\ Now.eles = eles
      BY ShownParts, NowSound
<1>5. \/ /\ o.code = "ok" /\ pos \in 0 .. eles /\ n \in Nat /\ Seen(o.a) = r
      \/ o.code # "ok" /\ Seen(o.a) = Shown
      BY <1>1, <1>4, DeleteElesSeen
<1>6. Shown' = Seen(o.a) /\ ret' = [call |-> asked, code |-> o.code]
      BY <1>2, BecomesShown
<1>7. CASE o.code = "ok" /\ pos \in 0 .. eles /\ n \in Nat /\ Seen(o.a) = r
  <2>1. r = SubSeq(Shown, 1, pos) \o SubSeq(Shown, pos + n + 1, Len(Shown))
    <3>1. SubSeq(Shown, 1, pos) \in Seq(Cell)
          BY <1>4, <1>7, PrefixParts
    <3> DEFINE u == SubSeq(Shown, 1, pos)
    <3> HIDE DEF u
    <3>2. u \o <<>> = u
          BY <3>1 DEF u
    <3> QED BY <3>2 DEF Replaced, u
  <2>2. Len(r) <= trait.max
    <3>1. Thinner(Now, o.a)
          BY <1>1, <1>4, DeleteElesSound
    <3>2. Sound(o.a) /\ o.a.eles <= eles
          BY <1>4, <3>1 DEF Thinner
    <3>3. Len(r) = o.a.eles /\ o.a.eles \in Nat
          BY <1>7, <3>2, SeenParts, ArrayParts
    <3> QED BY <1>4, <3>2, <3>3, MaxTyped DEF Fitted
  <2>3. Shown' = r
        BY <1>6, <1>7
  <2> HIDE DEF r
  <2>4. Array!Delete(pos, n)
        BY <1>3, <1>6, <1>7, <2>1, <2>2, <2>3 DEF Array!Delete, Array!Returns, Array!Becomes, Shown
  <2>5. pos \in 0 .. Len(Shown) /\ n \in 0 .. Len(Shown) + 1
        BY <1>4, <1>7
  <2> QED BY <2>4, <2>5 DEF Array!Next, Shown
<1>8. CASE o.code # "ok" /\ Seen(o.a) = Shown
  <2>1. Array!Refuse
        BY <1>3, <1>6, <1>8, RefuseMaps
  <2> QED BY <2>1 DEF Array!Next
<1> QED BY <1>5, <1>7, <1>8

\* d over the end, in two parts: over the elements first, the rest beyond them.
LEMMA OverInTwo ==
  ASSUME NEW s \in Seq(Cell), NEW d \in Seq(Cell), NEW pos \in Nat, NEW k \in Nat,
         pos + k = Len(s), k < Len(d)
  PROVE  LET over == SubSeq(d, 1, k)
             rest == SubSeq(d, k + 1, Len(d))
             p == Replaced(s, pos, k, over)
             r == Replaced(s, pos, Len(d), d)
         IN  /\ over \in Seq(Cell) /\ Len(over) = k
             /\ rest \in Seq(Cell) /\ Len(rest) = Len(d) - k
             /\ r \in Seq(Cell) /\ Len(r) = pos + Len(d)
             /\ p = SubSeq(r, 1, Len(s))
             /\ Replaced(p, Len(s), 0, rest) = r
<1> DEFINE over == SubSeq(d, 1, k)
           rest == SubSeq(d, k + 1, Len(d))
           p == Replaced(s, pos, k, over)
           r == Replaced(s, pos, k, d)
           n == Len(s)
           z == 0
           q == Replaced(p, n, z, rest)
           c == SubSeq(r, 1, n)
<1>0. Len(d) \in Nat /\ n \in Nat /\ n = pos + k /\ z \in Nat /\ z = 0 /\ pos + k <= Len(s)
      OBVIOUS
<1>1. over \in Seq(Cell) /\ Len(over) = k /\ \A i \in 1..k : over[i] = d[i]
      BY <1>0, PrefixParts
<1>2. /\ rest \in Seq(Cell) /\ Len(rest) = Len(d) - k
      /\ \A i \in 1..Len(d) - k : rest[i] = d[i + k]
      BY <1>0, SuffixParts
<1>3. Replaced(s, pos, Len(d), d) = r
  <2>1. pos <= Len(s) /\ Len(s) <= pos + Len(d) /\ Len(s) - pos = k
        BY <1>0
  <2> QED BY <1>0, <2>1, ReplacedToEnd
<1> HIDE DEF over, rest, z
<1>4. IsReplaced(p, s, pos, k, over) /\ IsReplaced(r, s, pos, k, d)
      BY <1>0, <1>1, ReplacedParts
<1> HIDE DEF p, r
<1>5. /\ p \in Seq(Cell) /\ Len(p) = n
      /\ \A i \in 1..n : p[i] = IF i <= pos THEN s[i] ELSE d[i - pos]
  <2>1. p \in Seq(Cell) /\ Len(p) = n
        BY <1>0, <1>1, <1>4 DEF IsReplaced
  <2>2. ASSUME NEW i \in 1..n PROVE p[i] = IF i <= pos THEN s[i] ELSE d[i - pos]
    <3>1. p[i] = IF i <= pos THEN s[i] ELSE IF i <= pos + k THEN over[i - pos]
                 ELSE s[(i - Len(over)) + k]
          BY <1>0, <1>1, <1>4 DEF IsReplaced
    <3>2. CASE i <= pos
          BY <3>1, <3>2
    <3>3. CASE ~(i <= pos)
      <4>1. i - pos \in 1..k /\ i <= pos + k
            BY <1>0, <3>3
      <4>2. over[i - pos] = d[i - pos]
            BY <1>1, <4>1
      <4> QED BY <3>1, <3>3, <4>1, <4>2
    <3> QED BY <3>2, <3>3
  <2> QED BY <2>1, <2>2
<1>6. /\ r \in Seq(Cell) /\ Len(r) = pos + Len(d)
      /\ \A i \in 1..pos + Len(d) : r[i] = IF i <= pos THEN s[i] ELSE d[i - pos]
  <2>1. r \in Seq(Cell) /\ Len(r) = pos + Len(d)
        BY <1>0, <1>4 DEF IsReplaced
  <2>2. ASSUME NEW i \in 1..pos + Len(d) PROVE r[i] = IF i <= pos THEN s[i] ELSE d[i - pos]
    <3>1. i \in 1..(Len(s) - k) + Len(d) /\ i <= pos + Len(d)
          BY <1>0
    <3> QED BY <1>4, <3>1 DEF IsReplaced
  <2> QED BY <2>1, <2>2
<1>7. p = c
  <2>1. c \in Seq(Cell) /\ Len(c) = n /\ \A i \in 1..n : c[i] = r[i]
        BY <1>0, <1>6, PrefixParts
  <2> HIDE DEF c
  <2>2. ASSUME NEW i \in 1..Len(p) PROVE p[i] = c[i]
    <3>1. i \in 1..n /\ i \in 1..pos + Len(d)
          BY <1>0, <1>5
    <3> QED BY <1>5, <1>6, <2>1, <3>1
  <2> QED BY <1>5, <2>1, <2>2, SameCells
<1>8. q = r
  <2>1. n + z <= Len(p)
        BY <1>0, <1>5
  <2> HIDE DEF n
  <2>2. IsReplaced(q, p, n, z, rest)
        BY <1>0, <1>2, <1>5, <2>1, ReplacedParts
  <2> HIDE DEF q
  <2>3. q \in Seq(Cell) /\ Len(q) = pos + Len(d)
        BY <1>0, <1>2, <1>5, <2>2 DEF IsReplaced
  <2>4. ASSUME NEW i \in 1..Len(q) PROVE q[i] = r[i]
    <3>1. q[i] = IF i <= n THEN p[i] ELSE IF i <= n + Len(rest) THEN rest[i - n]
                 ELSE p[(i - Len(rest)) + z]
      <4>1. i \in 1..(Len(p) - z) + Len(rest)
            BY <1>0, <1>2, <1>5, <2>3
      <4> QED BY <2>2, <4>1 DEF IsReplaced
    <3>2. i \in 1..pos + Len(d)
          BY <2>3
    <3>3. CASE i <= n
      <4>1. i \in 1..n
            BY <1>0, <3>2, <3>3
      <4> QED BY <1>5, <1>6, <3>1, <3>2, <3>3, <4>1
    <3>4. CASE ~(i <= n)
      <4> DEFINE j == i - n
      <4>1. j \in 1..Len(d) - k /\ i <= n + Len(rest) /\ j + k = i - pos /\ ~(i <= pos)
            BY <1>0, <1>2, <3>2, <3>4
      <4> HIDE DEF j
      <4>2. rest[j] = d[j + k]
            BY <1>2, <4>1
      <4> QED BY <1>6, <3>1, <3>2, <3>4, <4>1, <4>2 DEF j
    <3> QED BY <3>3, <3>4
  <2> QED BY <1>6, <2>3, <2>4, SameCells
<1> QED BY <1>1, <1>2, <1>3, <1>6, <1>7, <1>8 DEF over, rest, z, p, r, q, c, n

\* What the abstract calls by which AppendAt() is a step have in common.
LEMMA OverwriteMaps ==
  ASSUME Steady, NEW pos \in 0 .. eles, NEW d \in Given, UNCHANGED trait,
         Shown' = Replaced(Shown, pos, Len(d), d), Len(Shown') <= trait.max,
         ret' = [call |-> <<"append at", pos, d>>, code |-> "ok"]
  PROVE  Array!Next
<1>1. Array!Overwrite(pos, d)
      BY DEF Array!Overwrite, Array!Returns, Array!Becomes, Array!Over, Shown, Replaced
<1>2. pos \in 0 .. Len(Shown)
      BY ShownParts
<1> QED BY <1>1, <1>2 DEF Array!Next, Shown

LEMMA OverwriteShortMaps ==
  ASSUME Steady, NEW pos \in 0 .. eles, NEW d \in Given, UNCHANGED trait, pos + Len(d) > eles,
         Shown' = SubSeq(Replaced(Shown, pos, Len(d), d), 1, Len(Shown)), Len(Shown') <= trait.max,
         ret' = [call |-> <<"append at", pos, d>>, code |-> "no memory"]
  PROVE  Array!Next
<1>0. Len(Shown) = eles
      BY ShownParts
<1>1. Array!OverwriteShort(pos, d)
      BY <1>0 DEF Array!OverwriteShort, Array!Returns, Array!Becomes, Array!Over, Shown, Replaced
<1>2. pos \in 0 .. Len(Shown)
      BY <1>0
<1> QED BY <1>1, <1>2 DEF Array!Next, Shown

\* An append at the end is an overwriting of nothing.
LEMMA AtEndSeen ==
  ASSUME Steady, Fitted, NEW d \in Seq(Cell), NEW o \in InsertBefore(Now, eles, d)
  PROVE  \/ /\ o.code = "ok" /\ Seen(o.a) = Replaced(Shown, eles, Len(d), d)
            /\ Len(Seen(o.a)) <= trait.max
         \/ o.code # "ok" /\ Seen(o.a) = Shown
<1>0. /\ Shown = Seen(Now) /\ Shown \in Seq(Cell) /\ Len(Shown) = eles /\ eles \in Nat
      /\ Sound(Now) /\ TraitTyped /\ Now.eles = eles
      BY ShownParts, NowSound
<1> DEFINE s == Shown
           z == 0
<1>s. s \in Seq(Cell) /\ Len(s) = eles /\ z \in Nat /\ z = 0 /\ Len(d) \in Nat
      BY <1>0
<1>1. InsertsAll(Now, eles, d, o)
      BY <1>0, InsertBeforeSeen
<1>2. Replaced(s, eles, Len(d), d) = Replaced(s, eles, z, d)
  <2>1. eles <= Len(s) /\ Len(s) <= eles + Len(d) /\ Len(s) - eles = z
        BY <1>s
  <2> QED BY <1>0, <1>s, <2>1, ReplacedToEnd
<1>3. CASE d = <<>> /\ o = Out("ok", Now)
  <2>1. Replaced(s, eles, 0, <<>>) = s
        BY <1>0, <1>s, NothingReplaced
  <2>2. o.code = "ok" /\ Seen(o.a) = s
        BY <1>0, <1>3 DEF Out
  <2> HIDE DEF s
  <2>3. Len(s) <= trait.max
        BY <1>s DEF Fitted
  <2>4. Replaced(s, eles, Len(d), d) = s
        BY <1>2, <1>3, <2>1
  <2> QED BY <2>2, <2>3, <2>4 DEF s
<1>4. CASE /\ o.code = "ok" /\ eles \in 0 .. Now.eles /\ Now.eles + Len(d) <= trait.max
           /\ Seen(o.a) = Replaced(Seen(Now), eles, 0, d)
  <2> DEFINE r == Replaced(s, eles, z, d)
  <2>1. Seen(o.a) = r
        BY <1>0, <1>4
  <2> HIDE DEF s, z
  <2>2. IsReplaced(r, s, eles, z, d)
        BY <1>0, <1>s, ReplacedParts
  <2> HIDE DEF r
  <2>3. Len(r) <= trait.max
        BY <1>0, <1>s, <1>4, <2>2 DEF IsReplaced
  <2> QED BY <1>2, <1>4, <2>1, <2>3 DEF r, s
<1>5. CASE o.code # "ok" /\ Seen(o.a) = Seen(Now)
      BY <1>0, <1>5
<1> QED BY <1>1, <1>3, <1>4, <1>5 DEF InsertsAll

LEMMA AppendAtMaps ==
  ASSUME Steady, Fitted, NEW pos \in Positions, NEW d \in Given, AppendAt(pos, d)
  PROVE  Array!Next
<1> DEFINE asked == <<"append at", pos, d>>
           over == SubSeq(d, 1, eles - pos)
           rest == SubSeq(d, eles - pos + 1, Len(d))
           part == CopiedIn(Now, pos, over)
<1>0. /\ Shown = Seen(Now) /\ Shown \in Seq(Cell) /\ Len(Shown) = eles /\ eles \in Nat
      /\ Sound(Now) /\ TraitTyped /\ Now.eles = eles /\ trait.max \in Nat
      BY ShownParts, NowSound, MaxTyped
<1>1. pos \in Int /\ d \in Seq(Cell) /\ Len(d) \in Nat
      BY GivenCells, CountsTyped
<1>2. UNCHANGED trait
      BY DEF AppendAt
<1>3. \/ Becomes(asked, Out("invalid", Now)) \/ Becomes(asked, Out("full", Now))
      \/ pos = eles /\ \E o \in InsertBefore(Now, pos, d) : Becomes(asked, o)
      \/ /\ 0 <= pos /\ pos < eles /\ pos + Len(d) <= eles
         /\ Becomes(asked, Out("ok", CopiedIn(Now, pos, d)))
      \/ /\ 0 <= pos /\ pos < eles /\ pos + Len(d) > eles /\ pos + Len(d) <= trait.max
         /\ \E o \in InsertBefore(part, eles, rest) : Becomes(asked, o)
      BY DEF AppendAt
<1>4. ASSUME NEW code, code # "ok", Becomes(asked, Out(code, Now)) PROVE Array!Next
      BY <1>2, <1>4, RefuseNowMaps
<1>5. CASE pos = eles /\ \E o \in InsertBefore(Now, pos, d) : Becomes(asked, o)
  <2>1. PICK o \in InsertBefore(Now, eles, d) : Becomes(asked, o)
        BY <1>5
  <2>2. \/ /\ o.code = "ok" /\ Seen(o.a) = Replaced(Shown, eles, Len(d), d)
           /\ Len(Seen(o.a)) <= trait.max
        \/ o.code # "ok" /\ Seen(o.a) = Shown
        BY <1>1, AtEndSeen
  <2>3. Shown' = Seen(o.a) /\ ret' = [call |-> asked, code |-> o.code]
        BY <2>1, BecomesShown
  <2>4. CASE /\ o.code = "ok" /\ Seen(o.a) = Replaced(Shown, eles, Len(d), d)
             /\ Len(Seen(o.a)) <= trait.max
    <3>0. pos = eles
          BY <1>5
    <3>1. pos \in 0 .. eles
          BY <1>0, <3>0
    <3>2. /\ Shown' = Replaced(Shown, pos, Len(d), d) /\ Len(Shown') <= trait.max
          /\ ret' = [call |-> <<"append at", pos, d>>, code |-> "ok"]
          BY <2>3, <2>4, <3>0
    <3> QED BY <1>2, <3>1, <3>2, OverwriteMaps
  <2>5. CASE o.code # "ok" /\ Seen(o.a) = Shown
    <3>1. Array!Refuse
          BY <1>2, <2>3, <2>5, RefuseMaps
    <3> QED BY <3>1 DEF Array!Next
  <2> QED BY <2>2, <2>4, <2>5
<1>6. CASE /\ 0 <= pos /\ pos < eles /\ pos + Len(d) <= eles
           /\ Becomes(asked, Out("ok", CopiedIn(Now, pos, d)))
  <2> DEFINE a == CopiedIn(Now, pos, d)
             o == Out("ok", a)
  <2>0. 0 <= pos /\ pos < eles /\ pos + Len(d) <= eles
        BY <1>6, Zenon
  <2>1. pos \in Nat /\ pos + Len(d) <= Now.eles
        BY <1>0, <1>1, <2>0
  <2>2. Seen(a) = Replaced(Shown, pos, Len(d), d) /\ Len(Seen(a)) = eles
    <3>1. Seen(a) = Replaced(Seen(Now), pos, Len(d), d)
          BY <1>0, <1>1, <2>1, CopiedInSeen
    <3>2. Sound(a) /\ a.eles = Now.eles
          BY <1>0, <1>1, <2>1, CopiedInSound
    <3> HIDE DEF a
    <3>3. Len(Seen(a)) = a.eles
          BY <3>2, SeenParts
    <3> QED BY <1>0, <3>1, <3>2, <3>3
  <2> HIDE DEF a
  <2>3. o.code = "ok" /\ o.a = a
        BY DEF Out
  <2>4. Becomes(asked, o)
        BY <1>6 DEF a
  <2> HIDE DEF o
  <2>5. Shown' = Seen(a) /\ ret' = [call |-> asked, code |-> "ok"]
        BY <2>3, <2>4, BecomesShown
  <2>6. pos \in 0 .. eles
        BY <1>0, <1>1, <2>0
  <2>7. Len(Shown') <= trait.max
    <3>1. Len(Seen(a)) <= trait.max
          BY <2>2 DEF Fitted
    <3> QED BY <2>5, <3>1
  <2>8. Shown' = Replaced(Shown, pos, Len(d), d)
        BY <2>2, <2>5
  <2> QED BY <1>2, <2>5, <2>6, <2>7, <2>8, OverwriteMaps
<1>7. CASE /\ 0 <= pos /\ pos < eles /\ pos + Len(d) > eles /\ pos + Len(d) <= trait.max
           /\ \E o \in InsertBefore(part, eles, rest) : Becomes(asked, o)
  <2> DEFINE k == eles - pos
             s == Shown
             v == SubSeq(d, 1, k)
             t == SubSeq(d, k + 1, Len(d))
             p == Replaced(s, pos, k, v)
             r == Replaced(s, pos, Len(d), d)
  <2>0. 0 <= pos /\ pos < eles /\ pos + Len(d) > eles /\ pos + Len(d) <= trait.max
        BY <1>7, Zenon
  <2>1. k \in Nat /\ pos \in Nat /\ pos + k = Len(s) /\ k < Len(d) /\ s \in Seq(Cell)
        /\ pos + k <= Now.eles
        BY <1>0, <1>1, <2>0
  <2>2. PICK o \in InsertBefore(part, eles, rest) : Becomes(asked, o)
        BY <1>7
  <2> HIDE DEF k, s
  <2>3. /\ v \in Seq(Cell) /\ Len(v) = k /\ t \in Seq(Cell) /\ Len(t) = Len(d) - k
        /\ r \in Seq(Cell) /\ Len(r) = pos + Len(d)
        /\ p = SubSeq(r, 1, Len(s)) /\ Replaced(p, Len(s), 0, t) = r
        BY <1>1, <2>1, OverInTwo
  <2>4. over = v /\ rest = t
        BY DEF k
  <2> HIDE DEF v, t
  <2> DEFINE q == CopiedIn(Now, pos, v)
  <2>5. Sound(q) /\ q.eles = eles /\ Seen(q) = p
    <3>1. pos + Len(v) <= Now.eles
          BY <2>1, <2>3
    <3>2. Sound(q) /\ q.eles = Now.eles
          BY <1>0, <2>1, <2>3, <3>1, CopiedInSound
    <3>3. Seen(q) = Replaced(Seen(Now), pos, Len(v), v)
          BY <1>0, <2>1, <2>3, <3>1, CopiedInSeen
    <3> QED BY <1>0, <2>3, <3>2, <3>3 DEF s
  <2>6. o \in InsertBefore(q, eles, t)
        BY <2>2, <2>4
  <2> HIDE DEF over, rest, part, q, p, r
  <2>7. InsertsAll(q, eles, t, o) /\ InsertFails(q, eles, t, o.code)
    <3>1. eles \in Int
          BY <1>0
    <3> QED BY <1>0, <2>3, <2>5, <2>6, <3>1, InsertBeforeSeen
  <2>8. Len(t) > 0 /\ eles + Len(t) = pos + Len(d) /\ eles \in 0 .. eles
    <3>1. Len(t) = Len(d) - k
          BY <2>3
    <3>2. pos + k = eles /\ k \in Nat /\ pos \in Nat /\ k < Len(d)
          BY <1>0, <2>1 DEF s
    <3> QED BY <1>0, <1>1, <3>1, <3>2
  <2>9. o.code \in {"ok", "no memory"}
    <3>1. eles \in 0 .. q.eles /\ q.eles + Len(t) <= trait.max
          BY <2>0, <2>5, <2>8
    <3> QED BY <2>7, <3>1 DEF InsertFails
  <2>10. Shown' = Seen(o.a) /\ ret' = [call |-> asked, code |-> o.code]
        BY <2>2, BecomesShown
  <2>11. pos \in 0 .. eles
        BY <1>0, <1>1, <2>0
  <2>12. t # <<>>
    <3>1. Len(<<>>) = 0
          OBVIOUS
    <3> QED BY <2>8, <3>1
  <2>13. CASE o.code = "ok"
    <3>1. Seen(o.a) = Replaced(Seen(q), eles, 0, t)
          BY <2>7, <2>12, <2>13 DEF InsertsAll
    <3>2. Seen(o.a) = r
          BY <1>0, <2>3, <2>5, <3>1 DEF s
    <3>3. Len(r) <= trait.max
          BY <2>0, <2>3
    <3>4. Shown' = r /\ Len(Shown') <= trait.max
          BY <2>10, <3>2, <3>3
    <3>5. Shown' = Replaced(Shown, pos, Len(d), d)
          BY <3>4 DEF r, s
    <3>6. ret' = [call |-> <<"append at", pos, d>>, code |-> "ok"]
          BY <2>10, <2>13
    <3> QED BY <1>2, <2>11, <3>4, <3>5, <3>6, OverwriteMaps
  <2>14. CASE o.code = "no memory"
    <3>1. Seen(o.a) = Seen(q)
          BY <2>7, <2>12, <2>14 DEF InsertsAll
    <3>2. Shown' = p
          BY <2>5, <2>10, <3>1
    <3>3. Len(p) <= trait.max
      <4>1. Len(p) = eles
            BY <2>5, SeenParts
      <4> QED BY <4>1 DEF Fitted
    <3>4. Len(Shown') <= trait.max
          BY <3>2, <3>3
    <3>5. Shown' = SubSeq(Replaced(Shown, pos, Len(d), d), 1, Len(Shown))
          BY <2>3, <3>2 DEF r, s
    <3>6. ret' = [call |-> <<"append at", pos, d>>, code |-> "no memory"]
          BY <2>10, <2>14
    <3>7. pos + Len(d) > eles
          BY <2>0
    <3> QED BY <1>2, <2>11, <3>4, <3>5, <3>6, <3>7, OverwriteShortMaps
  <2> QED BY <2>9, <2>13, <2>14
<1> QED BY <1>3, <1>4, <1>5, <1>6, <1>7

\* The call that appends one object and says that it has: there is room.
LEMMA AppendOneAtMaps ==
  ASSUME Steady, Fitted, NEW pos \in Positions, NEW v \in Value, AppendOneAt(pos, v),
         "AppendBlind" \notin Calls
  PROVE  Array!Next
<1> DEFINE d == <<v>>
           asked == <<"append at", pos, d>>
<1>0. /\ Shown = Seen(Now) /\ Shown \in Seq(Cell) /\ Len(Shown) = eles /\ eles \in Nat
      /\ Sound(Now) /\ TraitTyped /\ Now.eles = eles /\ Now.storage = storage
      /\ storage \in Nat /\ trait.max \in Nat
      BY ShownParts, NowSound, MaxTyped
<1>1. d \in Given
  <2>1. 1 \in 0 .. MaxGiven
        BY ArrayAssumption
  <2>2. d \in [1..1 -> Value]
        OBVIOUS
  <2> QED BY <2>1, <2>2 DEF Given
<1>2. pos \in Int /\ d \in Seq(Cell) /\ Len(d) = 1
  <2>1. Len(d) = 1
        OBVIOUS
  <2> QED BY <1>1, <2>1, GivenCells, CountsTyped
<1>3. UNCHANGED trait
      BY DEF AppendOneAt
<1>4. \/ Becomes(asked, Out("invalid", Now))
      \/ /\ pos = eles /\ eles < storage /\ eles < trait.max
         /\ \E o \in InsertBefore(Now, pos, d) : Becomes(asked, Out("ok", o.a))
      \/ /\ 0 <= pos /\ pos < eles
         /\ Becomes(asked, Out("ok", CopiedIn(Now, pos, d)))
      BY DEF AppendOneAt
<1> HIDE DEF d
<1>5. CASE Becomes(asked, Out("invalid", Now))
      BY <1>3, <1>5, RefuseNowMaps
<1>6. CASE /\ pos = eles /\ eles < storage /\ eles < trait.max
           /\ \E o \in InsertBefore(Now, pos, d) : Becomes(asked, Out("ok", o.a))
  <2>1. PICK o \in InsertBefore(Now, eles, d) : Becomes(asked, Out("ok", o.a))
        BY <1>6
  <2>2. pos = eles /\ eles < storage /\ eles < trait.max
        BY <1>6, Zenon
  <2>3. InsertFails(Now, eles, d, o.code)
        BY <1>0, <1>2, InsertBeforeSeen
  <2>4. o.code = "ok"
    <3>1. eles \in 0 .. Now.eles /\ Now.eles + Len(d) <= trait.max /\ Now.eles + Len(d) <= Now.storage
          BY <1>0, <1>2, <2>2
    <3>2. Fits(Now)
          BY <1>0 DEF Fits, Fitted
    <3> QED BY <2>3, <3>1, <3>2 DEF InsertFails
  <2>5. /\ Seen(o.a) = Replaced(Shown, eles, Len(d), d)
        /\ Len(Seen(o.a)) <= trait.max
        BY <1>2, <2>4, AtEndSeen
  <2> DEFINE p == Out("ok", o.a)
  <2>6. p.code = "ok" /\ p.a = o.a /\ Becomes(asked, p)
        BY <2>1 DEF Out
  <2> HIDE DEF p
  <2>7. Shown' = Seen(o.a) /\ ret' = [call |-> asked, code |-> "ok"]
        BY <2>6, BecomesShown
  <2>8. pos \in 0 .. eles
        BY <1>0, <2>2
  <2>9. Shown' = Replaced(Shown, pos, Len(d), d) /\ Len(Shown') <= trait.max
        BY <2>2, <2>5, <2>7
  <2> QED BY <1>1, <1>3, <2>7, <2>8, <2>9, OverwriteMaps
<1>7. CASE 0 <= pos /\ pos < eles /\ Becomes(asked, Out("ok", CopiedIn(Now, pos, d)))
  <2> DEFINE a == CopiedIn(Now, pos, d)
             o == Out("ok", a)
  <2>0. 0 <= pos /\ pos < eles
        BY <1>7, Zenon
  <2>1. pos \in Nat /\ pos + Len(d) <= Now.eles /\ pos \in 0 .. eles
        BY <1>0, <1>2, <2>0
  <2>2. Seen(a) = Replaced(Shown, pos, Len(d), d) /\ Len(Seen(a)) = eles
    <3>1. Seen(a) = Replaced(Seen(Now), pos, Len(d), d)
          BY <1>0, <1>2, <2>1, CopiedInSeen
    <3>2. Sound(a) /\ a.eles = Now.eles
          BY <1>0, <1>2, <2>1, CopiedInSound
    <3> HIDE DEF a
    <3>3. Len(Seen(a)) = a.eles
          BY <3>2, SeenParts
    <3> QED BY <1>0, <3>1, <3>2, <3>3
  <2> HIDE DEF a
  <2>3. o.code = "ok" /\ o.a = a
        BY DEF Out
  <2>4. Becomes(asked, o)
        BY <1>7 DEF a
  <2> HIDE DEF o
  <2>5. Shown' = Seen(a) /\ ret' = [call |-> asked, code |-> "ok"]
        BY <2>3, <2>4, BecomesShown
  <2>6. Len(Seen(a)) <= trait.max
        BY <2>2 DEF Fitted
  <2>7. Shown' = Replaced(Shown, pos, Len(d), d) /\ Len(Shown') <= trait.max
        BY <2>2, <2>5, <2>6
  <2> QED BY <1>1, <1>3, <2>1, <2>5, <2>7, OverwriteMaps
<1> QED BY <1>4, <1>5, <1>6, <1>7

\* The elements of s after a change of their number to n.
Resized(s, n, blank) == [i \in 1..n |-> IF i <= Len(s) THEN s[i] ELSE blank]

LEMMA ResizedIs ==
  ASSUME NEW s \in Seq(Cell), NEW t \in Seq(Cell), NEW blank,
         \A i \in 1..Len(t) : t[i] = IF i <= Len(s) THEN s[i] ELSE blank
  PROVE  t = Resized(s, Len(t), blank)
<1>1. t = [i \in 1..Len(t) |-> t[i]]
      OBVIOUS
<1> QED BY <1>1 DEF Resized

LEMMA ResizeMaps ==
  ASSUME Steady, NEW n \in Nat, n <= trait.max, NEW blank \in {Default, Zero}, UNCHANGED trait,
         NEW t \in Seq(Cell), Len(t) = n, Shown' = t,
         \A i \in 1..n : t[i] = IF i <= Len(Shown) THEN Shown[i] ELSE blank,
         ret' = [call |-> <<"resize", n, blank>>, code |-> "ok"]
  PROVE  Array!Next
<1>0. Shown \in Seq(Cell) /\ trait.max \in Nat
      BY ShownParts, MaxTyped
<1>1. t = Resized(Shown, n, blank)
      BY <1>0, ResizedIs
<1>2. Len(Resized(Shown, n, blank)) <= trait.max
      BY <1>1
<1>3. Array!Resize(n, blank)
      BY <1>1, <1>2 DEF Array!Resize, Array!Returns, Array!Becomes, Shown, Resized
<1>4. n \in 0 .. trait.max
      BY <1>0
<1> QED BY <1>3, <1>4 DEF Array!Next

LEMMA SetEleQuanMaps ==
  ASSUME Steady, Fitted, NEW n \in -1 .. eles + MaxGiven, NEW isZeroContent \in BOOLEAN,
         SetEleQuan(n, isZeroContent)
  PROVE  Array!Next
<1> DEFINE blank == IF isZeroContent THEN Zero ELSE Default
           ctor  == ~isZeroContent
           asked == <<"resize", n, blank>>
<1>0. /\ Shown = Seen(Now) /\ Shown \in Seq(Cell) /\ Len(Shown) = eles /\ eles \in Nat
      /\ Sound(Now) /\ Lively(Now) /\ TraitTyped /\ Now.eles = eles /\ trait.max \in Nat
      /\ \A i \in 1..eles : Shown[i] = cells[i] /\ Now.cells = cells
      BY ShownParts, NowSound, MaxTyped
<1>1. n \in Int
      BY <1>0, ArrayAssumption
<1>2. UNCHANGED trait
      BY DEF SetEleQuan
<1>3. blank \in {Default, Zero} /\ ctor \in BOOLEAN /\ Blank(Zero, ctor) = blank
      BY DEF Blank
<1>4. \/ Becomes(asked, Out("invalid", Now)) \/ Becomes(asked, Out("full", Now))
      \/ n = eles /\ Becomes(asked, Out("ok", Now))
      \/ 0 <= n /\ n < eles /\ \E o \in DeleteEles(Now, n, eles - n) : Becomes(asked, o)
      \/ /\ n > eles /\ n <= trait.max
         /\ \E o \in ExtendEles(Now, n, ctor) :
              Becomes(asked, IF isZeroContent THEN [o EXCEPT !.a.alive = @ + (o.a.eles - eles)] ELSE o)
      BY DEF SetEleQuan
<1> HIDE DEF blank
<1>5. ASSUME NEW code, code # "ok", Becomes(asked, Out(code, Now)) PROVE Array!Next
      BY <1>2, <1>5, RefuseNowMaps
<1>6. CASE n = eles /\ Becomes(asked, Out("ok", Now))
  <2> DEFINE o == Out("ok", Now)
             t == Shown
  <2>0. n = eles
        BY <1>6
  <2>1. o.code = "ok" /\ Seen(o.a) = t
        BY <1>0 DEF Out
  <2>2. Becomes(asked, o)
        BY <1>6
  <2> HIDE DEF o
  <2>3. Shown' = t /\ ret' = [call |-> asked, code |-> "ok"]
        BY <2>1, <2>2, BecomesShown
  <2>4. t \in Seq(Cell) /\ Len(t) = n /\ n \in Nat /\ n <= trait.max
        BY <1>0, <2>0 DEF Fitted
  <2>5. ASSUME NEW i \in 1..n PROVE t[i] = IF i <= Len(Shown) THEN Shown[i] ELSE blank
    <3>1. i <= Len(Shown)
          BY <1>0, <2>0
    <3> QED BY <3>1
  <2> QED BY <1>2, <1>3, <2>3, <2>4, <2>5, ResizeMaps
<1>7. CASE 0 <= n /\ n < eles /\ \E o \in DeleteEles(Now, n, eles - n) : Becomes(asked, o)
  <2> DEFINE m == eles - n
             e == <<>>
             s == Shown
             t == Replaced(s, n, m, e)
  <2>0. 0 <= n /\ n < eles
        BY <1>7, Zenon
  <2>1. n \in Nat /\ m \in Nat /\ n + m = Len(s) /\ n + m <= Len(s) /\ n \in 0 .. Now.eles
        BY <1>0, <1>1, <2>0
  <2>2. e \in Seq(Cell) /\ Len(e) = 0
        OBVIOUS
  <2>3. PICK o \in DeleteEles(Now, n, m) : Becomes(asked, o)
        BY <1>7
  <2> HIDE DEF m, s
  <2>4. o.code = "ok" /\ Seen(o.a) = t
    <3>1. n \in Int /\ m \in Int
          BY <2>1
    <3>2. o.code = "ok"
          BY <1>0, <2>1, <3>1, DeleteElesSeen
    <3>3. Seen(o.a) = Replaced(Seen(Now), n, m, <<>>)
          BY <1>0, <3>1, <3>2, DeleteElesSeen
    <3> QED BY <1>0, <3>2, <3>3 DEF s
  <2>5. Shown' = t /\ ret' = [call |-> asked, code |-> "ok"]
        BY <2>3, <2>4, BecomesShown
  <2> HIDE DEF e
  <2>6. IsReplaced(t, s, n, m, e)
        BY <1>0, <2>1, <2>2, ReplacedParts DEF s
  <2> HIDE DEF t
  <2>7. t \in Seq(Cell) /\ Len(t) = n
        BY <1>0, <2>1, <2>2, <2>6 DEF IsReplaced
  <2>8. ASSUME NEW i \in 1..n PROVE t[i] = IF i <= Len(Shown) THEN Shown[i] ELSE blank
    <3>1. i \in 1..(Len(s) - m) + Len(e) /\ i <= n
          BY <1>0, <2>1, <2>2
    <3>2. t[i] = s[i]
          BY <2>6, <3>1 DEF IsReplaced
    <3>3. i <= Len(Shown)
          BY <1>0, <1>1, <2>0
    <3> QED BY <3>2, <3>3 DEF s
  <2>9. n <= trait.max
        BY <1>0, <1>1, <2>0 DEF Fitted
  <2> QED BY <1>2, <1>3, <2>1, <2>5, <2>7, <2>8, <2>9, ResizeMaps
<1>8. CASE /\ n > eles /\ n <= trait.max
           /\ \E o \in ExtendEles(Now, n, ctor) :
                Becomes(asked, IF isZeroContent THEN [o EXCEPT !.a.alive = @ + (o.a.eles - eles)] ELSE o)
  <2>1. PICK o \in ExtendEles(Now, n, ctor) :
          Becomes(asked, IF isZeroContent THEN [o EXCEPT !.a.alive = @ + (o.a.eles - eles)] ELSE o)
        BY <1>8
  <2>2. n > eles /\ n <= trait.max
        BY <1>8, Zenon
  <2>3. n \in Nat
        BY <1>0, <1>1, <2>2
  <2> HIDE DEF ctor
  <2>4. Extended(Now, n, ctor, o.code, o.a) /\ o = Out(o.code, o.a)
        BY <1>0, <1>3, <2>3, ExtendSound
  <2>5. /\ \/ o.code = "ok" /\ n <= Now.eles /\ o.a = Now
           \/ /\ o.code = "ok" /\ Now.eles < n /\ n <= trait.max
              /\ Lengthened(Now, o.a, n, Blank(Zero, ctor))
           \/ o.code = "full" /\ n > trait.max /\ Seen(o.a) = Seen(Now)
           \/ o.code = "no memory" /\ Seen(o.a) = Seen(Now)
        BY <1>0, <1>3, <2>3, ExtendSeen
  <2>6. Sound(o.a)
        BY <2>4 DEF Extended
  <2> DEFINE l == o.a.alive + (o.a.eles - eles)
             b == [o.a EXCEPT !.alive = l]
             p == IF isZeroContent THEN [o EXCEPT !.a.alive = @ + (o.a.eles - eles)] ELSE o
  <2>7. p.code = o.code /\ Seen(p.a) = Seen(o.a)
    <3>1. CASE ~isZeroContent
          BY <3>1
    <3>2. CASE isZeroContent
      <4>1. p.a = b /\ p.code = o.code
            BY <2>4, <3>2 DEF Out
      <4> HIDE DEF l
      <4>2. b.cells = o.a.cells /\ b.eles = o.a.eles
            BY <2>6 DEF Sound, Arrays
      <4> HIDE DEF p, b
      <4> QED BY <4>1, <4>2 DEF Seen
    <3> QED BY <3>1, <3>2
  <2>8. Becomes(asked, p)
        BY <2>1
  <2> HIDE DEF p
  <2>9. Shown' = Seen(o.a) /\ ret' = [call |-> asked, code |-> o.code]
        BY <2>7, <2>8, BecomesShown
  <2>10. CASE o.code # "ok"
    <3>1. Seen(o.a) = Shown
          BY <1>0, <2>5, <2>10, Zenon
    <3>2. Array!Refuse
          BY <1>2, <2>9, <2>10, <3>1, RefuseMaps
    <3> QED BY <3>2 DEF Array!Next
  <2>11. CASE o.code = "ok"
    <3>0. ~(n <= Now.eles)
          BY <1>0, <2>2, <2>3
    <3>1. Lengthened(Now, o.a, n, Blank(Zero, ctor))
          BY <2>5, <2>11, <3>0, Zenon
    <3>2. Lengthened(Now, o.a, n, blank)
          BY <1>3, <3>1, Zenon
    <3> DEFINE t == Seen(o.a)
    <3>3. t \in Seq(Cell) /\ Len(t) = o.a.eles /\ \A i \in 1..o.a.eles : t[i] = o.a.cells[i]
          BY <2>6, SeenParts
    <3> HIDE DEF t
    <3>4. o.a.eles = n /\ Len(t) = n
          BY <3>2, <3>3 DEF Lengthened
    <3>5. ASSUME NEW i \in 1..n PROVE t[i] = IF i <= Len(Shown) THEN Shown[i] ELSE blank
      <4>1. t[i] = IF i <= eles THEN cells[i] ELSE blank
        <5>1. t[i] = o.a.cells[i]
              BY <3>3, <3>4
        <5>2. o.a.cells[i] = IF i <= Now.eles THEN Now.cells[i] ELSE blank
              BY <3>2 DEF Lengthened
        <5>3. Now.cells = cells
              BY NowSound
        <5> QED BY <1>0, <5>1, <5>2, <5>3
      <4>2. CASE i <= eles
        <5>1. Shown[i] = cells[i]
              BY <1>0, <2>3, <4>2
        <5> QED BY <1>0, <4>1, <4>2, <5>1
      <4>3. CASE ~(i <= eles)
            BY <1>0, <4>1, <4>3
      <4> QED BY <4>2, <4>3
    <3>6. Shown' = t /\ ret' = [call |-> <<"resize", n, blank>>, code |-> "ok"]
          BY <2>9, <2>11 DEF t
    <3> QED BY <1>2, <1>3, <2>2, <2>3, <3>3, <3>4, <3>5, <3>6, ResizeMaps
  <2> QED BY <2>10, <2>11
<1> QED BY <1>4, <1>5, <1>6, <1>7, <1>8

LEMMA CleanupMaps ==
  ASSUME Steady, Cleanup
  PROVE  Array!Next
<1>1. storage' = 0 /\ eles' \in Nat /\ eles' <= storage' /\ cells' \in Seq(Cell) /\ UNCHANGED trait
      BY CleanupSound DEF Steady, TypeOK, Cell
<1>2. eles' = 0
      BY <1>1
<1>3. SubSeq(cells', 1, 0) = <<>>
      BY <1>1
<1>4. Shown' = <<>>
      BY <1>2, <1>3 DEF Shown
<1>5. ret' = [call |-> <<"cleanup">>, code |-> "ok"]
      BY DEF Cleanup, Becomes, Out
<1>6. Len(<<>>) <= trait.max
      BY MaxTyped
<1>7. Array!Clear
      BY <1>1, <1>4, <1>5, <1>6 DEF Array!Clear, Array!Returns, Array!Becomes, Shown
<1> QED BY <1>7 DEF Array!Next

LEMMA CopyMaps ==
  ASSUME Steady, Fitted, Copy
  PROVE  Array!Next
<1>0. UNCHANGED trait /\ (Copied \/ NotCopied)
      BY CopySound
<1>1. CASE Copied
  <2>1. /\ SubSeq(cells', 1, eles') = SubSeq(cells, 1, eles)
        /\ ret' = [call |-> <<"copy">>, code |-> "ok"]
        BY <1>1 DEF Copied
  <2>2. Len(SubSeq(cells, 1, eles)) <= trait.max
        BY ShownParts DEF Shown, Fitted
  <2>3. Array!Copy
        BY <1>0, <2>1, <2>2 DEF Array!Copy, Array!Returns, Array!Becomes
  <2> QED BY <2>3 DEF Array!Next
<1>2. CASE NotCopied /\ UNCHANGED <<cells, eles>>
  <2>1. PICK code : code # "ok" /\ ret' = [call |-> <<"copy">>, code |-> code]
        BY <1>2 DEF NotCopied
  <2>2. Array!Refuse
        BY <1>0, <1>2, <2>1, RefuseMaps DEF Shown
  <2> QED BY <2>2 DEF Array!Next
<1>3. CASE NotCopied /\ SubSeq(cells', 1, eles') = <<>>
  <2>1. PICK code : code # "ok" /\ ret' = [call |-> <<"copy">>, code |-> code]
        BY <1>3 DEF NotCopied
  <2>2. ret'.call = <<"copy">> /\ ret'.code # "ok"
        BY <2>1, Zenon
  <2>3. Len(<<>>) <= trait.max
        BY MaxTyped
  <2>4. Array!CopyFails
        BY <1>0, <1>3, <2>2, <2>3 DEF Array!CopyFails, Array!Becomes
  <2> QED BY <2>4 DEF Array!Next
<1> QED BY <1>0, <1>1, <1>2, <1>3 DEF NotCopied

\* Inserting without an array does nothing.
LEMMA InsertNoneMaps ==
  ASSUME Steady, NEW pos \in Positions, InsertNone(pos)
  PROVE  Array!Next
<1>1. PICK code \in {"ok", "invalid"} : Becomes(<<"insert", pos, <<>>>>, Out(code, Now))
      BY DEF InsertNone
<1>2. UNCHANGED trait
      BY DEF InsertNone
<1>3. CASE code = "invalid"
  <2>1. "invalid" # "ok"
        OBVIOUS
  <2> QED BY <1>1, <1>2, <1>3, <2>1, RefuseNowMaps
<1>4. CASE code = "ok"
  <2> DEFINE o == Out("ok", Now)
  <2>1. o.code = "ok" /\ Seen(o.a) = Shown
        BY ShownParts DEF Out
  <2>2. Becomes(<<"insert", pos, <<>>>>, o)
        BY <1>1, <1>4
  <2> HIDE DEF o
  <2>3. Shown' = Shown /\ ret' = [call |-> <<"insert", pos, <<>>>>, code |-> "ok"]
        BY <2>1, <2>2, BecomesShown
  <2>4. pos \in -1 .. Len(Shown) + 1
        BY ShownParts DEF Positions
  <2>5. Array!InsertNothing
        BY <1>2, <2>3, <2>4 DEF Array!InsertNothing, Array!Returns, Shown
  <2> QED BY <2>5 DEF Array!Next
<1> QED BY <1>3, <1>4

LEMMA MoveAwayMaps ==
  ASSUME MoveAway
  PROVE  Array!Next
<1>1. /\ SubSeq(cells', 1, eles') = <<>> /\ trait' = DefTrait
      /\ ret' = [call |-> <<"move">>, code |-> "ok"]
      BY DEF MoveAway
<1>2. DefTrait.max \in Nat
      BY ArrayAssumption
<1>3. Array!GiveUp
      BY <1>1, <1>2 DEF Array!GiveUp, Array!Returns
<1> QED BY <1>3 DEF Array!Next

\* A new maximum is refused if there are more elements than that.
LEMMA SetTraitMaps ==
  ASSUME Steady, NEW t \in Traits, SetTrait(t)
  PROVE  Array!Next
<1>1. UNCHANGED <<cells, eles>> /\ Shown' = Shown
      BY DEF SetTrait, Shown
<1>2. \/ \E code : code # "ok" /\ TraitSaid(code) /\ UNCHANGED trait
      \/ ~BadTrait(Meant(t)) /\ trait' = Meant(t) /\ TraitSaid("ok")
      BY DEF SetTrait
<1>3. CASE \E code : code # "ok" /\ TraitSaid(code) /\ UNCHANGED trait
  <2>1. PICK code : code # "ok" /\ ret' = [call |-> <<"trait">>, code |-> code] /\ UNCHANGED trait
        BY <1>3 DEF TraitSaid
  <2>2. Array!Refuse
        BY <1>1, <2>1, RefuseMaps
  <2> QED BY <2>2 DEF Array!Next
<1>4. CASE ~BadTrait(Meant(t)) /\ trait' = Meant(t) /\ TraitSaid("ok")
  <2>1. ret' = [call |-> <<"trait">>, code |-> "ok"]
        BY <1>4 DEF TraitSaid
  <2>2. ~(trait'.max < eles)
        BY <1>4 DEF BadTrait
  <2>3. trait'.max \in Int
    <3>1. t \in [max : Int, inc : Int, dec : Int, thres : Int]
          BY ArrayAssumption
    <3>2. Meant(t).max = t.max
          BY <3>1 DEF Meant
    <3> QED BY <1>4, <3>1, <3>2
  <2>4. Len(SubSeq(cells, 1, eles)) = eles /\ eles \in Nat
        BY ShownParts DEF Shown
  <2>5. trait'.max >= Len(SubSeq(cells, 1, eles))
        BY <2>2, <2>3, <2>4
  <2>6. Array!NewLimit
        BY <1>1, <2>1, <2>5 DEF Array!NewLimit, Array!Returns
  <2> QED BY <2>6 DEF Array!Next
<1> QED BY <1>2, <1>3, <1>4

(***************************************************************************)
(* DeleteMatch(): after each of its rounds the array is what it was, less  *)
(* some of the elements that equal v.                                      *)
(***************************************************************************)

\* kept says where in s each element of t was, and only v has gone.
Sieves(kept, s, t, v) ==
  /\ kept \in [1..Len(t) -> 1..Len(s)]
  /\ \A i, j \in 1..Len(t) : i < j => kept[i] < kept[j]
  /\ \A i \in 1..Len(s) : s[i] # v => \E j \in 1..Len(t) : kept[j] = i
  /\ \A j \in 1..Len(t) : t[j] = s[kept[j]]

Sieved(s, t, v) == \E kept : Sieves(kept, s, t, v)

LEMMA SievedSame ==
  ASSUME NEW s \in Seq(Cell), NEW v
  PROVE  Sieved(s, s, v)
<1> DEFINE kept == [i \in 1..Len(s) |-> i]
<1>1. Sieves(kept, s, s, v)
      BY DEF Sieves
<1> QED BY <1>1 DEF Sieved

\* One more v goes, the one at i.
LEMMA SievedMore ==
  ASSUME NEW s \in Seq(Cell), NEW t \in Seq(Cell), NEW v, Sieved(s, t, v),
         NEW k \in Nat, k < Len(t), t[k + 1] = v
  PROVE  Sieved(s, Replaced(t, k, 1, <<>>), v)
<1> DEFINE e == <<>>
           m == 1
           u == Replaced(t, k, m, e)
<1>0. Len(s) \in Nat /\ Len(t) \in Nat /\ e \in Seq(Cell) /\ Len(e) = 0 /\ m \in Nat /\ m = 1
      /\ k + m <= Len(t)
      OBVIOUS
<1> HIDE DEF e, m
<1>1. IsReplaced(u, t, k, m, e)
      BY <1>0, ReplacedParts
<1> HIDE DEF u
<1> DEFINE n == Len(t) - 1
<1>2. Len(u) = n /\ n \in Nat
      BY <1>0, <1>1 DEF IsReplaced
<1>3. ASSUME NEW j \in 1..n PROVE u[j] = IF j <= k THEN t[j] ELSE t[j + 1]
  <2>1. j \in 1..(Len(t) - m) + Len(e)
        BY <1>0
  <2>2. u[j] = IF j <= k THEN t[j] ELSE IF j <= k + Len(e) THEN e[j - k] ELSE t[(j - Len(e)) + m]
        BY <1>1, <2>1 DEF IsReplaced
  <2> QED BY <1>0, <2>2
<1>4. PICK kept : Sieves(kept, s, t, v)
      BY DEF Sieved
<1>5. /\ kept \in [1..Len(t) -> 1..Len(s)]
      /\ \A i, j \in 1..Len(t) : i < j => kept[i] < kept[j]
      /\ \A i \in 1..Len(s) : s[i] # v => \E j \in 1..Len(t) : kept[j] = i
      /\ \A j \in 1..Len(t) : t[j] = s[kept[j]]
      BY <1>4 DEF Sieves
<1> DEFINE at(j) == IF j <= k THEN j ELSE j + 1
           left  == [j \in 1..n |-> kept[at(j)]]
<1>6. ASSUME NEW j \in 1..n
      PROVE  /\ at(j) \in 1..Len(t) /\ left[j] = kept[at(j)] /\ u[j] = t[at(j)]
             /\ left[j] \in 1..Len(s)
  <2>1. at(j) \in 1..Len(t) /\ left[j] = kept[at(j)]
        BY <1>0
  <2>2. u[j] = t[at(j)]
        BY <1>3
  <2>3. kept[at(j)] \in 1..Len(s)
        BY <1>5, <2>1
  <2> QED BY <2>1, <2>2, <2>3
<1>7. ASSUME NEW i \in 1..n, NEW j \in 1..n, i < j PROVE left[i] < left[j]
  <2>1. at(i) < at(j)
        BY <1>0, <1>7
  <2>2. at(i) \in 1..Len(t) /\ at(j) \in 1..Len(t) /\ left[i] = kept[at(i)] /\ left[j] = kept[at(j)]
        BY <1>6
  <2> HIDE DEF left, at
  <2> QED BY <1>5, <2>1, <2>2
<1>8. ASSUME NEW i \in 1..Len(s), s[i] # v PROVE \E j \in 1..n : left[j] = i
  <2>1. PICK j \in 1..Len(t) : kept[j] = i
        BY <1>5, <1>8
  <2>2. j # k + 1
    <3>1. t[j] # v
          BY <1>5, <1>8, <2>1
    <3> QED BY <3>1
  <2>3. CASE j <= k
    <3>1. j \in 1..n /\ at(j) = j
          BY <1>0, <2>3
    <3>2. left[j] = i
          BY <1>6, <2>1, <3>1
    <3> QED BY <3>1, <3>2
  <2>4. CASE j > k + 1
    <3>1. j - 1 \in 1..n /\ at(j - 1) = j
          BY <1>0, <2>4
    <3>2. left[j - 1] = i
          BY <1>6, <2>1, <3>1
    <3> QED BY <3>1, <3>2
  <2> QED BY <1>0, <2>2, <2>3, <2>4
<1>9. left \in [1..n -> 1..Len(s)]
      BY <1>6
<1>10. ASSUME NEW j \in 1..n PROVE u[j] = s[left[j]]
  <2>1. t[at(j)] = s[kept[at(j)]]
        BY <1>5, <1>6
  <2> QED BY <1>6, <2>1
<1> HIDE DEF left, at, n
<1>11. Sieves(left, s, u, v)
       BY <1>2, <1>7, <1>8, <1>9, <1>10 DEF Sieves
<1> QED BY <1>11 DEF Sieved, u, e, m

\* An array that DeleteMatch() has worked on.
Sifting(a, v) == Sound(a) /\ Lively(a) /\ Sieved(Shown, Seen(a), v)

LEMMA DeleteMatchSieves ==
  ASSUME Steady, NEW v \in Value, NEW b \in MatchesDeleted(v)
  PROVE  Sifting(b, v)
<1> DEFINE f == CHOOSE g : Rounds(g, eles, v)
<1>0. /\ Sound(Now) /\ Lively(Now) /\ TraitTyped /\ eles \in Nat
      /\ Shown \in Seq(Cell) /\ Shown = Seen(Now)
      BY NowSound, CountsTyped, ShownParts
<1>1. Rounds(f, eles, v)
      BY <1>0, RoundsExist
<1>2. MatchesDeleted(v) = f[eles]
      BY Zenon DEF MatchesDeleted, Rounds, MatchStep
<1> HIDE DEF f
<1> DEFINE S == {i \in Nat : i <= eles => \A a \in f[i] : Sifting(a, v)}
<1>3. 0 \in S
  <2>1. f[0] = {Now}
        BY <1>0, <1>1 DEF Rounds
  <2>2. Sifting(Now, v)
        BY <1>0, SievedSame DEF Sifting
  <2> QED BY <1>0, <2>1, <2>2
<1>4. ASSUME NEW i \in Nat, i \in S PROVE i + 1 \in S
  <2> SUFFICES ASSUME i + 1 <= eles, NEW c \in f[i + 1] PROVE Sifting(c, v)
      OBVIOUS
  <2>1. f[i + 1] = MatchStep(f[i], i + 1, v)
    <3>1. i + 1 \in 0 .. eles /\ i + 1 # 0 /\ (i + 1) - 1 = i
          BY <1>0
    <3> QED BY <1>1, <3>1 DEF Rounds
  <2>2. PICK a \in f[i] : c \in IF i + 1 \in DOMAIN a.cells /\ a.cells[i + 1] = v
                               THEN {o.a : o \in DeleteEles(a, (i + 1) - 1, 1)} ELSE {a}
        BY <2>1 DEF MatchStep
  <2>3. Sifting(a, v)
        BY <1>0, <1>4
  <2>4. CASE c = a
        BY <2>3, <2>4
  <2>5. CASE /\ i + 1 <= a.eles /\ a.cells[i + 1] = v
             /\ \E o \in DeleteEles(a, (i + 1) - 1, 1) : c = o.a
    <3> DEFINE k == (i + 1) - 1
               t == Seen(a)
               m == 1
    <3>1. PICK o \in DeleteEles(a, k, m) : c = o.a
          BY <2>5
    <3>2. Sound(a) /\ Lively(a) /\ Sieved(Shown, t, v)
          BY <2>3 DEF Sifting
    <3>3. i + 1 <= a.eles /\ a.cells[i + 1] = v /\ a.eles \in Nat
          BY <2>5, <3>2, ArrayParts
    <3>4. t \in Seq(Cell) /\ Len(t) = a.eles /\ \A j \in 1..a.eles : t[j] = a.cells[j]
          BY <3>2, SeenParts
    <3> HIDE DEF t
    <3>5. k = i /\ k \in Nat /\ k < Len(t) /\ k \in 0 .. a.eles /\ k \in Int /\ m \in Nat /\ m \in Int
          BY <3>3, <3>4
    <3>6. t[k + 1] = v
      <4>1. i + 1 \in 1..a.eles
            BY <3>3
      <4> QED BY <3>3, <3>4, <3>5, <4>1
    <3> HIDE DEF k
    <3>7. Thinner(a, o.a) /\ o.code = "ok" /\ Seen(o.a) = Replaced(Seen(a), k, m, <<>>)
      <4> HIDE DEF m
      <4>1. Thinner(a, o.a)
            BY <1>0, <3>2, <3>5, DeleteElesSound
      <4>2. o.code = "ok"
            BY <1>0, <3>2, <3>5, DeleteElesSeen
      <4>3. Seen(o.a) = Replaced(Seen(a), k, m, <<>>)
            BY <1>0, <3>2, <3>5, <4>2, DeleteElesSeen
      <4> QED BY <4>1, <4>2, <4>3
    <3>8. Seen(c) = Replaced(t, k, 1, <<>>)
          BY <3>1, <3>7 DEF t
    <3>9. Sieved(Shown, Replaced(t, k, 1, <<>>), v)
          BY <1>0, <3>2, <3>4, <3>5, <3>6, SievedMore
    <3> QED BY <3>1, <3>7, <3>8, <3>9 DEF Thinner, Sifting
  <2>6. CASE ~(i + 1 <= a.eles) /\ \E o \in DeleteEles(a, (i + 1) - 1, 1) : c = o.a
    <3>1. PICK o \in DeleteEles(a, (i + 1) - 1, 1) : c = o.a
          BY <2>6
    <3>2. (i + 1) - 1 = i /\ ~(i < a.eles) /\ a.eles \in Nat
          BY <2>3, <2>6, ArrayParts DEF Sifting
    <3>3. o = Out("invalid", a) \/ o = Out("ok", a)
          BY <3>1, <3>2 DEF DeleteEles
    <3> QED BY <2>3, <3>1, <3>3 DEF Out
  <2> QED BY <2>2, <2>4, <2>5, <2>6
<1> HIDE DEF S
<1>5. eles \in S
  <2>1. Nat \subseteq S
        BY <1>3, <1>4, Induction
  <2> QED BY <1>0, <2>1
<1>6. eles <= eles
      BY <1>0
<1> QED BY <1>2, <1>5, <1>6 DEF S

LEMMA DeleteMatchMaps ==
  ASSUME Steady, Fitted, NEW v \in Value, DeleteMatch(v)
  PROVE  Array!Next
<1>0. /\ Shown \in Seq(Cell) /\ Len(Shown) = eles /\ eles \in Nat /\ trait.max \in Nat
      BY ShownParts, MaxTyped
<1>1. PICK a \in MatchesDeleted(v) : Becomes(<<"delete match", v>>, Out("ok", a))
      BY DEF DeleteMatch
<1>2. UNCHANGED trait
      BY DEF DeleteMatch
<1>3. Sound(a) /\ Sieved(Shown, Seen(a), v)
      BY DeleteMatchSieves DEF Sifting
<1> DEFINE o == Out("ok", a)
           s == Shown
           t == Seen(a)
           n == Len(t)
<1>4. o.a = a /\ o.code = "ok"
      BY DEF Out
<1>5. Becomes(<<"delete match", v>>, o)
      BY <1>1
<1> HIDE DEF o
<1>6. Shown' = t /\ ret' = [call |-> <<"delete match", v>>, code |-> "ok"]
      BY <1>4, <1>5, BecomesShown
<1>7. t \in Seq(Cell) /\ n \in Nat
      BY <1>3, SeenParts
<1>8. PICK kept : Sieves(kept, s, t, v)
      BY <1>3 DEF Sieved
<1> HIDE DEF t
<1>9. /\ kept \in [1..n -> 1..Len(s)]
      /\ \A i, j \in 1..n : i < j => kept[i] < kept[j]
      /\ \A i \in 1..Len(s) : s[i] # v => \E j \in 1..n : kept[j] = i
      /\ \A j \in 1..n : t[j] = s[kept[j]]
      BY <1>8 DEF Sieves
<1>10. n <= eles
  <2>1. PICK call, p : Becomes(call, p) /\ Thinner(Now, p.a)
        BY DeleteMatchTakes DEF Takes
  <2>2. p.a.eles <= eles
        BY <2>1, NowSound DEF Thinner
  <2>3. eles' = p.a.eles /\ eles' = a.eles
        BY <1>4, <1>5, <2>1 DEF Becomes
  <2>4. n = a.eles
        BY <1>3, SeenParts DEF t
  <2> QED BY <2>2, <2>3, <2>4
<1>11. t = [i \in 1..n |-> s[kept[i]]]
  <2>1. t = [i \in 1..n |-> t[i]]
        BY <1>7
  <2> QED BY <1>9, <2>1
<1>12. Len([i \in 1..n |-> s[kept[i]]]) <= trait.max
  <2>1. n <= trait.max
        BY <1>0, <1>7, <1>10 DEF Fitted
  <2> QED BY <1>7, <1>11, <2>1
<1>13. DOMAIN s = 1..Len(s) /\ n \in 0 .. Len(s)
      BY <1>0, <1>7, <1>10
<1> HIDE DEF n
<1>14. kept \in Array!Sifted(n, v)
      BY <1>9, <1>13 DEF Array!Sifted, Shown
<1>15. Array!DeleteSome(v)
  <2>1. Array!Becomes([i \in 1..n |-> s[kept[i]]])
        BY <1>2, <1>6, <1>11, <1>12 DEF Array!Becomes, Shown
  <2>2. Array!Returns(<<"delete match", v>>, "ok")
        BY <1>6 DEF Array!Returns
  <2>3. n \in 0 .. Len(SubSeq(cells, 1, eles))
        BY <1>13 DEF Shown
  <2>4. Array!Becomes([i \in 1..n |-> SubSeq(cells, 1, eles)[kept[i]]])
        BY <2>1 DEF Shown
  <2> QED BY <1>14, <2>2, <2>3, <2>4 DEF Array!DeleteSome
<1> QED BY <1>15 DEF Array!Next

--------------------------------------------------------------------------------
\* No step of a sequence takes it beyond its limit.
LEMMA LimitKept ==
  ASSUME Array!Next, Len(Shown) <= trait.max, trait.max \in Nat
  PROVE  Len(Shown') <= trait'.max
<1>1. ASSUME NEW s, Array!Becomes(s) PROVE Len(Shown') <= trait'.max
      BY <1>1 DEF Array!Becomes, Shown
<1>2. CASE Array!Refuse \/ Array!InsertNothing
      BY <1>2 DEF Array!Refuse, Array!InsertNothing, Shown
<1>3. CASE Array!NewLimit
      BY <1>3 DEF Array!NewLimit, Shown
<1>4. CASE Array!GiveUp
  <2>1. \A m \in Nat : Len(<<>>) <= m
        OBVIOUS
  <2>2. Shown' = <<>> /\ trait'.max \in Nat
        BY <1>4 DEF Array!GiveUp, Shown
  <2> QED BY <2>1, <2>2, Zenon
<1>5. CASE \E pos \in 0 .. Len(Shown), d \in Given :
             Array!Insert(pos, d) \/ Array!Overwrite(pos, d) \/ Array!OverwriteShort(pos, d)
      BY <1>1, <1>5, Zenon DEF Array!Insert, Array!Overwrite, Array!OverwriteShort
<1>6. CASE \E pos, n : Array!Delete(pos, n)
      BY <1>1, <1>6, Zenon DEF Array!Delete
<1>7. CASE \E n, blank : Array!Resize(n, blank)
      BY <1>1, <1>7, Zenon DEF Array!Resize
<1>8. CASE \E v : Array!DeleteSome(v)
      BY <1>1, <1>8, Zenon DEF Array!DeleteSome
<1>9. CASE Array!Clear \/ Array!Copy \/ Array!CopyFails
      BY <1>1, <1>9, Zenon DEF Array!Clear, Array!Copy, Array!CopyFails
<1> QED BY <1>2, <1>3, <1>4, <1>5, <1>6, <1>7, <1>8, <1>9, Zenon DEF Array!Next, Shown

LEMMA NextMaps ==
  ASSUME Steady, Fitted, "AppendBlind" \notin Calls, Next
  PROVE  Array!Next
<1>1. ASSUME NEW pos \in Positions, NEW d \in Given, Insert(pos, d) \/ AppendAt(pos, d)
      PROVE  Array!Next
      BY <1>1, InsertMaps, AppendAtMaps
<1>7. ASSUME NEW pos \in Positions, InsertNone(pos) PROVE Array!Next
      BY <1>7, InsertNoneMaps
<1>2. ASSUME NEW pos \in Positions, NEW v \in Value, AppendOneAt(pos, v) PROVE Array!Next
      BY <1>2, AppendOneAtMaps
<1>3. ASSUME NEW pos \in Positions, NEW n \in -1 .. eles + 1, Delete(pos, n) PROVE Array!Next
      BY <1>3, DeleteMaps
<1>4. ASSUME NEW v \in Value, DeleteMatch(v) PROVE Array!Next
      BY <1>4, DeleteMatchMaps
<1>5. ASSUME NEW n \in -1 .. eles + MaxGiven, NEW isZeroContent \in BOOLEAN,
             SetEleQuan(n, isZeroContent)
      PROVE  Array!Next
      BY <1>5, SetEleQuanMaps
<1>6. ASSUME NEW t \in Traits, SetTrait(t) PROVE Array!Next
      BY <1>6, SetTraitMaps
<1> QED BY <1>1, <1>2, <1>3, <1>4, <1>5, <1>6, <1>7, CleanupMaps, CopyMaps, MoveAwayMaps, Zenon DEF Next

LEMMA InitFitted == Init => Fitted
<1> SUFFICES ASSUME Init PROVE Fitted
    OBVIOUS
<1>1. /\ trait.max \in Nat /\ trait.inc \in Nat \ {0} /\ trait.dec % trait.inc = 0
      BY ArrayAssumption DEF Init
<1>2. 0 % trait.inc = 0
      BY <1>1, ZeroDivides
<1> QED BY <1>1, <1>2 DEF Init, Fitted

LEMMA NextFitted ==
  ASSUME Steady, Fitted, "TraitLate" \notin Calls, "AppendBlind" \notin Calls, Next
  PROVE  Fitted'
<1>0. Steady' /\ trait.inc \in Nat \ {0} /\ trait.max \in Nat
      BY NextSteady, NowSound, TraitParts
<1>1. eles' <= trait'.max
  <2>1. Len(Shown) <= trait.max
        BY ShownParts DEF Fitted
  <2>2. Len(Shown') <= trait'.max
        BY <1>0, <2>1, LimitKept, NextMaps
  <2>3. cells' \in Seq(Cell) /\ eles' \in Nat /\ eles' <= Len(cells')
    <3>1. /\ cells' \in Seq(Cell) /\ eles' \in Nat /\ storage' \in Nat
          /\ eles' <= storage' /\ storage' <= Len(cells')
          BY <1>0 DEF Steady, TypeOK, Cell
    <3> QED BY <3>1
  <2>4. Len(Shown') = eles'
        BY <2>3, PrefixParts DEF Shown
  <2> QED BY <2>2, <2>4
<1>2. Fits(Now) /\ Now.storage = storage
      BY NowSound DEF Fits, Fitted
<1>3. ASSUME UNCHANGED trait, NEW a, Fits(a), storage' = a.storage PROVE Fitted'
      BY <1>1, <1>3 DEF Fits, Fitted
<1>4. CASE Adds
  <2>1. PICK call, o : Becomes(call, o) /\ Fuller(Now, o.a)
        BY <1>4 DEF Adds
  <2> QED BY <1>2, <1>3, <1>4, <2>1 DEF Adds, Fuller, Becomes
<1>5. CASE Takes
  <2>1. PICK call, o : Becomes(call, o) /\ Thinner(Now, o.a)
        BY <1>5 DEF Takes
  <2>2. trait.dec % trait.inc = 0
        BY DEF Fitted
  <2> QED BY <1>2, <1>3, <1>5, <2>1, <2>2 DEF Takes, Thinner, Becomes
<1>6. ASSUME NEW t \in Traits, SetTrait(t) PROVE Fitted'
  <2>1. storage' = storage
        BY <1>6, SetTraitSound
  <2>2. CASE UNCHANGED trait
        BY <1>2, <1>3, <2>1, <2>2
  <2>3. CASE ~UNCHANGED trait
    <3>1. TraitSound(trait') /\ trait'.inc = t.inc /\ storage % t.inc = 0
          BY <1>6, <2>3, SetTraitSound
    <3> QED BY <1>1, <2>1, <3>1 DEF Fitted, TraitSound
  <2> QED BY <2>2, <2>3
<1>7. ASSUME storage' = 0, UNCHANGED trait PROVE Fitted'
      BY <1>0, <1>1, <1>7, ZeroDivides DEF Fitted
<1>8. CASE Cleanup
      BY <1>7, <1>8, CleanupSound
<1>9. CASE Copy
  <2>1. UNCHANGED trait
        BY <1>9, CopySound
  <2>2. CASE Copied
        BY <1>1, <2>1, <2>2 DEF Copied, Fitted
  <2>3. CASE NotCopied
        BY <1>1, <1>7, <2>1, <2>3 DEF NotCopied, Fitted
  <2> QED BY <1>9, <2>2, <2>3, CopySound
<1>10. CASE MoveAway
  <2>1. storage' = 0 /\ trait' = DefTrait
        BY <1>10, MoveAwaySound
  <2>2. DefTrait.inc \in Nat \ {0} /\ DefTrait.dec % DefTrait.inc = 0
        BY ArrayAssumption
  <2> QED BY <1>1, <2>1, <2>2, ZeroDivides DEF Fitted
<1>11. CASE UNCHANGED vars
      BY <1>2, <1>3, <1>11 DEF vars
<1> QED BY <1>4, <1>5, <1>6, <1>8, <1>9, <1>10, <1>11, NextAmountsTo

\* TScalableArray is the sequence of GrowingArray, for every trait, every client
\* and whenever Realloc() fails: what is inserted, overwritten, deleted, resized,
\* copied or moved is what was asked for, blank elements are blank whatever their
\* cells held before, and a call that fails changes nothing, except the
\* overwriting that runs out of memory beyond the end, and the copying that does,
\* which may leave nothing.  The client sets no trait
\* that its storage does not fit, and does not append by the call that returns
\* E_Success whether or not there was room.
THEOREM ArrayIsSequence ==
  ASSUME "TraitLate" \notin Calls, "AppendBlind" \notin Calls
  PROVE  Spec => ImplementsGrowingArray
<1>1. Init => Steady /\ Fitted
      BY InitSteady, InitFitted
<1>2. Steady /\ Fitted /\ [Next]_vars => Steady' /\ Fitted'
  <2>1. CASE UNCHANGED vars
    <3>1. Fitted /\ UNCHANGED vars => Fitted'
          BY DEF vars, Fitted
    <3> QED BY <2>1, <3>1, NextSteady
  <2> QED BY <2>1, NextSteady, NextFitted
<1>3. Init => Array!Init
  <2> SUFFICES ASSUME Init PROVE Array!Init
      OBVIOUS
  <2>1. SubSeq(cells, 1, eles) = <<>>
        BY DEF Init
  <2>2. trait.max \in Nat
        BY ArrayAssumption DEF Init
  <2> QED BY <2>1, <2>2 DEF Init, Array!Init
<1>4. Steady /\ Fitted /\ [Next]_vars => [Array!Next]_(Array!vars)
  <2>1. UNCHANGED vars => UNCHANGED Array!vars
        BY DEF vars, Array!vars
  <2> QED BY <2>1, NextMaps
<1> QED BY <1>1, <1>2, <1>3, <1>4, PTL DEF Spec, ImplementsGrowingArray, Array!Spec
===============================================================================
