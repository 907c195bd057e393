---------------------------- MODULE ScalableArray ----------------------------
(***************************************************************************)
(* TScalableArray (common-include/include/TScalableArray.h), an array of   *)
(* C++ objects whose storage grows by IncSize and shrinks by DecSize, with *)
(* DecThres elements to spare, so that a count that goes up and down does  *)
(* not reallocate each time.  Realloc() may fail.                          *)
(*                                                                         *)
(* `cells' is the block of memory, whose cells beyond the elements hold    *)
(* whatever was there.  It is longer than m_nCurStorage after a shrink     *)
(* that failed.  Counts are small: no int overflows.                       *)
(***************************************************************************)
EXTENDS Integers, Sequences

CONSTANTS
  Value, Default, Zero,  \* a client's values; T()'s; a cell of zero bytes
  DefTrait,   \* the trait of a default-constructed array
  Traits,     \* the arguments SetTrait() is given
  NoMemory,   \* whether memory may be short
  MaxGiven,   \* bound: the most elements one call adds
  Calls       \* the calls this client makes

ASSUME ArrayAssumption ==
  /\ Default \notin Value /\ Zero \notin Value /\ Default # Zero
  /\ DefTrait \in [max : Nat \ {0}, inc : Nat \ {0}, dec : Nat \ {0}, thres : Nat]
  /\ DefTrait.dec % DefTrait.inc = 0
  /\ Traits \subseteq [max : Int, inc : Int, dec : Int, thres : Int]
  /\ NoMemory \in BOOLEAN /\ MaxGiven \in Nat \ {0}

VARIABLES
  cells,     \* *mar_Ele: the allocated block
  storage,   \* m_nCurStorage
  eles,      \* m_nCurEle
  trait,     \* m_nMaxEle, m_nIncSize, m_nDecSize, m_nDecThres
  alive,     \* objects constructed and not yet destructed
  faults,    \* the assertions that have failed: one that says memory was short for
             \* a copy ("no copy"), or another ("assert")
  ret        \* the last call, what it was given and the code it returned

vars == <<cells, storage, eles, trait, alive, faults, ret>>

LowerOf(a, b)   == IF a <= b THEN a ELSE b
HigherOf(a, b)  == IF a >= b THEN a ELSE b
OCC_DIVIDE(n, x) == (n + x - 1) \div x
UP_ROUND(n, x)   == OCC_DIVIDE(n, x) * x

FaultIf(b) == IF b THEN {"assert"} ELSE {}

Init ==
  /\ cells = <<>> /\ storage = 0 /\ eles = 0 /\ alive = 0
  /\ trait = DefTrait /\ faults = {}
  /\ ret = [call |-> <<"new">>, code |-> "ok"]

--------------------------------------------------------------------------------
(***************************************************************************)
(* The functions the calls share, from an array to the set of the arrays   *)
(* they may leave, each with the code they return.                         *)
(***************************************************************************)
Now == [cells |-> cells, storage |-> storage, eles |-> eles, alive |-> alive, faults |-> faults]

Out(code, a) == [code |-> code, a |-> a]

Empty(a) == [a EXCEPT !.cells = <<>>, !.storage = 0, !.eles = 0, !.alive = a.alive - a.eles,
                      !.faults = @ \cup FaultIf(a.cells = <<>> /\ a.storage # 0)]

\* DeleteAllStorage().
DeleteAllStorage(a) == Empty(a)

StorageFor(n) == LowerOf(UP_ROUND(n, trait.inc), trait.max)

\* The block after Realloc() to n cells: the new ones are zeroed.
Grown(a, n) == [i \in 1..n |-> IF i <= a.storage THEN a.cells[i] ELSE Zero]

BlankKept(old, ctor) == IF ctor THEN Default ELSE old   \* mutation: only new storage is zeroed
Blank(old, ctor)     == IF ctor THEN Default ELSE Zero

ExtendEles(a, n, ctor) ==
  LET grows  == StorageFor(n) > a.storage
      block  == IF grows THEN Grown(a, StorageFor(n)) ELSE a.cells
      filled == [i \in DOMAIN block |->
                   IF a.eles < i /\ i <= n THEN Blank(block[i], ctor) ELSE block[i]]
      flt    == a.faults \cup FaultIf(a.storage % trait.inc # 0)
  IN  IF n <= a.eles THEN {Out("ok", a)}
      ELSE IF n > trait.max THEN {Out("full", a)}
      ELSE {Out("ok", [cells |-> filled, storage |-> HigherOf(a.storage, StorageFor(n)),
                       eles |-> n, alive |-> a.alive + (IF ctor THEN n - a.eles ELSE 0),
                       faults |-> flt])}
           \cup (IF NoMemory /\ grows THEN {Out("no memory", [a EXCEPT !.faults = flt])} ELSE {})

\* ShiftDownEles() and CopyInEles(), after ExtendEles() has made room for d.
Inserted(a, pos, d) ==
  [a EXCEPT !.cells = [i \in DOMAIN @ |->
                         IF pos < i /\ i <= pos + Len(d) THEN d[i - pos]
                         ELSE IF pos + Len(d) < i /\ i <= a.eles THEN @[i - Len(d)]
                         ELSE @[i]],
            !.alive = @ + Len(d)]

CopiedIn(a, pos, d) ==
  [a EXCEPT !.cells = [i \in DOMAIN @ |->
                         IF pos < i /\ i <= pos + Len(d) THEN d[i - pos] ELSE @[i]]]

InsertBefore(a, pos, d) ==
  IF d = <<>> THEN {Out("ok", a)}
  ELSE IF pos < 0 \/ pos > a.eles THEN {Out("invalid", a)}
  ELSE {IF o.code = "ok" THEN Out("ok", Inserted(o.a, pos, d)) ELSE o
          : o \in ExtendEles(a, a.eles + Len(d), FALSE)}

DroppedNone(n) == 0       \* mutation: the vanishing elements are not destructed
Dropped(n)     == n

\* ShiftUpEles().
Removed(a, pos, n) ==
  [a EXCEPT !.cells = [i \in DOMAIN @ |->
                         IF pos < i /\ i <= a.eles - n THEN @[i + n] ELSE @[i]],
            !.eles = @ - n, !.alive = @ - Dropped(n)]

\* How many DecSize the storage is to keep.
OccupiedBare(n) == OCC_DIVIDE(n, trait.dec)   \* mutation: nothing to spare
Occupied(n)     == OCC_DIVIDE(n + trait.thres, trait.dec)

\* The end of DeleteEles(): storage that is not needed is given back.  The
\* count goes down even if Realloc() fails.
Shrunk(a) ==
  LET occn == OCC_DIVIDE(a.storage, trait.dec)
      new  == Occupied(a.eles)
      keep == [a EXCEPT !.storage = new * trait.dec]
  IN  IF new > occn THEN {[a EXCEPT !.faults = {"assert"}]}
      ELSE IF new = 0 THEN {Empty(a)}
      ELSE IF new = occn THEN {a}
      ELSE {[keep EXCEPT !.cells = SubSeq(@, 1, new * trait.dec)]}
           \cup (IF NoMemory THEN {keep} ELSE {})

DeleteEles(a, pos, n) ==
  IF n < 0 \/ pos < 0 \/ pos > a.eles THEN {Out("invalid", a)}
  ELSE IF n = 0 \/ pos = a.eles THEN {Out("ok", a)}
  ELSE {Out("ok", s) : s \in Shrunk(Removed(a, pos, LowerOf(n, a.eles - pos)))}

\* DeleteMatch(), from index i on, up to the count it began with: the element
\* that moves to the place of a deleted one is not looked at, and cells are that
\* the elements have left.  DeleteEles() deletes nothing there.  The block may even
\* have shrunk below i: what the code then reads is anything, and does as little.
MatchesDeleted(v) ==
  LET after[i \in 0 .. eles] ==
        IF i = 0 THEN {Now}
        ELSE LET before == after[i - 1]
             IN  UNION {IF i \in DOMAIN a.cells /\ a.cells[i] = v
                        THEN {o.a : o \in DeleteEles(a, i - 1, 1)} ELSE {a} : a \in before}
  IN  after[eles]

--------------------------------------------------------------------------------
(***************************************************************************)
(* The calls.  In a debug build none follows an assertion that failed.     *)
(***************************************************************************)
Calling(call) == call \in Calls /\ faults = {}

Becomes(call, o) ==
  /\ cells' = o.a.cells /\ storage' = o.a.storage /\ eles' = o.a.eles
  /\ alive' = o.a.alive /\ faults' = o.a.faults
  /\ ret' = [call |-> call, code |-> o.code]

Given == UNION {[1..n -> Value] : n \in 0..MaxGiven}

Positions == -1 .. eles + 1

\* InsertBefore() and, at the end, AppendTail().
Insert(pos, d) ==
  /\ Calling("Insert")
  /\ \E o \in InsertBefore(Now, pos, d) : Becomes(<<"insert", pos, d>>, o)
  /\ UNCHANGED trait

\* InsertBefore() without an array does nothing, and says so; with a count below
\* zero it refuses.
InsertNone(pos) ==
  /\ Calling("Insert")
  /\ \E code \in {"ok", "invalid"} : Becomes(<<"insert", pos, <<>>>>, Out(code, Now))
  /\ UNCHANGED trait

\* AppendAt() with an array: the part within the elements first.
AppendAt(pos, d) ==
  LET asked == <<"append at", pos, d>>
      over == SubSeq(d, 1, eles - pos)
      rest == SubSeq(d, eles - pos + 1, Len(d))
  IN  /\ Calling("AppendAt")
      /\ \/ /\ pos < 0 \/ pos > eles
            /\ Becomes(asked, Out("invalid", Now))
         \/ /\ pos = eles
            /\ \E o \in InsertBefore(Now, pos, d) : Becomes(asked, o)
         \/ /\ 0 <= pos /\ pos < eles /\ pos + Len(d) <= eles
            /\ Becomes(asked, Out("ok", CopiedIn(Now, pos, d)))
         \/ /\ 0 <= pos /\ pos < eles /\ pos + Len(d) > trait.max
            /\ Becomes(asked, Out("full", Now))
         \/ /\ 0 <= pos /\ pos < eles /\ pos + Len(d) > eles /\ pos + Len(d) <= trait.max
            /\ \E o \in InsertBefore(CopiedIn(Now, pos, over), eles, rest) : Becomes(asked, o)
      /\ UNCHANGED trait

\* AppendAt() with one object returns E_Success even if it could not append; a
\* client that appends by it without room has "AppendBlind" among its calls.
AppendOneAt(pos, v) ==
  LET asked == <<"append at", pos, <<v>>>> IN
  /\ Calling("AppendOneAt")
  /\ \/ /\ pos < 0 \/ pos > eles
        /\ Becomes(asked, Out("invalid", Now))
     \/ /\ pos = eles /\ ((eles < storage /\ eles < trait.max) \/ "AppendBlind" \in Calls)
        /\ \E o \in InsertBefore(Now, pos, <<v>>) : Becomes(asked, Out("ok", o.a))
     \/ /\ 0 <= pos /\ pos < eles
        /\ Becomes(asked, Out("ok", CopiedIn(Now, pos, <<v>>)))
  /\ UNCHANGED trait

Delete(pos, n) ==
  /\ Calling("Delete")
  /\ \E o \in DeleteEles(Now, pos, n) : Becomes(<<"delete", pos, n>>, o)
  /\ UNCHANGED trait

DeleteMatch(v) ==
  /\ Calling("DeleteMatch")
  /\ \E a \in MatchesDeleted(v) : Becomes(<<"delete match", v>>, Out("ok", a))
  /\ UNCHANGED trait

\* SetEleQuan().  With isZeroContent the client constructs the new objects
\* itself, in the zeroed cells; that is counted here.
SetEleQuan(n, isZeroContent) ==
  LET asked == <<"resize", n, IF isZeroContent THEN Zero ELSE Default>> IN
  /\ Calling("SetEleQuan")
  /\ \/ n < 0 /\ Becomes(asked, Out("invalid", Now))
     \/ n > trait.max /\ Becomes(asked, Out("full", Now))
     \/ n = eles /\ Becomes(asked, Out("ok", Now))
     \/ 0 <= n /\ n < eles /\ \E o \in DeleteEles(Now, n, eles - n) : Becomes(asked, o)
     \/ /\ n > eles /\ n <= trait.max
        /\ \E o \in ExtendEles(Now, n, ~isZeroContent) :
             Becomes(asked, IF isZeroContent THEN [o EXCEPT !.a.alive = @ + (o.a.eles - eles)] ELSE o)
  /\ UNCHANGED trait

\* Cleanup() asserts that there are elements if there is storage; a client
\* that cleans up vacant storage has "CleanupVacant" among its calls.
Cleanup ==
  /\ Calling("Cleanup")
  /\ eles = 0 /\ cells # <<>> => "CleanupVacant" \in Calls
  /\ Becomes(<<"cleanup">>, Out("ok", [DeleteAllStorage(Now) EXCEPT !.faults = @ \cup FaultIf(eles = 0 /\ cells # <<>>)]))
  /\ UNCHANGED trait

\* What SetTrait() refuses.
AnyDec(t)   == FALSE       \* mutation: DecSize need not be a multiple of IncSize
BadDec(t)   == t.dec % t.inc # 0
BadTrait(t) == t.inc <= 0 \/ t.max % t.inc # 0 \/ BadDec(t) \/ t.max < eles

TraitSaid(code) == ret' = [call |-> <<"trait">>, code |-> code]

Meant(t) == [t EXCEPT !.dec = IF @ = 0 THEN t.max ELSE @]

\* SetTrait(), by a client that keeps its storage a multiple of the IncSize it
\* sets, unless it has "TraitLate" among its calls.
SetTrait(t) ==
  /\ Calling("SetTrait")
  /\ \/ /\ t.max <= 0 \/ t.dec < 0 \/ t.thres < 0
        /\ TraitSaid("invalid") /\ UNCHANGED trait
     \/ /\ t.max > 0 /\ t.dec >= 0 /\ t.thres >= 0
        /\ IF BadTrait(Meant(t)) THEN TraitSaid("bad trait") /\ UNCHANGED trait
           ELSE /\ storage % t.inc = 0 \/ "TraitLate" \in Calls
                /\ trait' = Meant(t) /\ TraitSaid("ok")
  /\ UNCHANGED <<cells, storage, eles, alive, faults>>

\* The client goes on with a copy.  When memory is short an assertion fails; built
\* without assertions the copying ends in an exception, and the client goes on with
\* the array it had, or with the one it assigned to, which has been emptied.
Vacant == [cells |-> <<>>, storage |-> 0, eles |-> 0, alive |-> 0, faults |-> {}]

Copy ==
  /\ Calling("Copy")
  /\ \E o \in ExtendEles(Vacant, eles, FALSE) :
       IF o.code = "ok"
       THEN Becomes(<<"copy">>, Out("ok", [CopiedIn(o.a, 0, SubSeq(cells, 1, eles)) EXCEPT !.alive = eles]))
       ELSE \E a \in {[Now EXCEPT !.faults = {"no copy"}], Now, Vacant} :
              Becomes(<<"copy">>, Out(o.code, a))
  /\ UNCHANGED trait

\* The client moves the content to another array and goes on with this one.
MoveAway ==
  /\ Calling("MoveAway")
  /\ cells' = <<>> /\ storage' = 0 /\ eles' = 0 /\ alive' = 0
  /\ trait' = DefTrait /\ ret' = [call |-> <<"move">>, code |-> "ok"]
  /\ UNCHANGED faults

Next ==
  \/ \E pos \in Positions, d \in Given : Insert(pos, d) \/ AppendAt(pos, d)
  \/ \E pos \in Positions : InsertNone(pos)
  \/ \E pos \in Positions, v \in Value : AppendOneAt(pos, v)
  \/ \E pos \in Positions, n \in -1 .. eles + 1 : Delete(pos, n)
  \/ \E v \in Value : DeleteMatch(v)
  \/ \E n \in -1 .. eles + MaxGiven, isZeroContent \in BOOLEAN : SetEleQuan(n, isZeroContent)
  \/ \E t \in Traits : SetTrait(t)
  \/ Cleanup \/ Copy \/ MoveAway

Spec == Init /\ [][Next]_vars

--------------------------------------------------------------------------------
(***************************************************************************)
(* Properties.                                                             *)
(***************************************************************************)

\* The elements lie in the storage, and the storage in the block.
TypeOK ==
  /\ cells \in Seq(Value \cup {Default, Zero})
  /\ eles \in Nat /\ storage \in Nat /\ eles <= storage /\ storage <= Len(cells)
  /\ alive \in Nat
  /\ trait \in [max : Nat \ {0}, inc : Nat \ {0}, dec : Nat \ {0}, thres : Nat]
  /\ faults \subseteq {"assert", "no copy"}
  /\ ret.code \in {"ok", "invalid", "full", "no memory", "bad trait"}

\* No assertion of the array fails, however its count goes up and down and
\* whenever memory is short, but the one by which a copy says that it is: the
\* storage stays a multiple of IncSize, and a deletion never calls for more storage
\* than there is.
NoFault == faults \subseteq {"no copy"}

\* Every element is one object: constructed once before it counts as one, and
\* destructed once when it is dropped ([A] and [B] of the header); and all of
\* them lie in the storage.
AliveExact == TypeOK /\ alive = eles

\* A deletion that gives storage back leaves room for DecThres elements more,
\* "so further append one ele will not cause reallocation", and not for a whole
\* DecSize on top of that.
SpareAfterShrink ==
  [][storage' < storage /\ storage' # 0 /\ trait' = trait /\ eles' < eles =>
       /\ storage' >= eles' + trait.thres
       /\ storage' < eles' + trait.thres + trait.dec]_vars

\* The client sees a sequence: what is inserted, overwritten or deleted is what
\* was asked for, blank elements are blank, and a call that fails changes
\* nothing, except an overwriting that runs out of memory beyond the end.
Array == INSTANCE GrowingArray WITH seq <- SubSeq(cells, 1, eles), limit <- trait.max

ImplementsGrowingArray == Array!Spec
===============================================================================
