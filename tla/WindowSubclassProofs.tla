-------------------------- MODULE WindowSubclassProofs --------------------------
(***************************************************************************)
(* Whatever the procedures of hooked windows do inside one another's       *)
(* calls, no object is freed twice or used after it is freed, and an       *)
(* object, its window's property and its window's chain of procedures      *)
(* agree: the proofs of NoFault and AttachmentsAgree, for any windows,     *)
(* objects, signatures and depth of calls, for clients that do what the    *)
(* header recommends.                                                      *)
(*                                                                         *)
(* The invariant HookInv has three parts: the library's state is Sound;    *)
(* the stack of calls and the objects' counts agree (StackSound); and      *)
(* every object on a window that is being destroyed has been told, or will *)
(* be, by a call under way (WindowSound).  All that the library does to    *)
(* its own state is Gentle: it keeps it sound, leaves the counts as they   *)
(* are, frees no object that a call is under way for, and adds a procedure *)
(* to live windows only.                                                   *)
(***************************************************************************)
EXTENDS WindowSubclass, FiniteSetTheorems, WellFoundedInduction, TLAPS

\* Induction over the numbers, said of a set, so that it has no operator for a
\* parameter.  It rests on what the library says of the strict subsets of a finite
\* set: they get no smaller for ever.
LEMMA Induction ==
  ASSUME NEW S, 0 \in S, \A n \in Nat : n \in S => n + 1 \in S
  PROVE  Nat \subseteq S
  <1> DEFINE T == {1 .. n : n \in Nat \ S}
             R == StrictSubsetOrdering(Nat)
  <1> SUFFICES ASSUME ~(Nat \subseteq S) PROVE FALSE
    OBVIOUS
  <1>0. T # {}
    OBVIOUS
  <1>1. T \subseteq FiniteSubsetsOf(Nat)
    <2>1. \A n \in Nat : 1 .. n \in FiniteSubsetsOf(Nat)
      BY FS_Interval DEF FiniteSubsetsOf
    <2>2. QED
      BY <2>1
  <1>2. PICK x \in T : \A y \in T : ~(<<y, x>> \in R)
    <2> HIDE DEF T, R
    <2>1. QED
      BY <1>0, <1>1, FS_StrictSubsetOrderingWellFounded, WFMin DEF R
  <1>3. PICK m \in Nat \ S : x = 1 .. m
    OBVIOUS
  <1>4. m - 1 \in Nat \ S /\ m \in 1 .. m /\ m \notin 1 .. (m - 1)
    BY <1>3
  <1>5. <<1 .. (m - 1), x>> \in R
    BY <1>3, <1>4 DEF StrictSubsetOrdering
  <1>6. QED
    BY <1>2, <1>4, <1>5

-------------------------------------------------------------------------------
(***************************************************************************)
(* The elements of a sequence that are in a set, by induction over a walk. *)
(***************************************************************************)
\* One step of the walk of Only().
Step(t, x, S) == IF x \in S THEN Append(t, x) ELSE t

\* f is what the walk has kept after each of its first n steps.
Upto(f, n, seq, S) ==
  f = [i \in 0 .. n |-> IF i = 0 THEN <<>> ELSE Step(f[i - 1], seq[i], S)]

\* There is such a walk for every sequence.
LEMMA UptoExists ==
  ASSUME NEW seq, NEW S, NEW n \in Nat
  PROVE  \E f : Upto(f, n, seq, S)
<1> DEFINE T == {k \in Nat : \E f : Upto(f, k, seq, S)}
<1>1. 0 \in T
  <2>1. Upto([i \in 0 .. 0 |-> <<>>], 0, seq, S)
        BY DEF Upto
  <2> QED BY <2>1
<1>2. ASSUME NEW k \in Nat, k \in T PROVE k + 1 \in T
  <2>1. PICK f : Upto(f, k, seq, S)
        BY <1>2
  <2> DEFINE g == [i \in 0 .. k + 1 |-> IF i = k + 1 THEN Step(f[k], seq[k + 1], S) ELSE f[i]]
  <2>2. ASSUME NEW i \in 0 .. k + 1
        PROVE  g[i] = IF i = 0 THEN <<>> ELSE Step(g[i - 1], seq[i], S)
    <3>1. CASE i = k + 1
      <4>1. i - 1 = k /\ g[k] = f[k] /\ i # 0
            BY <3>1
      <4> QED BY <3>1, <4>1
    <3>2. CASE i # k + 1 /\ i # 0
      <4>1. i \in 0 .. k /\ i - 1 \in 0 .. k /\ i - 1 # k + 1
            BY <3>2
      <4>2. f[i] = Step(f[i - 1], seq[i], S)
            BY <2>1, <3>2, <4>1 DEF Upto
      <4>3. g[i] = f[i] /\ g[i - 1] = f[i - 1]
            BY <3>2, <4>1
      <4> QED BY <3>2, <4>2, <4>3
    <3>3. CASE i = 0
      <4>1. f[0] = <<>> /\ 0 # k + 1
            BY <2>1 DEF Upto
      <4> QED BY <3>3, <4>1
    <3> QED BY <3>1, <3>2, <3>3
  <2>3. g = [i \in 0 .. k + 1 |-> g[i]]
        OBVIOUS
  <2> HIDE DEF g
  <2>4. Upto(g, k + 1, seq, S)
        BY <2>2, <2>3, Zenon DEF Upto
  <2> QED BY <2>4
<1> HIDE DEF T
<1>3. Nat \subseteq T
      BY <1>1, <1>2, Induction
<1> QED BY <1>3 DEF T

\* No element occurs twice.
Distinct(seq) == \A i, j \in DOMAIN seq : i # j => seq[i] # seq[j]

\* t is what a walk through the first k of seq has kept.
KeptOf(t, k, seq, S) ==
  /\ t \in Seq(Obj)
  /\ \A i \in 1 .. k : seq[i] \in S => IsOn(seq[i], t)
  /\ \A j \in DOMAIN t : \E i \in 1 .. k : t[j] = seq[i] /\ seq[i] \in S
  /\ Distinct(t)

\* A step keeps what the walk has kept.
LEMMA StepKeeps ==
  ASSUME NEW seq \in Seq(Obj), Distinct(seq), NEW S, NEW k \in Nat, k + 1 <= Len(seq),
         NEW t, KeptOf(t, k, seq, S)
  PROVE  KeptOf(Step(t, seq[k + 1], S), k + 1, seq, S)
<1>1. k + 1 \in 1 .. Len(seq) /\ seq[k + 1] \in Obj /\ t \in Seq(Obj) /\ Len(t) \in Nat
      BY DEF KeptOf
<1>2. CASE seq[k + 1] \notin S
      BY <1>1, <1>2 DEF KeptOf, Step
<1>3. CASE seq[k + 1] \in S
  <2> DEFINE x == seq[k + 1]
             u == Append(t, x)
  <2>1. Step(t, x, S) = u /\ u \in Seq(Obj) /\ Len(u) = Len(t) + 1 /\ u[Len(t) + 1] = x
        /\ \A j \in 1 .. Len(t) : u[j] = t[j]
        BY <1>1, <1>3 DEF Step
  <2>2. \A j \in 1 .. Len(t) : t[j] # x
    <3>1. ASSUME NEW j \in 1 .. Len(t) PROVE t[j] # x
      <4>1. PICK i \in 1 .. k : t[j] = seq[i]
            BY DEF KeptOf
      <4>2. i \in DOMAIN seq /\ k + 1 \in DOMAIN seq /\ i # k + 1
            BY <1>1
      <4> QED BY <4>1, <4>2 DEF Distinct
    <3> QED BY <3>1
  <2> HIDE DEF u
  <2>3. DOMAIN u = 1 .. Len(t) + 1 /\ DOMAIN t = 1 .. Len(t)
        BY <1>1, <2>1
  <2>4. ASSUME NEW i \in 1 .. k + 1, seq[i] \in S PROVE IsOn(seq[i], u)
    <3>1. CASE i = k + 1
          BY <1>1, <2>1, <2>3, <3>1 DEF IsOn
    <3>2. CASE i \in 1 .. k
      <4>1. PICK j \in DOMAIN t : t[j] = seq[i]
            BY <2>4, <3>2 DEF KeptOf, IsOn
      <4> QED BY <1>1, <2>1, <2>3, <4>1 DEF IsOn
    <3> QED BY <3>1, <3>2
  <2>5. ASSUME NEW j \in DOMAIN u PROVE \E i \in 1 .. k + 1 : u[j] = seq[i] /\ seq[i] \in S
    <3>1. CASE j = Len(t) + 1
          BY <1>1, <1>3, <2>1, <3>1
    <3>2. CASE j \in 1 .. Len(t)
          BY <2>1, <2>3, <3>2 DEF KeptOf
    <3> QED BY <1>1, <2>3, <3>1, <3>2
  <2>6. Distinct(u)
        BY <1>1, <2>1, <2>2, <2>3 DEF Distinct, KeptOf
  <2> QED BY <2>1, <2>4, <2>5, <2>6 DEF KeptOf
<1> QED BY <1>2, <1>3

\* Only() keeps the elements of the set, no others, and each once.
LEMMA OnlyKeeps ==
  ASSUME NEW seq \in Seq(Obj), Distinct(seq), NEW S
  PROVE  /\ Only(seq, S) \in Seq(Obj) /\ Distinct(Only(seq, S))
         /\ \A x : IsOn(x, Only(seq, S)) <=> IsOn(x, seq) /\ x \in S
<1> DEFINE n == Len(seq)
           f == CHOOSE g : Upto(g, n, seq, S)
<1>1. n \in Nat
      OBVIOUS
<1>2. Upto(f, n, seq, S)
      BY <1>1, UptoExists
<1>3. Only(seq, S) = f[n]
      BY Zenon DEF Only, Upto, Step
<1> HIDE DEF f
<1> DEFINE T == {k \in Nat : k <= n => KeptOf(f[k], k, seq, S)}
<1>4. 0 \in T
  <2>1. f[0] = <<>>
        BY <1>1, <1>2 DEF Upto
  <2>2. KeptOf(<<>>, 0, seq, S)
    <3>1. <<>> \in Seq(Obj) /\ DOMAIN <<>> = {} /\ 1 .. 0 = {}
          OBVIOUS
    <3> QED BY <3>1 DEF KeptOf, Distinct
  <2> QED BY <2>1, <2>2
<1>5. ASSUME NEW k \in Nat, k \in T PROVE k + 1 \in T
  <2> SUFFICES ASSUME k + 1 <= n PROVE KeptOf(f[k + 1], k + 1, seq, S)
      OBVIOUS
  <2>1. f[k + 1] = Step(f[k], seq[k + 1], S)
    <3>1. k + 1 \in 0 .. n /\ k + 1 # 0 /\ (k + 1) - 1 = k
          BY <1>1
    <3> QED BY <1>2, <3>1 DEF Upto
  <2>2. KeptOf(f[k], k, seq, S)
        BY <1>1, <1>5
  <2> QED BY <2>1, <2>2, StepKeeps
<1> HIDE DEF T
<1>6. Nat \subseteq T
      BY <1>4, <1>5, Induction
<1>7. KeptOf(f[n], n, seq, S)
  <2>1. n \in T /\ n <= n
        BY <1>1, <1>6
  <2> QED BY <2>1 DEF T
<1> QED BY <1>3, <1>7 DEF KeptOf, IsOn

-------------------------------------------------------------------------------
(***************************************************************************)
(* The library's state between its calls, and what Attached() and          *)
(* Detached() do to it.                                                    *)
(***************************************************************************)
\* The fields of an object, with no bound on its count.
Fields == [life : {"unused", "alive", "freed"}, hwnd : Hwnd \cup {NoHwnd},
           name : Name \cup {NoName}, partial : BOOLEAN, recurse : Nat, marks : {0, 1}]

\* The library's state.
States == [props : [Hwnd -> [Name -> Obj \cup {NoObj}]], chain : [Hwnd -> Seq(Obj)],
           objs : [Obj -> Fields], faults : SUBSET {"double free", "use after free", "assert"}]

\* An object that hooks a window is alive, is not to be deleted, and is found.
HooksAgree(s) ==
  \A o \in Obj : s.objs[o].hwnd # NoHwnd =>
    /\ s.objs[o].life = "alive" /\ s.objs[o].marks = 0 /\ s.objs[o].name \in Name
    /\ s.props[s.objs[o].hwnd][s.objs[o].name] = o
    /\ IsOn(o, s.chain[s.objs[o].hwnd])

\* A property names the object that has it.
PropsAgree(s) ==
  \A h \in Hwnd, n \in Name : s.props[h][n] # NoObj =>
    s.objs[s.props[h][n]].hwnd = h /\ s.objs[s.props[h][n]].name = n

\* A procedure on a window belongs to an object that hooks it, once.
ChainsAgree(s) ==
  \A h \in Hwnd : Distinct(s.chain[h]) /\ \A o \in Obj : IsOn(o, s.chain[h]) => s.objs[o].hwnd = h

\* Memory that was never used hooks nothing.
UnusedIsFresh(s) ==
  \A o \in Obj : s.objs[o].life = "unused" =>
    s.objs[o].hwnd = NoHwnd /\ s.objs[o].recurse = 0 /\ s.objs[o].marks = 0

\* The library's state between two of its calls.
Sound(s) ==
  /\ s \in States /\ s.faults = {}
  /\ HooksAgree(s) /\ PropsAgree(s) /\ ChainsAgree(s) /\ UnusedIsFresh(s)

\* The parts of a state have their types.
LEMMA StateParts ==
  ASSUME NEW s \in States
  PROVE  /\ s.props \in [Hwnd -> [Name -> Obj \cup {NoObj}]]
         /\ s.chain \in [Hwnd -> Seq(Obj)] /\ s.objs \in [Obj -> Fields]
         /\ s.faults \in SUBSET {"double free", "use after free", "assert"}
BY DEF States

\* The fields of an object have their types.
LEMMA FieldParts ==
  ASSUME NEW p \in Fields
  PROVE  /\ p.life \in {"unused", "alive", "freed"} /\ p.hwnd \in Hwnd \cup {NoHwnd}
         /\ p.name \in Name \cup {NoName} /\ p.partial \in BOOLEAN /\ p.recurse \in Nat
         /\ p.marks \in {0, 1}
BY DEF Fields

\* A new procedure in front of the others.
LEMMA InFront ==
  ASSUME NEW seq \in Seq(Obj), Distinct(seq), NEW o \in Obj, ~IsOn(o, seq)
  PROVE  LET longer == <<o>> \o seq
         IN  /\ longer \in Seq(Obj) /\ Distinct(longer)
             /\ \A x : IsOn(x, longer) <=> x = o \/ IsOn(x, seq)
<1> DEFINE longer == <<o>> \o seq
<1>1. longer \in Seq(Obj) /\ Len(longer) = Len(seq) + 1 /\ longer[1] = o
      /\ \A i \in 1 .. Len(seq) : longer[i + 1] = seq[i]
      OBVIOUS
<1>2. \A i \in 2 .. Len(seq) + 1 : longer[i] = seq[i - 1] /\ i - 1 \in DOMAIN seq
  <2>1. ASSUME NEW i \in 2 .. Len(seq) + 1 PROVE longer[i] = seq[i - 1] /\ i - 1 \in DOMAIN seq
    <3>1. i - 1 \in 1 .. Len(seq) /\ (i - 1) + 1 = i
          OBVIOUS
    <3> QED BY <1>1, <3>1
  <2> QED BY <2>1
<1> HIDE DEF longer
<1>3. DOMAIN longer = 1 .. Len(seq) + 1 /\ DOMAIN seq = 1 .. Len(seq) /\ Len(seq) \in Nat
      BY <1>1
<1>4. Distinct(longer)
  <2>1. ASSUME NEW i \in DOMAIN longer, NEW j \in DOMAIN longer, i < j PROVE longer[i] # longer[j]
    <3>1. j \in 2 .. Len(seq) + 1 /\ (i = 1 \/ i \in 2 .. Len(seq) + 1)
          BY <1>3, <2>1
    <3>2. CASE i = 1
          BY <1>1, <1>2, <3>1, <3>2 DEF IsOn
    <3>3. CASE i \in 2 .. Len(seq) + 1
      <4>1. i - 1 # j - 1
            BY <2>1, <1>3
      <4> QED BY <1>2, <3>1, <3>3, <4>1 DEF Distinct
    <3> QED BY <3>1, <3>2, <3>3
  <2>2. ASSUME NEW i \in DOMAIN longer, NEW j \in DOMAIN longer, i # j PROVE longer[i] # longer[j]
    <3>1. i < j \/ j < i
          BY <1>3, <2>2
    <3> QED BY <2>1, <3>1
  <2> QED BY <2>2 DEF Distinct
<1>5. ASSUME NEW x PROVE IsOn(x, longer) <=> x = o \/ IsOn(x, seq)
  <2>1. ASSUME NEW i \in DOMAIN longer, longer[i] = x PROVE x = o \/ IsOn(x, seq)
    <3>1. i = 1 \/ i \in 2 .. Len(seq) + 1
          BY <1>3
    <3> QED BY <1>1, <1>2, <2>1, <3>1 DEF IsOn
  <2>2. ASSUME x = o PROVE IsOn(x, longer)
        BY <1>1, <1>3, <2>2 DEF IsOn
  <2>3. ASSUME NEW i \in DOMAIN seq, seq[i] = x PROVE IsOn(x, longer)
    <3>1. i + 1 \in DOMAIN longer /\ longer[i + 1] = x
          BY <1>1, <1>3, <2>3
    <3> QED BY <3>1 DEF IsOn
  <2> QED BY <2>1, <2>2, <2>3 DEF IsOn
<1> QED BY <1>1, <1>4, <1>5 DEF longer

\* The count of deletions asked for goes from 0 to m.
LEMMA MarksAdded ==
  ASSUME NEW p \in Fields, p.marks = 0, NEW m \in {0, 1}
  PROVE  [p EXCEPT !.hwnd = NoHwnd, !.name = NoName, !.marks = p.marks + m]
          = [p EXCEPT !.hwnd = NoHwnd, !.name = NoName, !.marks = m]
<1>1. p.marks + m = m
      OBVIOUS
<1> QED BY <1>1 DEF Fields

\* What Attached() and Detached() change.
AsAttached(s, o, h, n, t) ==
  /\ t \in States /\ t.faults = s.faults
  /\ t.props = [s.props EXCEPT ![h] = [s.props[h] EXCEPT ![n] = o]]
  /\ t.chain = [s.chain EXCEPT ![h] = <<o>> \o s.chain[h]]
  /\ t.objs = [s.objs EXCEPT ![o] = [s.objs[o] EXCEPT !.hwnd = h, !.name = n]]

AsDetached(s, o, h, n, m, t) ==
  /\ t \in States /\ t.faults = s.faults /\ m \in {0, 1}
  /\ t.props = [s.props EXCEPT ![h] = [s.props[h] EXCEPT ![n] = NoObj]]
  /\ t.chain = [s.chain EXCEPT ![h] = Only(s.chain[h], Obj \ {o})]
  /\ t.objs = [s.objs EXCEPT ![o] = [s.objs[o] EXCEPT !.hwnd = NoHwnd, !.name = NoName,
                                                      !.marks = m]]

\* Attached(), one component at a time.
LEMMA AttachedParts ==
  ASSUME NEW s \in States, NEW o \in Obj, NEW h \in Hwnd, NEW n \in Name
  PROVE  AsAttached(s, o, h, n, Attached(s, o, h, n))
<1>1. /\ s.props \in [Hwnd -> [Name -> Obj \cup {NoObj}]]
      /\ s.chain \in [Hwnd -> Seq(Obj)] /\ s.objs \in [Obj -> Fields]
      BY StateParts
<1> DEFINE t == Attached(s, o, h, n)
<1>2. t.faults = s.faults
      BY DEF Attached, States
<1>3. t.props = [s.props EXCEPT ![h] = [s.props[h] EXCEPT ![n] = o]]
      BY DEF Attached, States
<1>4. t.chain = [s.chain EXCEPT ![h] = <<o>> \o s.chain[h]]
      BY DEF Attached, States
<1>5. t.objs = [s.objs EXCEPT ![o] = [s.objs[o] EXCEPT !.hwnd = h, !.name = n]]
      BY <1>1 DEF Attached, States, Fields
<1>6. t = [props |-> t.props, chain |-> t.chain, objs |-> t.objs, faults |-> t.faults]
  <2> DEFINE P == [s.props EXCEPT ![h][n] = o]
             C == [s.chain EXCEPT ![h] = <<o>> \o @]
             O == [s.objs EXCEPT ![o] = [@ EXCEPT !.hwnd = h, !.name = n]]
  <2>1. t = [s EXCEPT !.props = P, !.chain = C, !.objs = O]
        BY Zenon DEF Attached
  <2> HIDE DEF P, C, O, t
  <2> QED BY <2>1 DEF States
<1> HIDE DEF t
<1>7. t.props \in [Hwnd -> [Name -> Obj \cup {NoObj}]]
      BY <1>1, <1>3
<1>8. t.chain \in [Hwnd -> Seq(Obj)]
  <2>1. s.chain[h] \in Seq(Obj) /\ <<o>> \in Seq(Obj)
        BY <1>1
  <2>2. <<o>> \o s.chain[h] \in Seq(Obj)
        BY <2>1
  <2> QED BY <1>1, <1>4, <2>2
<1>9. t.objs \in [Obj -> Fields]
  <2>1. [s.objs[o] EXCEPT !.hwnd = h, !.name = n] \in Fields
        BY <1>1 DEF Fields
  <2> QED BY <1>1, <1>5, <2>1
<1>10. t \in States
      BY <1>2, <1>6, <1>7, <1>8, <1>9, StateParts DEF States
<1>11. AsAttached(s, o, h, n, t)
      BY <1>2, <1>3, <1>4, <1>5, <1>10 DEF AsAttached
<1> QED BY <1>11 DEF t

\* Detached(), one component at a time: its assertions hold.
LEMMA DetachedParts ==
  ASSUME NEW s \in States, NEW o \in Obj, NEW delete \in BOOLEAN, HooksAgree(s),
         ChainsAgree(s), s.objs[o].hwnd # NoHwnd
  PROVE  AsDetached(s, o, s.objs[o].hwnd, s.objs[o].name,
                    IF Mark(s, o, delete) THEN 1 ELSE 0, Detached(s, o, delete))
<1> DEFINE h == s.objs[o].hwnd
           n == s.objs[o].name
           m == IF Mark(s, o, delete) THEN 1 ELSE 0
           t == Detached(s, o, delete)
<1>1. /\ s.props \in [Hwnd -> [Name -> Obj \cup {NoObj}]]
      /\ s.chain \in [Hwnd -> Seq(Obj)] /\ s.objs \in [Obj -> Fields]
      /\ s.faults \in SUBSET {"double free", "use after free", "assert"}
      BY StateParts
<1>2. h \in Hwnd /\ n \in Name /\ s.objs[o].marks = 0 /\ s.props[h][n] = o /\ IsOn(o, s.chain[h])
  <2>1. s.objs[o] \in Fields
        BY <1>1
  <2> QED BY <2>1, FieldParts DEF HooksAgree
<1>3. m \in {0, 1}
      OBVIOUS
<1> DEFINE P == [s.props EXCEPT ![h][n] = NoObj]
           C == [s.chain EXCEPT ![h] = Only(@, Obj \ {o})]
           O == [s.objs EXCEPT ![o] = [@ EXCEPT !.hwnd = NoHwnd, !.name = NoName,
                                                !.marks = s.objs[o].marks + m]]
           F == s.faults \cup FaultIf(~IsOn(o, s.chain[h]) \/ s.props[h][n] # o, "assert")
<1>4. t = [s EXCEPT !.props = P, !.chain = C, !.objs = O, !.faults = F]
      BY Zenon DEF Detached
<1>5. F = s.faults
      BY <1>2 DEF FaultIf
<1>6. O = [s.objs EXCEPT ![o] = [s.objs[o] EXCEPT !.hwnd = NoHwnd, !.name = NoName, !.marks = m]]
  <2> HIDE DEF m
  <2>1. s.objs[o] \in Fields /\ s.objs[o].marks = 0
        BY <1>1, <1>2
  <2> DEFINE p == [s.objs[o] EXCEPT !.hwnd = NoHwnd, !.name = NoName, !.marks = s.objs[o].marks + m]
             q == [s.objs[o] EXCEPT !.hwnd = NoHwnd, !.name = NoName, !.marks = m]
  <2>2. p = q
        BY <1>3, <2>1, MarksAdded
  <2>3. O = [s.objs EXCEPT ![o] = p]
        OBVIOUS
  <2> HIDE DEF p, O
  <2>4. O = [s.objs EXCEPT ![o] = q]
        BY <2>2, <2>3
  <2> QED BY <2>4
<1>7. Only(s.chain[h], Obj \ {o}) \in Seq(Obj)
  <2>1. s.chain[h] \in Seq(Obj) /\ Distinct(s.chain[h])
        BY <1>1, <1>2 DEF ChainsAgree
  <2> QED BY <2>1, OnlyKeeps
<1>8. P \in [Hwnd -> [Name -> Obj \cup {NoObj}]]
      BY <1>1, <1>2
<1>9. C \in [Hwnd -> Seq(Obj)]
      BY <1>1, <1>7
<1>10. O \in [Obj -> Fields]
  <2> HIDE DEF m
  <2>1. s.objs[o] \in Fields
        BY <1>1
  <2>2. [s.objs[o] EXCEPT !.hwnd = NoHwnd, !.name = NoName, !.marks = m] \in Fields
        BY <1>3, <2>1 DEF Fields
  <2> HIDE DEF O
  <2> QED BY <1>1, <1>6, <2>2
<1>11. P = [s.props EXCEPT ![h] = [s.props[h] EXCEPT ![n] = NoObj]]
       OBVIOUS
<1>12. C = [s.chain EXCEPT ![h] = Only(s.chain[h], Obj \ {o})]
       OBVIOUS
<1> HIDE DEF P, C, O, F, t
<1>13. t = [props |-> P, chain |-> C, objs |-> O, faults |-> F]
       BY <1>4 DEF States
<1>14. t \in States
       BY <1>1, <1>5, <1>8, <1>9, <1>10, <1>13 DEF States
<1>15. t.props = P /\ t.chain = C /\ t.objs = O /\ t.faults = F
       BY <1>13
<1> HIDE DEF m, h, n
<1>16. t.objs = [s.objs EXCEPT ![o] = [s.objs[o] EXCEPT !.hwnd = NoHwnd, !.name = NoName, !.marks = m]]
       BY <1>6, <1>15
<1>17. AsDetached(s, o, h, n, m, t)
       BY <1>3, <1>5, <1>11, <1>12, <1>14, <1>15, <1>16 DEF AsDetached
<1> QED BY <1>17 DEF m, h, n, t

-------------------------------------------------------------------------------
(***************************************************************************)
(* The library's steps are gentle.                                         *)
(***************************************************************************)
\* What a sound state is made of.
LEMMA SoundParts ==
  ASSUME NEW s, Sound(s)
  PROVE  /\ s \in States /\ s.faults = {}
         /\ HooksAgree(s) /\ PropsAgree(s) /\ ChainsAgree(s) /\ UnusedIsFresh(s)
         /\ s.props \in [Hwnd -> [Name -> Obj \cup {NoObj}]]
         /\ s.chain \in [Hwnd -> Seq(Obj)] /\ s.objs \in [Obj -> Fields]
BY StateParts DEF Sound

\* What a call may do to the objects while others are under way.
Gentle(s, t) ==
  /\ Sound(t)
  /\ \A x \in Obj :
       /\ t.objs[x].recurse = s.objs[x].recurse
       /\ s.objs[x].life = "alive" /\ s.objs[x].recurse # 0 => t.objs[x].life = "alive"
  /\ \A h \in Hwnd, x \in Obj :
       IsOn(x, t.chain[h]) => IsOn(x, s.chain[h]) \/ windows[h] = "live"

\* Two gentle steps make a gentle one.
LEMMA GentleTransitive ==
  ASSUME NEW r, NEW s, NEW t, Gentle(r, s), Gentle(s, t)
  PROVE  Gentle(r, t)
BY DEF Gentle

\* Doing nothing is gentle.
LEMMA SameIsGentle ==
  ASSUME NEW s, Sound(s)
  PROVE  Gentle(s, s)
BY DEF Gentle

\* Hooking a live window is gentle.
LEMMA AttachedGentle ==
  ASSUME NEW s, Sound(s), NEW o \in Obj, NEW h \in Hwnd, NEW n \in Name,
         s.objs[o].life = "alive", s.objs[o].marks = 0, s.objs[o].hwnd = NoHwnd,
         s.props[h][n] = NoObj, windows[h] = "live"
  PROVE  LET t == Attached(s, o, h, n)
         IN  Gentle(s, t) /\ t.objs[o].life = "alive"
<1> DEFINE t == Attached(s, o, h, n)
<1>1. /\ s \in States /\ s.faults = {}
      /\ HooksAgree(s) /\ PropsAgree(s) /\ ChainsAgree(s) /\ UnusedIsFresh(s)
      /\ s.props \in [Hwnd -> [Name -> Obj \cup {NoObj}]]
      /\ s.chain \in [Hwnd -> Seq(Obj)] /\ s.objs \in [Obj -> Fields]
      BY SoundParts
<1>2. /\ t \in States /\ t.faults = s.faults
      /\ t.props = [s.props EXCEPT ![h] = [s.props[h] EXCEPT ![n] = o]]
      /\ t.chain = [s.chain EXCEPT ![h] = <<o>> \o s.chain[h]]
      /\ t.objs = [s.objs EXCEPT ![o] = [s.objs[o] EXCEPT !.hwnd = h, !.name = n]]
  <2>1. AsAttached(s, o, h, n, t)
        BY <1>1, AttachedParts
  <2> HIDE DEF t
  <2> QED BY <2>1 DEF AsAttached
<1> HIDE DEF t
<1>3. \A x \in Obj : x # o => t.objs[x] = s.objs[x]
      BY <1>1, <1>2
<1>4. /\ t.objs[o].hwnd = h /\ t.objs[o].name = n /\ t.objs[o].life = "alive"
      /\ t.objs[o].marks = 0 /\ t.objs[o].recurse = s.objs[o].recurse
  <2>1. s.objs[o] \in Fields
        BY <1>1
  <2>2. t.objs[o] = [s.objs[o] EXCEPT !.hwnd = h, !.name = n]
        BY <1>1, <1>2
  <2> QED BY <2>1, <2>2 DEF Fields
<1>5. \A g \in Hwnd, m \in Name : t.props[g][m] = IF g = h /\ m = n THEN o ELSE s.props[g][m]
  <2>1. ASSUME NEW g \in Hwnd, NEW m \in Name
        PROVE  t.props[g][m] = IF g = h /\ m = n THEN o ELSE s.props[g][m]
    <3>1. CASE g = h
          BY <1>1, <1>2, <3>1
    <3>2. CASE g # h
          BY <1>1, <1>2, <3>2
    <3> QED BY <3>1, <3>2
  <2> QED BY <2>1
<1>6. ~IsOn(o, s.chain[h])
  <2>1. h # NoHwnd
        BY SubclassAssumption
  <2> QED BY <1>1, <2>1 DEF ChainsAgree
<1>7. Distinct(t.chain[h]) /\ \A x : IsOn(x, t.chain[h]) <=> x = o \/ IsOn(x, s.chain[h])
  <2>1. s.chain[h] \in Seq(Obj) /\ Distinct(s.chain[h])
        BY <1>1 DEF ChainsAgree
  <2>2. t.chain[h] = <<o>> \o s.chain[h]
        BY <1>1, <1>2
  <2> QED BY <1>6, <2>1, <2>2, InFront
<1>8. \A g \in Hwnd : g # h => t.chain[g] = s.chain[g]
      BY <1>1, <1>2
<1>9. HooksAgree(t)
  <2>1. ASSUME NEW x \in Obj, t.objs[x].hwnd # NoHwnd, x # o
        PROVE  /\ t.objs[x].life = "alive" /\ t.objs[x].marks = 0 /\ t.objs[x].name \in Name
               /\ t.props[t.objs[x].hwnd][t.objs[x].name] = x
               /\ IsOn(x, t.chain[t.objs[x].hwnd])
    <3>1. /\ t.objs[x] = s.objs[x] /\ s.objs[x].hwnd \in Hwnd /\ s.objs[x].name \in Name
          /\ s.objs[x].life = "alive" /\ s.objs[x].marks = 0
          /\ s.props[s.objs[x].hwnd][s.objs[x].name] = x /\ IsOn(x, s.chain[s.objs[x].hwnd])
          BY <1>1, <1>3, <2>1, FieldParts DEF HooksAgree
    <3>2. x # NoObj
          BY SubclassAssumption
    <3>3. t.props[s.objs[x].hwnd][s.objs[x].name] = x
          BY <1>5, <3>1, <3>2
    <3>4. IsOn(x, t.chain[s.objs[x].hwnd])
          BY <1>7, <1>8, <3>1
    <3> QED BY <3>1, <3>3, <3>4
  <2>2. t.props[h][n] = o /\ IsOn(o, t.chain[h])
        BY <1>5, <1>7
  <2> QED BY <1>4, <2>1, <2>2 DEF HooksAgree
<1>10. PropsAgree(t)
  <2>1. ASSUME NEW g \in Hwnd, NEW m \in Name, t.props[g][m] # NoObj
        PROVE  t.objs[t.props[g][m]].hwnd = g /\ t.objs[t.props[g][m]].name = m
    <3>1. CASE g = h /\ m = n
          BY <1>4, <1>5, <3>1
    <3>2. CASE ~(g = h /\ m = n)
      <4> DEFINE x == s.props[g][m]
      <4>1. t.props[g][m] = x /\ x \in Obj
            BY <1>1, <1>5, <2>1, <3>2
      <4>2. s.objs[x].hwnd = g /\ s.objs[x].name = m
            BY <1>1, <2>1, <4>1 DEF PropsAgree
      <4>3. x # o
            BY <4>2, SubclassAssumption
      <4> QED BY <1>3, <4>1, <4>2, <4>3
    <3> QED BY <3>1, <3>2
  <2> QED BY <2>1 DEF PropsAgree
<1>11. ChainsAgree(t)
  <2>1. ASSUME NEW g \in Hwnd, NEW x \in Obj, IsOn(x, t.chain[g]) PROVE t.objs[x].hwnd = g
    <3>1. CASE g = h /\ x = o
          BY <1>4, <3>1
    <3>2. CASE ~(g = h /\ x = o)
      <4>1. IsOn(x, s.chain[g])
            BY <1>7, <1>8, <2>1, <3>2
      <4>2. s.objs[x].hwnd = g
            BY <1>1, <4>1 DEF ChainsAgree
      <4>3. x # o
            BY <4>2, SubclassAssumption
      <4> QED BY <1>3, <4>2, <4>3
    <3> QED BY <3>1, <3>2
  <2>2. ASSUME NEW g \in Hwnd PROVE Distinct(t.chain[g])
        BY <1>1, <1>7, <1>8 DEF ChainsAgree
  <2> QED BY <2>1, <2>2 DEF ChainsAgree
<1>12. UnusedIsFresh(t)
       BY <1>1, <1>3, <1>4 DEF UnusedIsFresh
<1>13. Sound(t)
       BY <1>1, <1>2, <1>9, <1>10, <1>11, <1>12 DEF Sound
<1>14. \A x \in Obj : t.objs[x].recurse = s.objs[x].recurse /\ t.objs[x].life = s.objs[x].life
       BY <1>3, <1>4
<1>15. \A g \in Hwnd, x \in Obj : IsOn(x, t.chain[g]) => IsOn(x, s.chain[g]) \/ windows[g] = "live"
       BY <1>7, <1>8
<1>16. Gentle(s, t)
       BY <1>13, <1>14, <1>15 DEF Gentle
<1> QED BY <1>4, <1>16 DEF t

\* Detaching from a window, with no object deleted yet.
LEMMA DetachedGentle ==
  ASSUME NEW s, Sound(s), NEW o \in Obj, NEW delete \in BOOLEAN, s.objs[o].hwnd # NoHwnd
  PROVE  LET t == Detached(s, o, delete)
         IN  /\ Gentle(s, t)
             /\ t.objs[o].life = "alive" /\ t.objs[o].hwnd = NoHwnd
             /\ t.objs[o].partial = s.objs[o].partial
             /\ t.objs[o].marks = IF Mark(s, o, delete) THEN 1 ELSE 0
             /\ \A h \in Hwnd : ~IsOn(o, t.chain[h])
<1> DEFINE t == Detached(s, o, delete)
           h == s.objs[o].hwnd
           n == s.objs[o].name
           mark == IF Mark(s, o, delete) THEN 1 ELSE 0
<1>1. /\ s \in States /\ s.faults = {}
      /\ HooksAgree(s) /\ PropsAgree(s) /\ ChainsAgree(s) /\ UnusedIsFresh(s)
      /\ s.props \in [Hwnd -> [Name -> Obj \cup {NoObj}]]
      /\ s.chain \in [Hwnd -> Seq(Obj)] /\ s.objs \in [Obj -> Fields]
      BY SoundParts
<1>2. /\ t \in States /\ t.faults = s.faults
      /\ t.props = [s.props EXCEPT ![h] = [s.props[h] EXCEPT ![n] = NoObj]]
      /\ t.chain = [s.chain EXCEPT ![h] = Only(s.chain[h], Obj \ {o})]
      /\ t.objs = [s.objs EXCEPT ![o] = [s.objs[o] EXCEPT !.hwnd = NoHwnd, !.name = NoName,
                                                          !.marks = mark]]
      /\ mark \in {0, 1}
  <2>1. AsDetached(s, o, h, n, mark, t)
        BY <1>1, DetachedParts
  <2> HIDE DEF t, mark, h, n
  <2> QED BY <2>1 DEF AsDetached
<1>3. h \in Hwnd /\ n \in Name /\ s.objs[o].life = "alive" /\ s.props[h][n] = o
      BY <1>1, FieldParts DEF HooksAgree
<1> HIDE DEF t, mark, h, n
<1>4. \A x \in Obj : x # o => t.objs[x] = s.objs[x]
      BY <1>1, <1>2
<1>5. /\ t.objs[o].hwnd = NoHwnd /\ t.objs[o].life = "alive" /\ t.objs[o].marks = mark
      /\ t.objs[o].recurse = s.objs[o].recurse /\ t.objs[o].partial = s.objs[o].partial
  <2>1. s.objs[o] \in Fields
        BY <1>1
  <2>2. t.objs[o] = [s.objs[o] EXCEPT !.hwnd = NoHwnd, !.name = NoName, !.marks = mark]
        BY <1>1, <1>2
  <2> QED BY <1>2, <1>3, <2>1, <2>2 DEF Fields
<1>6. \A g \in Hwnd, m \in Name : t.props[g][m] = IF g = h /\ m = n THEN NoObj ELSE s.props[g][m]
  <2>1. ASSUME NEW g \in Hwnd, NEW m \in Name
        PROVE  t.props[g][m] = IF g = h /\ m = n THEN NoObj ELSE s.props[g][m]
    <3>1. CASE g = h
          BY <1>1, <1>2, <1>3, <3>1
    <3>2. CASE g # h
          BY <1>1, <1>2, <1>3, <3>2
    <3> QED BY <3>1, <3>2
  <2> QED BY <2>1
<1>7. Distinct(t.chain[h]) /\ \A x \in Obj : IsOn(x, t.chain[h]) <=> x # o /\ IsOn(x, s.chain[h])
  <2>1. s.chain[h] \in Seq(Obj) /\ Distinct(s.chain[h])
        BY <1>1, <1>3 DEF ChainsAgree
  <2>2. t.chain[h] = Only(s.chain[h], Obj \ {o})
        BY <1>1, <1>2, <1>3
  <2> QED BY <2>1, <2>2, OnlyKeeps
<1>8. \A g \in Hwnd : g # h => t.chain[g] = s.chain[g]
      BY <1>1, <1>2
<1>9. \A g \in Hwnd : ~IsOn(o, t.chain[g])
  <2>1. \A g \in Hwnd : IsOn(o, s.chain[g]) => g = h
        BY <1>1 DEF ChainsAgree, h
  <2> QED BY <1>7, <1>8, <2>1
<1>10. HooksAgree(t)
  <2>1. ASSUME NEW x \in Obj, t.objs[x].hwnd # NoHwnd
        PROVE  /\ t.objs[x].life = "alive" /\ t.objs[x].marks = 0 /\ t.objs[x].name \in Name
               /\ t.props[t.objs[x].hwnd][t.objs[x].name] = x
               /\ IsOn(x, t.chain[t.objs[x].hwnd])
    <3>0. x # o
          BY <1>5, <2>1
    <3>1. /\ t.objs[x] = s.objs[x] /\ s.objs[x].hwnd \in Hwnd /\ s.objs[x].name \in Name
          /\ s.objs[x].life = "alive" /\ s.objs[x].marks = 0
          /\ s.props[s.objs[x].hwnd][s.objs[x].name] = x /\ IsOn(x, s.chain[s.objs[x].hwnd])
          BY <1>1, <1>4, <2>1, <3>0, FieldParts DEF HooksAgree
    <3>3. t.props[s.objs[x].hwnd][s.objs[x].name] = x
          BY <1>3, <1>6, <3>0, <3>1
    <3>4. IsOn(x, t.chain[s.objs[x].hwnd])
          BY <1>7, <1>8, <3>0, <3>1
    <3> QED BY <3>1, <3>3, <3>4
  <2> QED BY <2>1 DEF HooksAgree
<1>11. PropsAgree(t)
  <2>1. ASSUME NEW g \in Hwnd, NEW m \in Name, t.props[g][m] # NoObj
        PROVE  t.objs[t.props[g][m]].hwnd = g /\ t.objs[t.props[g][m]].name = m
    <3> DEFINE x == s.props[g][m]
    <3>1. t.props[g][m] = x /\ x \in Obj /\ ~(g = h /\ m = n)
          BY <1>1, <1>6, <2>1
    <3>2. s.objs[x].hwnd = g /\ s.objs[x].name = m
          BY <1>1, <2>1, <3>1 DEF PropsAgree
    <3>3. x # o
          BY <3>1, <3>2 DEF h, n
    <3> QED BY <1>4, <3>1, <3>2, <3>3
  <2> QED BY <2>1 DEF PropsAgree
<1>12. ChainsAgree(t)
  <2>1. ASSUME NEW g \in Hwnd, NEW x \in Obj, IsOn(x, t.chain[g]) PROVE t.objs[x].hwnd = g
    <3>1. x # o
          BY <1>9, <2>1
    <3>2. IsOn(x, s.chain[g])
          BY <1>7, <1>8, <2>1
    <3> QED BY <1>1, <1>4, <3>1, <3>2 DEF ChainsAgree
  <2>2. ASSUME NEW g \in Hwnd PROVE Distinct(t.chain[g])
        BY <1>1, <1>7, <1>8 DEF ChainsAgree
  <2> QED BY <2>1, <2>2 DEF ChainsAgree
<1>13. UnusedIsFresh(t)
       BY <1>1, <1>4, <1>5 DEF UnusedIsFresh
<1>14. Sound(t)
       BY <1>1, <1>2, <1>10, <1>11, <1>12, <1>13 DEF Sound
<1>15. \A x \in Obj : t.objs[x].recurse = s.objs[x].recurse /\ t.objs[x].life = s.objs[x].life
       BY <1>3, <1>4, <1>5
<1>16. \A g \in Hwnd, x \in Obj : IsOn(x, t.chain[g]) => IsOn(x, s.chain[g])
       BY <1>7, <1>8
<1>17. Gentle(s, t)
       BY <1>14, <1>15, <1>16 DEF Gentle
<1> QED BY <1>5, <1>9, <1>17 DEF t, mark

\* An object that changes and hooks no window, before and after.
LEMMA UnhookedChange ==
  ASSUME NEW s, Sound(s), NEW o \in Obj, NEW p \in Fields, s.objs[o].hwnd = NoHwnd,
         p.hwnd = NoHwnd, p.life # "unused"
  PROVE  LET t == [s EXCEPT !.objs = [s.objs EXCEPT ![o] = p]]
         IN  /\ Sound(t) /\ t.objs = [s.objs EXCEPT ![o] = p]
             /\ t.props = s.props /\ t.chain = s.chain
<1> DEFINE O == [s.objs EXCEPT ![o] = p]
           t == [s EXCEPT !.objs = O]
<1>1. /\ s \in States /\ s.faults = {}
      /\ HooksAgree(s) /\ PropsAgree(s) /\ ChainsAgree(s) /\ UnusedIsFresh(s)
      /\ s.props \in [Hwnd -> [Name -> Obj \cup {NoObj}]]
      /\ s.chain \in [Hwnd -> Seq(Obj)] /\ s.objs \in [Obj -> Fields]
      BY SoundParts
<1>2. O \in [Obj -> Fields]
      BY <1>1
<1>3. \A x \in Obj : O[x] = IF x = o THEN p ELSE s.objs[x]
      BY <1>1
<1> HIDE DEF O
<1>4. t \in States /\ t.objs = O /\ t.props = s.props /\ t.chain = s.chain /\ t.faults = s.faults
      BY <1>1, <1>2 DEF States
<1> HIDE DEF t
<1>5. HooksAgree(t)
      BY <1>1, <1>3, <1>4 DEF HooksAgree
<1>6. PropsAgree(t)
  <2>1. ASSUME NEW g \in Hwnd, NEW m \in Name, t.props[g][m] # NoObj
        PROVE  t.objs[t.props[g][m]].hwnd = g /\ t.objs[t.props[g][m]].name = m
    <3> DEFINE x == s.props[g][m]
    <3>1. t.props[g][m] = x /\ x \in Obj
          BY <1>1, <1>4, <2>1
    <3>2. s.objs[x].hwnd = g /\ s.objs[x].name = m
          BY <1>1, <2>1, <3>1 DEF PropsAgree
    <3>3. x # o
          BY <3>2, SubclassAssumption
    <3> QED BY <1>3, <1>4, <3>1, <3>2, <3>3
  <2> QED BY <2>1 DEF PropsAgree
<1>7. ChainsAgree(t)
  <2>1. ASSUME NEW g \in Hwnd, NEW x \in Obj, IsOn(x, s.chain[g]) PROVE t.objs[x].hwnd = g
    <3>1. s.objs[x].hwnd = g
          BY <1>1, <2>1 DEF ChainsAgree
    <3>2. x # o
          BY <3>1, SubclassAssumption
    <3> QED BY <1>3, <1>4, <3>1, <3>2
  <2> QED BY <1>1, <1>4, <2>1 DEF ChainsAgree
<1>8. UnusedIsFresh(t)
      BY <1>1, <1>3, <1>4 DEF UnusedIsFresh
<1> QED BY <1>1, <1>4, <1>5, <1>6, <1>7, <1>8 DEF Sound, t, O

\* Freeing an object that hooks nothing and has no call under way is gentle.
LEMMA FreedGentle ==
  ASSUME NEW s, Sound(s), NEW o \in Obj, s.objs[o].hwnd = NoHwnd, s.objs[o].life = "alive",
         s.objs[o].recurse = 0
  PROVE  Gentle(s, [s EXCEPT !.objs[o].life = "freed", !.faults = {}])
<1> DEFINE p == [s.objs[o] EXCEPT !.life = "freed"]
           t == [s EXCEPT !.objs = [s.objs EXCEPT ![o] = p]]
           u == [s EXCEPT !.objs[o].life = "freed", !.faults = {}]
<1>1. s \in States /\ s.faults = {} /\ s.objs \in [Obj -> Fields]
      BY SoundParts
<1>2. s.objs[o] \in Fields
      BY <1>1
<1>3. /\ p \in Fields /\ p.hwnd = NoHwnd /\ p.life = "freed" /\ p.recurse = s.objs[o].recurse
      BY <1>2 DEF Fields
<1>4. u = t
  <2> DEFINE O == [s.objs EXCEPT ![o].life = "freed"]
  <2>1. O = [s.objs EXCEPT ![o] = p]
        OBVIOUS
  <2>2. u = [s EXCEPT !.objs = O, !.faults = {}]
        BY Zenon
  <2>3. t = [s EXCEPT !.objs = O]
        BY <2>1
  <2> HIDE DEF O, u, t
  <2> QED BY <1>1, <2>2, <2>3 DEF States
<1> HIDE DEF p
<1>5. Sound(t) /\ t.objs = [s.objs EXCEPT ![o] = p] /\ t.chain = s.chain
      BY <1>3, UnhookedChange
<1> HIDE DEF t
<1>6. \A x \in Obj : t.objs[x] = IF x = o THEN p ELSE s.objs[x]
      BY <1>1, <1>5
<1>7. Gentle(s, t)
      BY <1>3, <1>5, <1>6 DEF Gentle
<1> QED BY <1>4, <1>7

\* delete, of an object that hooks no window, or is part of another one.
LEMMA DeletedGentle ==
  ASSUME NEW s, Sound(s), NEW o \in Obj, s.objs[o].life = "alive", s.objs[o].recurse = 0,
         s.objs[o].hwnd = NoHwnd \/ s.objs[o].partial
  PROVE  Gentle(s, Deleted(s, o))
<1> DEFINE hooked == s.objs[o].hwnd # NoHwnd
           d == IF hooked THEN Detached(s, o, TRUE) ELSE s
           F == d.faults \cup FaultIf(s.objs[o].life = "freed", "double free")
                         \cup FaultIf(hooked /\ NowDeletes(d, o), "double free")
<1>1. Gentle(s, d) /\ d.objs[o].hwnd = NoHwnd /\ d.objs[o].life = "alive"
  <2>1. CASE hooked
        BY <2>1, DetachedGentle
  <2>2. CASE ~hooked
        BY <2>2, SameIsGentle
  <2> QED BY <2>1, <2>2
<1>2. hooked => d.objs[o].marks = 0
  <2> SUFFICES ASSUME hooked PROVE Detached(s, o, TRUE).objs[o].marks = 0
      OBVIOUS
  <2>1. ~Mark(s, o, TRUE)
        BY DEF Mark
  <2> QED BY <2>1, DetachedGentle
<1>3. Deleted(s, o) = [d EXCEPT !.objs[o].life = "freed", !.faults = F]
      BY Zenon DEF Deleted
<1> HIDE DEF d
<1>4. Sound(d) /\ d.objs[o].recurse = 0
      BY <1>1 DEF Gentle
<1>5. F = {}
  <2>1. d.faults = {}
        BY <1>4, SoundParts
  <2>2. FaultIf(s.objs[o].life = "freed", "double free") = {}
        BY DEF FaultIf
  <2>3. FaultIf(hooked /\ NowDeletes(d, o), "double free") = {}
    <3>1. ~(hooked /\ NowDeletes(d, o))
          BY <1>2 DEF NowDeletes
    <3> QED BY <3>1, Zenon DEF FaultIf
  <2> QED BY <2>1, <2>2, <2>3
<1> HIDE DEF F
<1>6. Gentle(d, Deleted(s, o))
  <2> DEFINE e == [d EXCEPT !.objs[o].life = "freed", !.faults = {}]
  <2>1. Gentle(d, e)
        BY <1>1, <1>4, FreedGentle
  <2>2. Deleted(s, o) = e
        BY <1>3, <1>5
  <2> HIDE DEF e
  <2> QED BY <2>1, <2>2
<1> QED BY <1>1, <1>6, GentleTransitive

\* So is the end of any call: the object is deleted only if the call was its last.
LEMMA UnwoundGentle ==
  ASSUME NEW s, Sound(s), NEW o \in Obj, s.objs[o].life = "alive"
  PROVE  Gentle(s, Unwound(s, o))
<1>1. CASE NowDeletes(s, o)
  <2>1. s.objs[o].hwnd = NoHwnd /\ s.objs[o].recurse = 0
        BY <1>1, SoundParts DEF HooksAgree, NowDeletes
  <2> QED BY <1>1, <2>1, DeletedGentle DEF Unwound
<1>2. CASE ~NowDeletes(s, o)
      BY <1>2, SameIsGentle DEF Unwound
<1> QED BY <1>1, <1>2

\* So is DetachHwnd(), and the procedure is gone if a call is under way.
LEMMA DetachHwndGentle ==
  ASSUME NEW s, Sound(s), NEW o \in Obj, NEW delete \in BOOLEAN
  PROVE  /\ Gentle(s, DetachHwnd(s, o, delete))
         /\ s.objs[o].recurse # 0 => \A h \in Hwnd : ~IsOn(o, DetachHwnd(s, o, delete).chain[h])
         /\ s.objs[o].recurse # 0 => DetachHwnd(s, o, delete).objs[o].hwnd = NoHwnd
<1>1. CASE s.objs[o].hwnd = NoHwnd
  <2>1. \A h \in Hwnd : ~IsOn(o, s.chain[h])
        BY <1>1, SoundParts, SubclassAssumption DEF ChainsAgree
  <2> QED BY <1>1, <2>1, SameIsGentle DEF DetachHwnd
<1>2. CASE s.objs[o].hwnd # NoHwnd
  <2> DEFINE d == Detached(s, o, delete)
  <2>1. DetachHwnd(s, o, delete) = Unwound(d, o)
        BY <1>2 DEF DetachHwnd
  <2>2. /\ Gentle(s, d) /\ d.objs[o].life = "alive" /\ d.objs[o].hwnd = NoHwnd
        /\ \A h \in Hwnd : ~IsOn(o, d.chain[h])
        BY <1>2, DetachedGentle
  <2> HIDE DEF d
  <2>3. Sound(d) /\ d.objs[o].recurse = s.objs[o].recurse
        BY <2>2 DEF Gentle
  <2>4. Gentle(s, Unwound(d, o))
        BY <2>2, <2>3, UnwoundGentle, GentleTransitive
  <2>5. s.objs[o].recurse # 0 => Unwound(d, o) = d
        BY <2>3 DEF Unwound, NowDeletes
  <2> QED BY <2>1, <2>2, <2>4, <2>5
<1> QED BY <1>1, <1>2

\* A new object, or one that lives, before it is attached.
LEMMA BornGentle ==
  ASSUME NEW s, Sound(s), NEW o \in Obj, s.objs[o].life \in {"unused", "alive"}
  PROVE  LET t == [s EXCEPT !.objs[o].life = "alive"]
         IN  /\ Gentle(s, t) /\ t.props = s.props /\ t.chain = s.chain
             /\ t.objs = [s.objs EXCEPT ![o] = [s.objs[o] EXCEPT !.life = "alive"]]
<1> DEFINE p == [s.objs[o] EXCEPT !.life = "alive"]
           t == [s EXCEPT !.objs = [s.objs EXCEPT ![o] = p]]
           u == [s EXCEPT !.objs[o].life = "alive"]
<1>1. s \in States /\ s.objs \in [Obj -> Fields] /\ UnusedIsFresh(s)
      BY SoundParts
<1>2. s.objs[o] \in Fields
      BY <1>1
<1>3. u = t
      OBVIOUS
<1>4. CASE s.objs[o].life = "alive"
  <2>1. p = s.objs[o]
        BY <1>2, <1>4 DEF Fields
  <2>2. [s.objs EXCEPT ![o] = p] = s.objs
        BY <1>1, <2>1
  <2>3. t = s
        BY <1>1, <2>2 DEF States
  <2> QED BY <1>3, <2>2, <2>3, SameIsGentle
<1>5. CASE s.objs[o].life = "unused"
  <2>1. s.objs[o].hwnd = NoHwnd /\ s.objs[o].recurse = 0
        BY <1>1, <1>5 DEF UnusedIsFresh
  <2>2. p \in Fields /\ p.hwnd = NoHwnd /\ p.life = "alive" /\ p.recurse = 0
        BY <1>2, <2>1 DEF Fields
  <2> HIDE DEF p
  <2>3. Sound(t) /\ t.objs = [s.objs EXCEPT ![o] = p] /\ t.chain = s.chain /\ t.props = s.props
        BY <2>1, <2>2, UnhookedChange
  <2> HIDE DEF t
  <2>4. \A x \in Obj : t.objs[x] = IF x = o THEN p ELSE s.objs[x]
        BY <1>1, <2>3
  <2>5. Gentle(s, t)
        BY <2>1, <2>2, <2>3, <2>4 DEF Gentle
  <2> QED BY <1>3, <2>3, <2>5 DEF p
<1> QED BY <1>4, <1>5

\* An object that changes, but not in what it hooks.
LEMMA SameHookSound ==
  ASSUME NEW s, Sound(s), NEW o \in Obj, NEW p \in Fields,
         p.hwnd = s.objs[o].hwnd, p.name = s.objs[o].name, p.life = s.objs[o].life,
         p.marks = s.objs[o].marks, p.recurse = s.objs[o].recurse \/ p.life = "alive"
  PROVE  LET t == [s EXCEPT !.objs = [s.objs EXCEPT ![o] = p]]
         IN  /\ Sound(t) /\ t.objs = [s.objs EXCEPT ![o] = p]
             /\ t.props = s.props /\ t.chain = s.chain
<1> DEFINE O == [s.objs EXCEPT ![o] = p]
           t == [s EXCEPT !.objs = O]
<1>1. /\ s \in States /\ s.faults = {}
      /\ HooksAgree(s) /\ PropsAgree(s) /\ ChainsAgree(s) /\ UnusedIsFresh(s)
      /\ s.props \in [Hwnd -> [Name -> Obj \cup {NoObj}]]
      /\ s.chain \in [Hwnd -> Seq(Obj)] /\ s.objs \in [Obj -> Fields]
      BY SoundParts
<1>2. O \in [Obj -> Fields]
      BY <1>1
<1>3. \A x \in Obj : /\ O[x].hwnd = s.objs[x].hwnd /\ O[x].name = s.objs[x].name
                     /\ O[x].life = s.objs[x].life /\ O[x].marks = s.objs[x].marks
                     /\ O[x].recurse = s.objs[x].recurse \/ s.objs[x].life = "alive"
      BY <1>1
<1> HIDE DEF O
<1>4. t \in States /\ t.objs = O /\ t.props = s.props /\ t.chain = s.chain /\ t.faults = s.faults
      BY <1>1, <1>2 DEF States
<1> HIDE DEF t
<1>5. HooksAgree(t)
      BY <1>1, <1>3, <1>4 DEF HooksAgree
<1>6. ChainsAgree(t)
      BY <1>1, <1>3, <1>4 DEF ChainsAgree
<1>7. UnusedIsFresh(t)
      BY <1>1, <1>3, <1>4 DEF UnusedIsFresh
<1>8. PropsAgree(t)
  <2>1. ASSUME NEW g \in Hwnd, NEW m \in Name, s.props[g][m] # NoObj
        PROVE  t.objs[s.props[g][m]].hwnd = g /\ t.objs[s.props[g][m]].name = m
    <3>1. s.props[g][m] \in Obj
          BY <1>1, <2>1
    <3> QED BY <1>1, <1>3, <1>4, <2>1, <3>1 DEF PropsAgree
  <2> QED BY <1>4, <2>1 DEF PropsAgree
<1> QED BY <1>1, <1>4, <1>5, <1>6, <1>7, <1>8 DEF Sound, t, O

\* Marking an object as part of another one is gentle.
LEMMA PartialGentle ==
  ASSUME NEW s, Sound(s), NEW o \in Obj
  PROVE  Gentle(s, [s EXCEPT !.objs[o].partial = TRUE])
<1> DEFINE p == [s.objs[o] EXCEPT !.partial = TRUE]
           t == [s EXCEPT !.objs = [s.objs EXCEPT ![o] = p]]
<1>1. s.objs \in [Obj -> Fields]
      BY SoundParts
<1>2. [s EXCEPT !.objs[o].partial = TRUE] = t
      OBVIOUS
<1>3. /\ p \in Fields /\ p.hwnd = s.objs[o].hwnd /\ p.name = s.objs[o].name
      /\ p.life = s.objs[o].life /\ p.marks = s.objs[o].marks /\ p.recurse = s.objs[o].recurse
      BY <1>1 DEF Fields
<1> HIDE DEF p
<1>4. Sound(t) /\ t.objs = [s.objs EXCEPT ![o] = p] /\ t.chain = s.chain
      BY <1>3, SameHookSound
<1> HIDE DEF t
<1>5. \A x \in Obj : t.objs[x].recurse = s.objs[x].recurse /\ t.objs[x].life = s.objs[x].life
      BY <1>1, <1>3, <1>4
<1>6. Gentle(s, t)
      BY <1>4, <1>5 DEF Gentle
<1> QED BY <1>2, <1>6

-------------------------------------------------------------------------------
(***************************************************************************)
(* The stack of calls.                                                     *)
(***************************************************************************)
\* A call of SubWndProc() under way.
Frame == [obj : Obj, hwnd : Hwnd, msg : {"msg", "WM_NCDESTROY"}, rest : Seq(Obj),
          passed : BOOLEAN, first : BOOLEAN]

\* The calls under way for an object, and the first calls of messages.
FramesOf(st, o) == {i \in DOMAIN st : st[i].obj = o}
Firsts(st)      == {i \in DOMAIN st : st[i].first}

\* A message of its own begins between the two calls.
Parted(st, i, j) == \E k \in i + 1 .. j : st[k].first

\* The stack of calls: every call is of a living object, the counts are exact, and a
\* message calls an object once, so that two calls of an object are of two messages.
StackSound(st, p) ==
  /\ st \in Seq(Frame)
  /\ st # <<>> => st[1].first
  /\ \A i \in DOMAIN st : p[st[i].obj].life = "alive"
  /\ \A o \in Obj : p[o].recurse = Cardinality(FramesOf(st, o))
  /\ \A i, j \in DOMAIN st : i < j /\ st[i].obj = st[j].obj => Parted(st, i, j)
  /\ \A j \in DOMAIN st : Distinct(st[j].rest)
  /\ \A i, j \in DOMAIN st : i <= j /\ IsOn(st[i].obj, st[j].rest) => Parted(st, i, j)
  /\ Cardinality(Firsts(st)) <= MaxDepth

\* The calls under way are finitely many.
LEMMA FramesFinite ==
  ASSUME NEW st \in Seq(Frame), NEW o
  PROVE  /\ IsFiniteSet(DOMAIN st) /\ IsFiniteSet(FramesOf(st, o)) /\ IsFiniteSet(Firsts(st))
         /\ Cardinality(FramesOf(st, o)) \in Nat /\ Cardinality(Firsts(st)) \in Nat
<1>1. IsFiniteSet(DOMAIN st)
  <2>1. DOMAIN st = 1 .. Len(st) /\ Len(st) \in Int /\ 1 \in Int
        OBVIOUS
  <2> QED BY <2>1, FS_Interval
<1>2. FramesOf(st, o) \in SUBSET (DOMAIN st) /\ Firsts(st) \in SUBSET (DOMAIN st)
      BY DEF FramesOf, Firsts
<1>3. IsFiniteSet(FramesOf(st, o)) /\ IsFiniteSet(Firsts(st))
      BY <1>1, <1>2, FS_Subset
<1> QED BY <1>1, <1>3, FS_CardinalityType

\* The fields of a call have their types.
LEMMA FrameParts ==
  ASSUME NEW st \in Seq(Frame), NEW i \in DOMAIN st
  PROVE  /\ st[i].obj \in Obj /\ st[i].hwnd \in Hwnd /\ st[i].msg \in {"msg", "WM_NCDESTROY"}
         /\ st[i].rest \in Seq(Obj) /\ st[i].passed \in BOOLEAN /\ st[i].first \in BOOLEAN
<1>1. st[i] \in Frame
      OBVIOUS
<1> QED BY <1>1 DEF Frame

\* A stack on which a call of f lies, with the calls below as they were, but for
\* the message that the call below may have passed on.
Pushed(st, u, f) ==
  /\ u \in Seq(Frame) /\ f \in Frame
  /\ Len(u) = Len(st) + 1 /\ u[Len(st) + 1] = f
  /\ \A i \in DOMAIN st : u[i].obj = st[i].obj /\ u[i].first = st[i].first /\ u[i].rest = st[i].rest

\* A call that is added: of a message of its own, or of one that is passed on to an
\* object that it has not called.
LEMMA PushSound ==
  ASSUME NEW st, NEW p, StackSound(st, p), NEW u, NEW f, Pushed(st, u, f), NEW q,
         p[f.obj].life = "alive",
         \A x \in Obj : /\ q[x].life = p[x].life
                        /\ q[x].recurse = p[x].recurse + (IF x = f.obj THEN 1 ELSE 0),
         Distinct(f.rest), ~IsOn(f.obj, f.rest),
         f.first \/ (/\ st # <<>>
                     /\ \A i \in DOMAIN st : st[i].obj = f.obj \/ IsOn(st[i].obj, f.rest)
                                               => Parted(st, i, Len(st))),
         f.first => Cardinality(Firsts(st)) < MaxDepth
  PROVE  StackSound(u, q)
<1> DEFINE n == Len(st)
<1>1. /\ st \in Seq(Frame) /\ n \in Nat /\ DOMAIN st = 1 .. n
      /\ DOMAIN u = 1 .. n + 1 /\ u \in Seq(Frame) /\ f.obj \in Obj
      /\ u[n + 1] = f /\ n + 1 \notin DOMAIN st
      BY DEF StackSound, Pushed, Frame
<1>2. \A i \in DOMAIN st : u[i].obj = st[i].obj /\ u[i].first = st[i].first /\ u[i].rest = st[i].rest
      BY DEF Pushed
<1>3. \A i \in DOMAIN u : i \in DOMAIN st \/ i = n + 1
      BY <1>1
<1>4. \A i \in DOMAIN st : st[i].obj \in Obj
  <2>1. st \in Seq(Frame)
        BY <1>1
  <2> QED BY <2>1, FrameParts
<1> HIDE DEF n
<1>5. \A i, j \in DOMAIN st : Parted(st, i, j) => Parted(u, i, j)
  <2> SUFFICES ASSUME NEW i \in DOMAIN st, NEW j \in DOMAIN st, Parted(st, i, j)
               PROVE  Parted(u, i, j)
      OBVIOUS
  <2>1. PICK k \in i + 1 .. j : st[k].first
        BY DEF Parted
  <2>2. k \in DOMAIN st
        BY <1>1
  <2> QED BY <1>2, <2>1, <2>2 DEF Parted
<1>6. ASSUME NEW i \in DOMAIN st, st[i].obj = f.obj \/ IsOn(st[i].obj, f.rest)
      PROVE  Parted(u, i, n + 1)
  <2>1. CASE f.first
    <3>1. n + 1 \in i + 1 .. n + 1
          BY <1>1
    <3> QED BY <1>1, <2>1, <3>1 DEF Parted
  <2>2. CASE ~f.first
    <3>1. Parted(st, i, n)
          BY <1>6, <2>2 DEF n
    <3>2. PICK k \in i + 1 .. n : st[k].first
          BY <3>1 DEF Parted
    <3>3. k \in DOMAIN st /\ k \in i + 1 .. n + 1
          BY <1>1
    <3> QED BY <1>2, <3>2, <3>3 DEF Parted
  <2> QED BY <2>1, <2>2
<1>7. u # <<>> => u[1].first
  <2>1. CASE n = 0
    <3>1. st = <<>> /\ 0 + 1 = 1
          BY <1>1, <2>1 DEF n
    <3>2. f.first
          BY <3>1
    <3> QED BY <1>1, <2>1, <3>2
  <2>2. CASE n # 0
    <3>1. 1 \in DOMAIN st /\ st # <<>>
          BY <1>1, <2>2
    <3> QED BY <1>2, <3>1 DEF StackSound
  <2> QED BY <2>1, <2>2
<1>8. \A i \in DOMAIN u : q[u[i].obj].life = "alive"
      BY <1>1, <1>2, <1>3, <1>4 DEF StackSound
<1>9. ASSUME NEW o \in Obj PROVE q[o].recurse = Cardinality(FramesOf(u, o))
  <2>1. IsFiniteSet(FramesOf(st, o)) /\ n + 1 \notin FramesOf(st, o)
        BY <1>1, FramesFinite DEF FramesOf
  <2>2. CASE o = f.obj
    <3>1. FramesOf(u, o) = FramesOf(st, o) \cup {n + 1}
          BY <1>1, <1>2, <1>3, <2>2 DEF FramesOf
    <3>2. Cardinality(FramesOf(u, o)) = Cardinality(FramesOf(st, o)) + 1
          BY <2>1, <3>1, FS_AddElement
    <3>3. p[o].recurse = Cardinality(FramesOf(st, o))
          BY DEF StackSound
    <3> QED BY <2>2, <3>2, <3>3
  <2>3. CASE o # f.obj
    <3>1. FramesOf(u, o) = FramesOf(st, o)
          BY <1>1, <1>2, <1>3, <2>3 DEF FramesOf
    <3>2. p[o].recurse = Cardinality(FramesOf(st, o)) /\ Cardinality(FramesOf(st, o)) \in Nat
          BY <1>1, FramesFinite DEF StackSound
    <3> QED BY <2>3, <3>1, <3>2
  <2> QED BY <2>2, <2>3
<1>10. ASSUME NEW i \in DOMAIN u, NEW j \in DOMAIN u, i < j, u[i].obj = u[j].obj
       PROVE  Parted(u, i, j)
  <2>1. i \in DOMAIN st
        BY <1>1, <1>10
  <2>2. CASE j = n + 1
        BY <1>1, <1>2, <1>6, <1>10, <2>1, <2>2
  <2>3. CASE j \in DOMAIN st
        BY <1>2, <1>5, <1>10, <2>1, <2>3 DEF StackSound
  <2> QED BY <1>3, <2>2, <2>3
<1>11. \A j \in DOMAIN u : Distinct(u[j].rest)
       BY <1>1, <1>2, <1>3 DEF StackSound
<1>12. ASSUME NEW i \in DOMAIN u, NEW j \in DOMAIN u, i <= j, IsOn(u[i].obj, u[j].rest)
       PROVE  Parted(u, i, j)
  <2>1. CASE i = n + 1
    <3>1. j = n + 1
          BY <1>1, <1>12, <2>1
    <3> QED BY <1>1, <1>12, <2>1, <3>1
  <2>2. CASE i \in DOMAIN st /\ j = n + 1
        BY <1>1, <1>2, <1>6, <1>12, <2>2
  <2>3. CASE i \in DOMAIN st /\ j \in DOMAIN st
        BY <1>2, <1>5, <1>12, <2>3 DEF StackSound
  <2> QED BY <1>3, <2>1, <2>2, <2>3
<1>13. Cardinality(Firsts(u)) <= MaxDepth
  <2>1. IsFiniteSet(Firsts(st)) /\ n + 1 \notin Firsts(st) /\ Cardinality(Firsts(st)) \in Nat
        BY <1>1, FramesFinite DEF Firsts
  <2>2. CASE f.first
    <3>1. Firsts(u) = Firsts(st) \cup {n + 1}
          BY <1>1, <1>2, <1>3, <2>2 DEF Firsts
    <3>2. Cardinality(Firsts(u)) = Cardinality(Firsts(st)) + 1
          BY <2>1, <3>1, FS_AddElement
    <3>3. Cardinality(Firsts(st)) < MaxDepth /\ MaxDepth \in Nat
          BY <2>2, SubclassAssumption
    <3> QED BY <2>1, <3>2, <3>3
  <2>3. CASE ~f.first
    <3>1. Firsts(u) = Firsts(st)
          BY <1>1, <1>2, <1>3, <2>3 DEF Firsts
    <3> QED BY <3>1 DEF StackSound
  <2> QED BY <2>2, <2>3
<1> QED BY <1>1, <1>7, <1>8, <1>9, <1>10, <1>11, <1>12, <1>13 DEF StackSound

\* The innermost call returns.
LEMMA PopSound ==
  ASSUME NEW st, NEW p, StackSound(st, p), st # <<>>, NEW q,
         LET top == st[Len(st)].obj
         IN  \A x \in Obj : /\ q[x].recurse = p[x].recurse - (IF x = top THEN 1 ELSE 0)
                            /\ p[x].life = "alive" /\ q[x].recurse # 0 => q[x].life = "alive"
  PROVE  StackSound(SubSeq(st, 1, Len(st) - 1), q)
<1> DEFINE n == Len(st)
           u == SubSeq(st, 1, n - 1)
           top == st[n].obj
<1>1. st \in Seq(Frame) /\ n \in Nat \ {0} /\ DOMAIN st = 1 .. n /\ n \in DOMAIN st
      BY DEF StackSound
<1>2. u \in Seq(Frame) /\ Len(u) = n - 1 /\ DOMAIN u = 1 .. n - 1
      BY <1>1
<1>3. \A i \in DOMAIN u : u[i] = st[i] /\ i \in DOMAIN st /\ i # n
      BY <1>1, <1>2
<1>4. \A i \in DOMAIN st : st[i].obj \in Obj /\ (i \in DOMAIN u \/ i = n)
  <2>1. \A i \in DOMAIN st : st[i].obj \in Obj
        BY <1>1, FrameParts
  <2> HIDE DEF u, n, top
  <2>2. \A i \in DOMAIN st : i \in DOMAIN u \/ i = n
        BY <1>1, <1>2
  <2> QED BY <2>1, <2>2
<1>5. \A x \in Obj : /\ q[x].recurse = p[x].recurse - (IF x = top THEN 1 ELSE 0)
                     /\ p[x].life = "alive" /\ q[x].recurse # 0 => q[x].life = "alive"
      OBVIOUS
<1>6. n \notin DOMAIN u
      BY <1>1, <1>2
<1> HIDE DEF n, u, top
<1>7. \A i, j \in DOMAIN u : Parted(st, i, j) => Parted(u, i, j)
  <2> SUFFICES ASSUME NEW i \in DOMAIN u, NEW j \in DOMAIN u, Parted(st, i, j)
               PROVE  Parted(u, i, j)
      OBVIOUS
  <2>1. PICK k \in i + 1 .. j : st[k].first
        BY DEF Parted
  <2>2. k \in DOMAIN u
        BY <1>1, <1>2
  <2> QED BY <1>3, <2>1, <2>2 DEF Parted
<1>8. ASSUME NEW o \in Obj PROVE q[o].recurse = Cardinality(FramesOf(u, o))
  <2>1. /\ IsFiniteSet(FramesOf(st, o)) /\ p[o].recurse = Cardinality(FramesOf(st, o))
        /\ Cardinality(FramesOf(st, o)) \in Nat
        BY <1>1, FramesFinite DEF StackSound
  <2>2. CASE o = top
    <3>1. FramesOf(u, o) = FramesOf(st, o) \ {n} /\ n \in FramesOf(st, o)
          BY <1>1, <1>3, <1>4, <1>6, <2>2 DEF FramesOf, top
    <3>2. Cardinality(FramesOf(u, o)) = Cardinality(FramesOf(st, o)) - 1
          BY <2>1, <3>1, FS_RemoveElement
    <3> QED BY <1>5, <2>1, <2>2, <3>2
  <2>3. CASE o # top
    <3>1. FramesOf(u, o) = FramesOf(st, o)
          BY <1>1, <1>3, <1>4, <2>3 DEF FramesOf, top
    <3> QED BY <1>5, <2>1, <2>3, <3>1
  <2> QED BY <2>2, <2>3
<1>9. ASSUME NEW i \in DOMAIN u PROVE q[u[i].obj].life = "alive"
  <2> DEFINE o == u[i].obj
  <2>1. o \in Obj /\ o = st[i].obj /\ p[o].life = "alive"
        BY <1>3, <1>4 DEF StackSound
  <2>2. i \in FramesOf(u, o)
        BY DEF FramesOf
  <2>3. IsFiniteSet(FramesOf(u, o))
        BY <1>2, FramesFinite
  <2>4. Cardinality(FramesOf(u, o)) # 0
        BY <2>2, <2>3, FS_EmptySet
  <2> QED BY <1>5, <1>8, <2>1, <2>4
<1>10. u # <<>> => u[1].first
  <2> SUFFICES ASSUME u # <<>> PROVE u[1].first
      OBVIOUS
  <2>1. 1 \in DOMAIN u /\ st # <<>>
        BY <1>2
  <2> QED BY <1>3, <2>1 DEF StackSound
<1>11. \A i, j \in DOMAIN u : i < j /\ u[i].obj = u[j].obj => Parted(u, i, j)
       BY <1>3, <1>7 DEF StackSound
<1>12. \A j \in DOMAIN u : Distinct(u[j].rest)
       BY <1>3 DEF StackSound
<1>13. \A i, j \in DOMAIN u : i <= j /\ IsOn(u[i].obj, u[j].rest) => Parted(u, i, j)
       BY <1>3, <1>7 DEF StackSound
<1>14. Cardinality(Firsts(u)) <= MaxDepth
  <2>1. Firsts(u) \in SUBSET Firsts(st)
        BY <1>3 DEF Firsts
  <2>2. IsFiniteSet(Firsts(st)) /\ Cardinality(Firsts(st)) \in Nat
        BY <1>1, FramesFinite
  <2>3. Cardinality(Firsts(u)) <= Cardinality(Firsts(st)) /\ Cardinality(Firsts(u)) \in Nat
        BY <1>2, <2>1, <2>2, FS_Subset, FramesFinite
  <2> QED BY <2>2, <2>3, SubclassAssumption DEF StackSound
<1> QED BY <1>2, <1>8, <1>9, <1>10, <1>11, <1>12, <1>13, <1>14 DEF StackSound, u, n

\* How many messages are under way up to call i.
Group(st, i) == Cardinality({k \in 1 .. i : st[k].first})

\* The messages under way are numbered 1 to MaxDepth, and a parted pair of calls is
\* of two of them.
LEMMA GroupGrows ==
  ASSUME NEW st, NEW p, StackSound(st, p), NEW j \in DOMAIN st
  PROVE  /\ Group(st, j) \in 1 .. MaxDepth
         /\ \A i \in DOMAIN st : i < j /\ Parted(st, i, j) => Group(st, i) < Group(st, j)
<1>1. st \in Seq(Frame) /\ DOMAIN st = 1 .. Len(st) /\ Len(st) \in Nat /\ j \in Nat /\ j >= 1
      BY DEF StackSound
<1> DEFINE F(i) == {k \in 1 .. i : st[k].first}
<1>2. ASSUME NEW i \in DOMAIN st PROVE IsFiniteSet(F(i)) /\ Cardinality(F(i)) \in Nat
  <2>1. F(i) \in SUBSET Firsts(st)
        BY <1>1 DEF Firsts
  <2>2. IsFiniteSet(Firsts(st))
        BY <1>1, FramesFinite
  <2> QED BY <2>1, <2>2, FS_Subset, FS_CardinalityType
<1>3. Cardinality(F(j)) <= MaxDepth
  <2>1. F(j) \in SUBSET Firsts(st)
        BY <1>1 DEF Firsts
  <2>2. IsFiniteSet(Firsts(st)) /\ Cardinality(Firsts(st)) \in Nat
        BY <1>1, FramesFinite
  <2>3. Cardinality(F(j)) <= Cardinality(Firsts(st))
        BY <2>1, <2>2, FS_Subset
  <2>4. Cardinality(Firsts(st)) <= MaxDepth /\ MaxDepth \in Nat
        BY SubclassAssumption DEF StackSound
  <2>5. Cardinality(F(j)) \in Nat
        BY <1>2
  <2> HIDE DEF F
  <2> QED BY <2>2, <2>3, <2>4, <2>5
<1>4. Cardinality(F(j)) # 0
  <2>1. st # <<>> /\ 1 \in 1 .. j
        BY <1>1
  <2>2. 1 \in F(j)
        BY <2>1 DEF StackSound
  <2> QED BY <1>2, <2>2, FS_EmptySet
<1>5. ASSUME NEW i \in DOMAIN st, i < j, Parted(st, i, j) PROVE Cardinality(F(i)) < Cardinality(F(j))
  <2>1. PICK k \in i + 1 .. j : st[k].first
        BY <1>5 DEF Parted
  <2>2. k \in F(j) /\ k \notin F(i)
        BY <1>1, <2>1
  <2>3. F(i) \in SUBSET F(j)
        BY <1>1, <1>5
  <2>4. /\ IsFiniteSet(F(j)) /\ Cardinality(F(j)) \in Nat /\ Cardinality(F(i)) \in Nat
        BY <1>2
  <2> HIDE DEF F
  <2>5. /\ Cardinality(F(i)) <= Cardinality(F(j))
        /\ Cardinality(F(j)) = Cardinality(F(i)) => F(j) = F(i)
        BY <2>3, <2>4, FS_Subset
  <2> QED BY <2>2, <2>4, <2>5
<1> QED BY <1>2, <1>3, <1>4, <1>5, SubclassAssumption DEF Group

\* An object is called by a message at most once, so that MaxDepth bounds both
\* the calls of each object and the stack.
LEMMA StackBounded ==
  ASSUME NEW st, NEW p, StackSound(st, p), IsFiniteSet(Obj)
  PROVE  /\ \A o \in Obj : p[o].recurse \in 0 .. MaxDepth
         /\ Len(st) <= MaxDepth * Cardinality(Obj)
<1>1. st \in Seq(Frame) /\ DOMAIN st = 1 .. Len(st) /\ Len(st) \in Nat /\ MaxDepth \in Nat
      BY SubclassAssumption DEF StackSound
<1>2. \A i \in DOMAIN st : Group(st, i) \in 1 .. MaxDepth
      BY GroupGrows
<1>3. ASSUME NEW i \in DOMAIN st, NEW j \in DOMAIN st, i # j, st[i].obj = st[j].obj
      PROVE  Group(st, i) # Group(st, j)
  <2>1. CASE i < j
    <3>1. Parted(st, i, j)
          BY <1>3, <2>1 DEF StackSound
    <3>2. Group(st, i) < Group(st, j)
          BY <2>1, <3>1, GroupGrows
    <3> QED BY <1>2, <3>2
  <2>2. CASE j < i
    <3>1. Parted(st, j, i)
          BY <1>3, <2>2 DEF StackSound
    <3>2. Group(st, j) < Group(st, i)
          BY <2>2, <3>1, GroupGrows
    <3> QED BY <1>2, <3>2
  <2> QED BY <1>1, <1>3, <2>1, <2>2
<1>4. IsFiniteSet(1 .. MaxDepth) /\ Cardinality(1 .. MaxDepth) = MaxDepth
  <2>1. 1 \in Int /\ MaxDepth \in Int
        BY <1>1
  <2>2. IsFiniteSet(1 .. MaxDepth)
        /\ Cardinality(1 .. MaxDepth) = IF 1 > MaxDepth THEN 0 ELSE MaxDepth - 1 + 1
        BY <2>1, FS_Interval
  <2> QED BY <1>1, <2>2
<1>5. ASSUME NEW o \in Obj PROVE p[o].recurse \in 0 .. MaxDepth
  <2> DEFINE S == FramesOf(st, o)
             g == [i \in S |-> Group(st, i)]
  <2>1. \A i \in S : i \in DOMAIN st /\ st[i].obj = o
        BY DEF FramesOf
  <2> HIDE DEF S
  <2>2. g \in Injection(S, 1 .. MaxDepth)
        BY <1>2, <1>3, <2>1 DEF Injection, IsInjective
  <2> HIDE DEF g
  <2>3. Cardinality(S) <= Cardinality(1 .. MaxDepth)
        BY <1>4, <2>2, FS_Injection
  <2>4. p[o].recurse = Cardinality(S) /\ Cardinality(S) \in Nat
        BY <1>1, FramesFinite DEF StackSound, S
  <2> QED BY <1>1, <1>4, <2>3, <2>4
<1>6. Len(st) <= MaxDepth * Cardinality(Obj)
  <2> DEFINE S == DOMAIN st
             T == (1 .. MaxDepth) \X Obj
             g == [i \in S |-> <<Group(st, i), st[i].obj>>]
  <2>1. g \in Injection(S, T)
    <3>1. \A i \in S : st[i].obj \in Obj
          BY <1>1, FrameParts
    <3>2. g \in [S -> T]
          BY <1>2, <3>1
    <3>3. \A i, j \in S : g[i] = g[j] => i = j
          BY <1>3
    <3> QED BY <3>2, <3>3 DEF Injection, IsInjective
  <2>2. IsFiniteSet(T) /\ Cardinality(T) = Cardinality(1 .. MaxDepth) * Cardinality(Obj)
        BY <1>4, FS_Product
  <2> HIDE DEF g, T
  <2>3. Cardinality(S) <= Cardinality(T)
        BY <2>1, <2>2, FS_Injection
  <2>4. Cardinality(1 .. Len(st)) = Len(st)
    <3>1. 1 \in Int /\ Len(st) \in Int
          BY <1>1
    <3>2. Cardinality(1 .. Len(st)) = IF 1 > Len(st) THEN 0 ELSE Len(st) - 1 + 1
          BY <3>1, FS_Interval
    <3> QED BY <1>1, <3>2
  <2> QED BY <1>1, <1>4, <2>2, <2>3, <2>4
<1> QED BY <1>5, <1>6

-------------------------------------------------------------------------------
(***************************************************************************)
(* Windows, the invariant, and the client's calls.                         *)
(***************************************************************************)
\* The first call of the message by which window h is destroyed.
Begins(f, h) == f.first /\ f.msg = "WM_NCDESTROY" /\ f.hwnd = h

\* A call by which object o hears, or will hear, that window h is destroyed.
Tells(f, h, o) ==
  /\ f.msg = "WM_NCDESTROY" /\ f.hwnd = h
  /\ f.obj = o \/ (~f.passed /\ IsOn(o, f.rest))

\* The window of an object still exists, and a message that destroys a window is
\* the only one that does.
WindowFrames(st, w, p) ==
  /\ w \in [Hwnd -> {"live", "dying", "dead"}]
  /\ \A o \in Obj : p[o].hwnd # NoHwnd => w[p[o].hwnd] # "dead"
  /\ \A j \in DOMAIN st : st[j].msg = "WM_NCDESTROY" =>
       w[st[j].hwnd] = "dying" /\ \E i \in 1 .. j : Begins(st[i], st[j].hwnd)
  /\ \A h \in Hwnd : \A i, j \in DOMAIN st : Begins(st[i], h) /\ Begins(st[j], h) => i = j

\* No object is forgotten when its window is destroyed.
AllTold(st, w, c) ==
  \A h \in Hwnd, o \in Obj : w[h] = "dying" /\ IsOn(o, c[h]) =>
    \E j \in DOMAIN st : Tells(st[j], h, o)

WindowSound(st, w, c, p) == WindowFrames(st, w, p) /\ AllTold(st, w, c)

\* The inductive invariant.
HookInv ==
  /\ Sound(Now)
  /\ StackSound(stack, objs)
  /\ WindowSound(stack, windows, chain, objs)

\* What a sound state says of the variables.
LEMMA NowParts ==
  ASSUME Sound(Now)
  PROVE  /\ props \in [Hwnd -> [Name -> Obj \cup {NoObj}]]
         /\ chain \in [Hwnd -> Seq(Obj)] /\ objs \in [Obj -> Fields] /\ faults = {}
         /\ Now.props = props /\ Now.chain = chain /\ Now.objs = objs
         /\ \A h \in Hwnd : Distinct(chain[h]) /\ \A o \in Obj : IsOn(o, chain[h]) => objs[o].hwnd = h
         /\ \A o \in Obj : objs[o].hwnd # NoHwnd =>
              /\ objs[o].life = "alive" /\ objs[o].marks = 0 /\ objs[o].name \in Name
              /\ props[objs[o].hwnd][objs[o].name] = o /\ IsOn(o, chain[objs[o].hwnd])
<1>1. Now.props = props /\ Now.chain = chain /\ Now.objs = objs /\ Now.faults = faults
      BY DEF Now
<1> QED BY <1>1, SoundParts DEF HooksAgree, ChainsAgree

\* The state after a step that makes it s.
LEMMA BecomesNow ==
  ASSUME NEW s \in States, Becomes(s)
  PROVE  Now' = s
BY DEF Becomes, Now, States

\* A call of the client's that neither sends a message nor returns.
LEMMA ClientKeeps ==
  ASSUME HookInv, NEW s, Gentle(Now, s), Becomes(s), UNCHANGED <<windows, stack>>
  PROVE  HookInv'
<1>1. /\ Sound(s) /\ s \in States
      /\ \A x \in Obj : /\ s.objs[x].recurse = objs[x].recurse
                        /\ objs[x].life = "alive" /\ objs[x].recurse # 0 => s.objs[x].life = "alive"
      /\ \A h \in Hwnd, x \in Obj : IsOn(x, s.chain[h]) => IsOn(x, chain[h]) \/ windows[h] = "live"
      BY NowParts, SoundParts DEF Gentle, HookInv
<1>2. Now' = s /\ objs' = s.objs /\ chain' = s.chain
      BY <1>1, BecomesNow DEF Becomes
<1>3. Sound(Now)'
      BY <1>1, <1>2
<1>4. StackSound(stack, s.objs)
  <2>1. stack \in Seq(Frame) /\ \A i \in DOMAIN stack : stack[i].obj \in Obj
        BY FrameParts DEF HookInv, StackSound
  <2>2. ASSUME NEW i \in DOMAIN stack PROVE s.objs[stack[i].obj].life = "alive"
    <3> DEFINE o == stack[i].obj
    <3>1. i \in FramesOf(stack, o) /\ IsFiniteSet(FramesOf(stack, o))
          BY <2>1, FramesFinite DEF FramesOf
    <3>2. Cardinality(FramesOf(stack, o)) # 0
          BY <3>1, FS_EmptySet
    <3>3. objs[o].recurse # 0 /\ objs[o].life = "alive"
          BY <2>1, <3>2 DEF HookInv, StackSound
    <3> QED BY <1>1, <2>1, <3>3
  <2> QED BY <1>1, <2>2 DEF HookInv, StackSound
<1>5. WindowSound(stack, windows, s.chain, s.objs)
  <2>1. WindowSound(stack, windows, chain, objs)
        BY DEF HookInv
  <2>2. ASSUME NEW o \in Obj, s.objs[o].hwnd # NoHwnd PROVE windows[s.objs[o].hwnd] # "dead"
    <3> DEFINE h == s.objs[o].hwnd
    <3>1. h \in Hwnd /\ IsOn(o, s.chain[h])
          BY <1>1, <2>2, SoundParts, FieldParts DEF HooksAgree
    <3>2. CASE windows[h] = "live"
          BY <3>2
    <3>3. CASE IsOn(o, chain[h])
      <4>1. objs[o].hwnd = h /\ h # NoHwnd
            BY <2>2, <3>1, <3>3, NowParts DEF HookInv
      <4> QED BY <2>1, <4>1 DEF WindowSound, WindowFrames, AllTold
    <3> QED BY <1>1, <3>1, <3>2, <3>3
  <2>3. ASSUME NEW h \in Hwnd, NEW o \in Obj, windows[h] = "dying", IsOn(o, s.chain[h])
        PROVE  \E j \in DOMAIN stack : Tells(stack[j], h, o)
    <3>1. IsOn(o, chain[h])
          BY <1>1, <2>3
    <3> QED BY <2>1, <2>3, <3>1 DEF WindowSound, WindowFrames, AllTold
  <2> QED BY <2>1, <2>2, <2>3 DEF WindowSound, WindowFrames, AllTold
<1> QED BY <1>2, <1>3, <1>4, <1>5 DEF HookInv

\* What AttachHwnd() may leave, if SetProp() does not fail.
LEMMA OutcomesGentle ==
  ASSUME "SetProp" \notin Failures, NEW s, Sound(s), NEW o \in Obj, NEW h \in Hwnd,
         NEW n \in Name, s.props = props, windows[h] \in {"live", "dead"},
         s.objs[o].life = "alive", s.objs[o].marks = 0,
         NEW out \in AttachOutcomes(s, o, h, n)
  PROVE  Gentle(s, out.s) /\ (~out.ok => out.s = s)
<1>1. CASE s.objs[o].hwnd # NoHwnd \/ ~CheckHwnd(h, n)
      BY <1>1, SameIsGentle DEF AttachOutcomes
<1>2. CASE ~(s.objs[o].hwnd # NoHwnd \/ ~CheckHwnd(h, n))
  <2>1. windows[h] = "live" /\ s.props[h][n] = NoObj /\ s.objs[o].hwnd = NoHwnd
        BY <1>2 DEF CheckHwnd
  <2>2. Gentle(s, Attached(s, o, h, n))
        BY <2>1, AttachedGentle
  <2>3. out = [ok |-> TRUE, s |-> Attached(s, o, h, n)] \/ out = [ok |-> FALSE, s |-> s]
        BY <1>2 DEF AttachOutcomes
  <2> QED BY <2>2, <2>3, SameIsGentle
<1> QED BY <1>1, <1>2

\* A full name is a property's name.
LEMMA FullNames ==
  ASSUME NEW o \in Obj, NEW sig \in Sig \cup {NoSig}
  PROVE  FullName(o, sig) \in Name
BY SubclassAssumption DEF FullName

\* What the client of the theorems may do: what the header recommends.
Recommended == {"Fetch", "FetchAsPartial", "Attach", "Detach", "DetachKeep", "Delete",
                "Send", "DestroyWindow"}

Sensible == Calls \subseteq Recommended /\ "SetProp" \notin Failures

\* Constructing an object, or taking one that there is already.
LEMMA AliveNow ==
  ASSUME HookInv, NEW o \in Obj, NEW h \in Hwnd, windows[h] # "dying",
         objs[o].life = "unused" \/ Usable(o)
  PROVE  LET s == [Now EXCEPT !.objs[o].life = "alive"]
         IN  /\ Gentle(Now, s) /\ Sound(s) /\ s.props = props /\ windows[h] \in {"live", "dead"}
             /\ s.objs[o].life = "alive" /\ s.objs[o].marks = 0
             /\ s.objs[o].hwnd = objs[o].hwnd /\ s.objs[o].recurse = objs[o].recurse
<1> DEFINE s == [Now EXCEPT !.objs[o].life = "alive"]
<1>1. Sound(Now) /\ Now.objs = objs /\ Now.props = props /\ objs \in [Obj -> Fields]
      BY NowParts DEF HookInv
<1>2. objs[o] \in Fields /\ objs[o].life \in {"unused", "alive"} /\ objs[o].marks = 0
  <2>1. objs[o].life = "unused" => objs[o].marks = 0
        BY <1>1, SoundParts DEF UnusedIsFresh
  <2> QED BY <1>1, <2>1 DEF Usable
<1>3. /\ Gentle(Now, s) /\ s.props = Now.props
      /\ s.objs = [Now.objs EXCEPT ![o] = [Now.objs[o] EXCEPT !.life = "alive"]]
      BY <1>1, <1>2, BornGentle
<1> HIDE DEF s
<1>4. s.objs[o] = [objs[o] EXCEPT !.life = "alive"]
      BY <1>1, <1>3
<1>5. /\ s.objs[o].life = "alive" /\ s.objs[o].marks = 0 /\ s.objs[o].hwnd = objs[o].hwnd
      /\ s.objs[o].recurse = objs[o].recurse
      BY <1>2, <1>4 DEF Fields
<1>6. windows[h] \in {"live", "dead"}
      BY DEF HookInv, WindowSound, WindowFrames
<1> QED BY <1>1, <1>3, <1>5, <1>6 DEF s, Gentle

\* A step that changes nothing.
LEMMA StandStill ==
  ASSUME HookInv, UNCHANGED vars
  PROVE  HookInv'
BY DEF vars, HookInv, Now

\* FetchCxxobjFromHwnd() keeps the invariant.
LEMMA FetchKeeps ==
  ASSUME HookInv, Sensible, NEW o \in Obj, NEW h \in Hwnd, NEW sig \in Sig \cup {NoSig},
         Fetch(o, h, sig)
  PROVE  HookInv'
<1> DEFINE s == [Now EXCEPT !.objs[o].life = "alive"]
           n == FullName(o, sig)
<1>1. /\ windows[h] # "dying" /\ objs[o].life = "unused" /\ UNCHANGED <<windows, stack>>
      /\ \E out \in AttachOutcomes(s, o, h, n) : Becomes(IF out.ok THEN out.s ELSE Deleted(out.s, o))
      BY DEF Fetch
<1>2. /\ Gentle(Now, s) /\ Sound(s) /\ s.props = props /\ windows[h] \in {"live", "dead"}
      /\ s.objs[o].life = "alive" /\ s.objs[o].marks = 0
      /\ s.objs[o].hwnd = objs[o].hwnd /\ s.objs[o].recurse = objs[o].recurse
      BY <1>1, AliveNow
<1>3. n \in Name
      BY FullNames
<1>4. objs[o].hwnd = NoHwnd /\ objs[o].recurse = 0
      BY <1>1, NowParts, SoundParts DEF HookInv, UnusedIsFresh
<1> HIDE DEF s, n
<1>5. PICK out \in AttachOutcomes(s, o, h, n) : Becomes(IF out.ok THEN out.s ELSE Deleted(out.s, o))
      BY <1>1
<1>6. Gentle(s, out.s) /\ (~out.ok => out.s = s)
      BY <1>2, <1>3, OutcomesGentle DEF Sensible
<1> DEFINE t == IF out.ok THEN out.s ELSE Deleted(out.s, o)
<1>7. Gentle(Now, t)
  <2>1. CASE out.ok
        BY <1>2, <1>6, <2>1, GentleTransitive
  <2>2. CASE ~out.ok
    <3>1. Gentle(s, Deleted(s, o))
          BY <1>2, <1>4, DeletedGentle
    <3>2. t = Deleted(s, o)
          BY <1>6, <2>2
    <3> QED BY <1>2, <3>1, <3>2, GentleTransitive
  <2> QED BY <2>1, <2>2
<1> HIDE DEF t
<1>8. Becomes(t)
      BY <1>5 DEF t
<1> QED BY <1>1, <1>7, <1>8, ClientKeeps

\* So does FetchCxxobjFromHwnd_as_partial().
LEMMA FetchAsPartialKeeps ==
  ASSUME HookInv, Sensible, NEW o \in Obj, NEW h \in Hwnd, NEW sig \in Sig \cup {NoSig},
         FetchAsPartial(o, h, sig)
  PROVE  HookInv'
<1> DEFINE s == [Now EXCEPT !.objs[o].life = "alive"]
           n == FullName(o, sig)
<1>0. CASE Found(h, sig) = o
  <2>1. o # NoObj
        BY SubclassAssumption
  <2>2. UNCHANGED <<windows, stack>> /\ Becomes([Now EXCEPT !.faults = {}])
        BY <1>0, <2>1 DEF FetchAsPartial, FaultIf
  <2>3. [Now EXCEPT !.faults = {}] = Now
    <3>1. faults = {}
          BY DEF FetchAsPartial, Calling
    <3> QED BY <3>1 DEF Now
  <2>4. UNCHANGED vars
        BY <2>2, <2>3 DEF Becomes, Now, vars
  <2> QED BY <2>4, StandStill
<1> SUFFICES ASSUME Found(h, sig) # o PROVE HookInv'
    BY <1>0
<1>1. /\ windows[h] # "dying" /\ UNCHANGED <<windows, stack>>
      /\ objs[o].life = "unused" \/ Usable(o)
      /\ \E out \in AttachOutcomes(s, o, h, n) : Becomes([out.s EXCEPT !.objs[o].partial = TRUE])
  <2>1. "FetchOther" \notin Calls
        BY DEF Sensible, Recommended
  <2> QED BY <2>1 DEF FetchAsPartial
<1>2. /\ Gentle(Now, s) /\ Sound(s) /\ s.props = props /\ windows[h] \in {"live", "dead"}
      /\ s.objs[o].life = "alive" /\ s.objs[o].marks = 0
      BY <1>1, AliveNow
<1>3. n \in Name
      BY FullNames
<1> HIDE DEF s, n
<1>4. PICK out \in AttachOutcomes(s, o, h, n) : Becomes([out.s EXCEPT !.objs[o].partial = TRUE])
      BY <1>1
<1>5. Gentle(s, out.s)
      BY <1>2, <1>3, OutcomesGentle DEF Sensible
<1> DEFINE t == [out.s EXCEPT !.objs[o].partial = TRUE]
<1>6. Gentle(out.s, t)
      BY <1>5, PartialGentle DEF Gentle
<1>7. Becomes(t)
      BY <1>4
<1> HIDE DEF t
<1>8. Gentle(Now, t)
      BY <1>2, <1>5, <1>6, GentleTransitive
<1> QED BY <1>1, <1>7, <1>8, ClientKeeps

\* So does AttachHwnd().
LEMMA AttachKeeps ==
  ASSUME HookInv, Sensible, NEW o \in Obj, NEW h \in Hwnd, NEW sig \in Sig \cup {NoSig},
         Attach(o, h, sig)
  PROVE  HookInv'
<1>1. /\ windows[h] # "dying" /\ Usable(o) /\ UNCHANGED <<windows, stack>>
      /\ \E out \in AttachOutcomes(Now, o, h, FullName(o, sig)) : Becomes(out.s)
      BY DEF Attach
<1>2. /\ Sound(Now) /\ Now.props = props /\ Now.objs = objs /\ windows[h] \in {"live", "dead"}
      BY <1>1, NowParts DEF HookInv, WindowSound, WindowFrames
<1>3. Now.objs[o].life = "alive" /\ Now.objs[o].marks = 0
      BY <1>1, <1>2 DEF Usable
<1>4. PICK out \in AttachOutcomes(Now, o, h, FullName(o, sig)) : Becomes(out.s)
      BY <1>1
<1>5. Gentle(Now, out.s)
      BY <1>2, <1>3, FullNames, OutcomesGentle DEF Sensible
<1> QED BY <1>1, <1>4, <1>5, ClientKeeps

\* So does DetachHwnd().
LEMMA DetachKeeps ==
  ASSUME HookInv, NEW o \in Obj, NEW delete \in BOOLEAN, Detach(o, delete)
  PROVE  HookInv'
<1>1. Becomes(DetachHwnd(Now, o, delete)) /\ UNCHANGED <<windows, stack>>
      BY DEF Detach
<1>2. Gentle(Now, DetachHwnd(Now, o, delete))
      BY DetachHwndGentle DEF HookInv
<1> QED BY <1>1, <1>2, ClientKeeps

\* So does delete, of an object that hooks nothing or is part of another one.
LEMMA DeleteKeeps ==
  ASSUME HookInv, Sensible, NEW o \in Obj, Delete(o)
  PROVE  HookInv'
<1>1. /\ Usable(o) /\ Becomes(Deleted(Now, o)) /\ UNCHANGED <<windows, stack>>
      BY DEF Delete
<1>2. (objs[o].partial \/ objs[o].hwnd = NoHwnd) /\ ~\E i \in DOMAIN stack : stack[i].obj = o
      BY DEF Delete, Calling, Sensible, Recommended
<1>3. Sound(Now) /\ Now.objs = objs
      BY NowParts DEF HookInv
<1>4. objs[o].recurse = 0
  <2>1. FramesOf(stack, o) = {}
        BY <1>2 DEF FramesOf
  <2> QED BY <2>1, FS_EmptySet DEF HookInv, StackSound
<1>5. Gentle(Now, Deleted(Now, o))
      BY <1>1, <1>2, <1>3, <1>4, DeletedGentle DEF Usable
<1> QED BY <1>1, <1>5, ClientKeeps

-------------------------------------------------------------------------------
(***************************************************************************)
(* Messages.                                                               *)
(***************************************************************************)
\* The first of some procedures and the others.
LEMMA HeadAndTail ==
  ASSUME NEW seq \in Seq(Obj), seq # <<>>, Distinct(seq)
  PROVE  /\ Head(seq) \in Obj /\ Tail(seq) \in Seq(Obj) /\ Distinct(Tail(seq))
         /\ IsOn(Head(seq), seq) /\ ~IsOn(Head(seq), Tail(seq))
         /\ \A x : IsOn(x, seq) => x = Head(seq) \/ IsOn(x, Tail(seq))
         /\ \A x : IsOn(x, Tail(seq)) => IsOn(x, seq)
<1> DEFINE t == Tail(seq)
           o == Head(seq)
<1>1. /\ o \in Obj /\ o = seq[1] /\ 1 \in DOMAIN seq /\ t \in Seq(Obj)
      /\ DOMAIN t = 1 .. Len(seq) - 1 /\ DOMAIN seq = 1 .. Len(seq) /\ Len(seq) \in Nat \ {0}
      OBVIOUS
<1>2. \A i \in DOMAIN t : t[i] = seq[i + 1] /\ i + 1 \in DOMAIN seq /\ i + 1 # 1
      BY <1>1
<1>3. \A j \in DOMAIN seq : j # 1 => j - 1 \in DOMAIN t /\ t[j - 1] = seq[j]
  <2> SUFFICES ASSUME NEW j \in DOMAIN seq, j # 1 PROVE j - 1 \in DOMAIN t /\ t[j - 1] = seq[j]
      OBVIOUS
  <2>1. j - 1 \in DOMAIN t /\ (j - 1) + 1 = j
        BY <1>1
  <2> QED BY <1>2, <2>1
<1> HIDE DEF t, o
<1>4. Distinct(t)
  <2>1. \A i, j \in DOMAIN t : i # j => i + 1 # j + 1
        BY <1>1
  <2> QED BY <1>2, <2>1 DEF Distinct
<1>5. ~IsOn(o, t)
      BY <1>1, <1>2 DEF IsOn, Distinct
<1>6. IsOn(o, seq)
      BY <1>1 DEF IsOn
<1>7. ASSUME NEW x, IsOn(x, seq) PROVE x = o \/ IsOn(x, t)
      BY <1>1, <1>3, <1>7 DEF IsOn
<1>8. ASSUME NEW x, IsOn(x, t) PROVE IsOn(x, seq)
      BY <1>2, <1>8 DEF IsOn
<1> QED BY <1>1, <1>4, <1>5, <1>6, <1>7, <1>8 DEF t, o

\* The call that Enter() makes of an object.
CallOf(h, msg, seq, first) ==
  [obj |-> Head(seq), hwnd |-> h, msg |-> msg, rest |-> Tail(seq), passed |-> FALSE, first |-> first]

\* What Enter() adds to the stack.
LEMMA EnterSound ==
  ASSUME Sound(Now), NEW below, StackSound(below, objs), NEW h \in Hwnd,
         NEW msg \in {"msg", "WM_NCDESTROY"}, NEW seq \in Seq(Obj), seq # <<>>, Distinct(seq),
         IsOn(Head(seq), chain[h]), NEW first \in BOOLEAN,
         first \/ (/\ below # <<>>
                   /\ \A i \in DOMAIN below : IsOn(below[i].obj, seq) => Parted(below, i, Len(below))),
         first => Cardinality(Firsts(below)) < MaxDepth,
         Enter(below, h, msg, seq, first), UNCHANGED <<props, chain>>
  PROVE  /\ Sound(Now)' /\ StackSound(stack, objs)'
         /\ Pushed(below, stack', CallOf(h, msg, seq, first))
         /\ stack' = Append(below, CallOf(h, msg, seq, first))
         /\ \A x \in Obj : objs'[x].hwnd = objs[x].hwnd
<1> DEFINE o == Head(seq)
           f == CallOf(h, msg, seq, first)
           p == [objs[o] EXCEPT !.recurse = @ + 1]
           s == [Now EXCEPT !.objs = [Now.objs EXCEPT ![o] = p]]
<1>1. /\ Sound(Now) /\ Now.objs = objs /\ Now.chain = chain /\ Now.props = props
      /\ objs \in [Obj -> Fields] /\ faults = {}
      BY NowParts
<1>2. /\ o \in Obj /\ Tail(seq) \in Seq(Obj) /\ Distinct(Tail(seq)) /\ IsOn(o, seq)
      /\ ~IsOn(o, Tail(seq)) /\ \A x : IsOn(x, Tail(seq)) => IsOn(x, seq)
      BY HeadAndTail
<1>3. stack' = Append(below, f)
      BY DEF Enter, CallOf
<1>4. f \in Frame /\ f.obj = o /\ f.rest = Tail(seq) /\ f.first = first
      BY <1>2 DEF CallOf, Frame
<1>5. below \in Seq(Frame)
      BY DEF StackSound
<1>6. objs[o].hwnd = h /\ objs[o].life = "alive" /\ props[h][objs[o].name] = o
      BY <1>2, NowParts, SubclassAssumption
<1>7. objs' = [objs EXCEPT ![o] = p]
      BY DEF Enter
<1>8. faults' = faults
      BY <1>6 DEF Enter, FaultIf
<1>9. /\ p \in Fields /\ p.hwnd = objs[o].hwnd /\ p.name = objs[o].name /\ p.life = objs[o].life
      /\ p.marks = objs[o].marks /\ p.recurse = objs[o].recurse + 1
      BY <1>1, <1>2 DEF Fields
<1> HIDE DEF p, f, o
<1>10. Sound(s) /\ s.objs = [objs EXCEPT ![o] = p] /\ s.props = props /\ s.chain = chain
       BY <1>1, <1>2, <1>6, <1>9, SameHookSound
<1> HIDE DEF s
<1>11. Becomes(s)
  <2>1. s.faults = {}
        BY <1>10, SoundParts
  <2> QED BY <1>1, <1>7, <1>8, <1>10, <2>1 DEF Becomes
<1>12. Sound(Now)'
  <2>1. Now' = s
        BY <1>10, <1>11, SoundParts, BecomesNow
  <2> QED BY <1>10, <2>1
<1>13. Pushed(below, stack', f)
  <2> DEFINE u == Append(below, f)
  <2>1. /\ u \in Seq(Frame) /\ Len(u) = Len(below) + 1 /\ u[Len(below) + 1] = f
        /\ \A i \in DOMAIN below : u[i] = below[i]
        BY <1>4, <1>5
  <2>2. stack' = u
        BY <1>3
  <2> HIDE DEF u
  <2> QED BY <1>4, <2>1, <2>2 DEF Pushed
<1>14. \A x \in Obj : /\ objs'[x].life = objs[x].life /\ objs'[x].hwnd = objs[x].hwnd
                      /\ objs'[x].recurse = objs[x].recurse + (IF x = f.obj THEN 1 ELSE 0)
  <2>1. \A x \in Obj : objs[x].recurse \in Nat
        BY <1>1, FieldParts
  <2> QED BY <1>1, <1>2, <1>4, <1>7, <1>9, <2>1
<1>15. f.first \/ (/\ below # <<>>
                   /\ \A i \in DOMAIN below : below[i].obj = f.obj \/ IsOn(below[i].obj, f.rest)
                                               => Parted(below, i, Len(below)))
       BY <1>2, <1>4
<1>16. StackSound(stack', objs')
  <2>1. StackSound(below, objs) /\ objs[f.obj].life = "alive"
        BY <1>4, <1>6
  <2>2. \A x \in Obj : /\ objs'[x].life = objs[x].life
                       /\ objs'[x].recurse = objs[x].recurse + (IF x = f.obj THEN 1 ELSE 0)
        BY <1>14
  <2>3. Distinct(f.rest) /\ ~IsOn(f.obj, f.rest)
        BY <1>2, <1>4
  <2>4. f.first => Cardinality(Firsts(below)) < MaxDepth
        BY <1>4
  <2> QED BY <1>13, <1>15, <2>1, <2>2, <2>3, <2>4, PushSound
<1> QED BY <1>3, <1>12, <1>13, <1>14, <1>16 DEF f

\* A call is added to those under way.
LEMMA FramesPushed ==
  ASSUME NEW st, NEW w, NEW p, WindowFrames(st, w, p), st \in Seq(Frame), NEW f \in Frame,
         NEW v \in [Hwnd -> {"live", "dying", "dead"}], NEW q,
         \A o \in Obj : q[o].hwnd # NoHwnd => v[q[o].hwnd] # "dead",
         \A h \in Hwnd : w[h] = "dying" => v[h] = "dying",
         f.msg = "WM_NCDESTROY" =>
           /\ v[f.hwnd] = "dying"
           /\ \/ f.first /\ w[f.hwnd] # "dying"
              \/ ~f.first /\ \E j \in DOMAIN st : st[j].msg = "WM_NCDESTROY" /\ st[j].hwnd = f.hwnd
  PROVE  WindowFrames(Append(st, f), v, q)
<1> DEFINE n == Len(st)
           u == Append(st, f)
<1>1. /\ n \in Nat /\ DOMAIN st = 1 .. n /\ DOMAIN u = 1 .. n + 1 /\ u[n + 1] = f
      /\ \A i \in DOMAIN st : u[i] = st[i] /\ i \in DOMAIN u
      OBVIOUS
<1> HIDE DEF n, u
<1>2. \A j \in DOMAIN u : j \in DOMAIN st \/ j = n + 1
      BY <1>1
<1>3. \A i \in DOMAIN st : st[i].hwnd \in Hwnd
      BY FrameParts
<1>4. \A j \in DOMAIN st : st[j].msg = "WM_NCDESTROY" =>
        w[st[j].hwnd] = "dying" /\ \E i \in 1 .. j : Begins(st[i], st[j].hwnd)
      BY DEF WindowFrames
<1>5. \A h \in Hwnd : \A i, j \in DOMAIN st : Begins(st[i], h) /\ Begins(st[j], h) => i = j
      BY DEF WindowFrames
<1>6. ASSUME NEW j \in DOMAIN u, u[j].msg = "WM_NCDESTROY"
      PROVE  v[u[j].hwnd] = "dying" /\ \E i \in 1 .. j : Begins(u[i], u[j].hwnd)
  <2>1. CASE j \in DOMAIN st
    <3>1. PICK i \in 1 .. j : Begins(st[i], st[j].hwnd)
          BY <1>1, <1>4, <1>6, <2>1
    <3>2. i \in DOMAIN st
          BY <1>1, <2>1
    <3> QED BY <1>1, <1>3, <1>4, <1>6, <2>1, <3>1, <3>2
  <2>2. CASE j = n + 1 /\ f.first
    <3>1. Begins(u[j], u[j].hwnd) /\ j \in 1 .. j
          BY <1>1, <1>6, <2>2 DEF Begins
    <3> QED BY <1>1, <1>6, <2>2, <3>1
  <2>3. CASE j = n + 1 /\ ~f.first
    <3>1. PICK k \in DOMAIN st : st[k].msg = "WM_NCDESTROY" /\ st[k].hwnd = f.hwnd
          BY <1>1, <1>6, <2>3
    <3>2. PICK i \in 1 .. k : Begins(st[i], f.hwnd)
          BY <1>4, <3>1
    <3>3. i \in DOMAIN st /\ i \in 1 .. j
          BY <1>1, <2>3
    <3> QED BY <1>1, <1>6, <2>3, <3>2, <3>3
  <2> QED BY <1>2, <2>1, <2>2, <2>3
<1>7. ASSUME NEW h \in Hwnd, Begins(f, h), NEW i \in DOMAIN st PROVE ~Begins(st[i], h)
      BY <1>3, <1>4, <1>7 DEF Begins
<1>8. ASSUME NEW h \in Hwnd, NEW i \in DOMAIN u, NEW j \in DOMAIN u, Begins(u[i], h), Begins(u[j], h)
      PROVE  i = j
      BY <1>1, <1>2, <1>5, <1>7, <1>8
<1> QED BY <1>6, <1>8 DEF WindowFrames, u

\* SubWndProc() has passed its message on.
Waiting == [stack EXCEPT ![Len(stack)].passed = TRUE]

\* What remains true once the innermost call has passed its message on: an object of a
\* dying window may now be told by that message only.
LEMMA WaitingParts ==
  ASSUME HookInv, stack # <<>>
  PROVE  /\ Waiting \in Seq(Frame) /\ Len(Waiting) = Len(stack) /\ DOMAIN Waiting = DOMAIN stack
         /\ Len(stack) \in DOMAIN stack
         /\ \A i \in DOMAIN stack :
              /\ Waiting[i].obj = stack[i].obj /\ Waiting[i].hwnd = stack[i].hwnd
              /\ Waiting[i].msg = stack[i].msg /\ Waiting[i].rest = stack[i].rest
              /\ Waiting[i].first = stack[i].first
              /\ i # Len(stack) => Waiting[i] = stack[i]
         /\ StackSound(Waiting, objs) /\ WindowFrames(Waiting, windows, objs)
         /\ \A h \in Hwnd, o \in Obj : windows[h] = "dying" /\ IsOn(o, chain[h]) =>
              \/ \E j \in DOMAIN Waiting : Tells(Waiting[j], h, o)
              \/ Top.hwnd = h /\ Top.msg = "WM_NCDESTROY" /\ IsOn(o, Top.rest)
<1> DEFINE n == Len(stack)
           u == Waiting
<1>1. /\ stack \in Seq(Frame) /\ n \in DOMAIN stack /\ DOMAIN stack = 1 .. n /\ n \in Nat
      /\ Top = stack[n]
      BY DEF HookInv, StackSound, Top
<1>2. stack[n] \in Frame
      BY <1>1
<1> DEFINE f == [stack[n] EXCEPT !.passed = TRUE]
<1>3. /\ f \in Frame /\ f.obj = stack[n].obj /\ f.hwnd = stack[n].hwnd /\ f.msg = stack[n].msg
      /\ f.rest = stack[n].rest /\ f.first = stack[n].first
      BY <1>2 DEF Frame
<1> HIDE DEF f
<1>4. u = [stack EXCEPT ![n] = f]
      BY DEF Waiting, f
<1>5. /\ u \in Seq(Frame) /\ Len(u) = n /\ DOMAIN u = DOMAIN stack
      BY <1>1, <1>3, <1>4
<1>6. \A i \in DOMAIN stack : u[i] = IF i = n THEN f ELSE stack[i]
      BY <1>1, <1>4
<1> HIDE DEF u, n
<1>7. \A i \in DOMAIN stack :
        /\ u[i].obj = stack[i].obj /\ u[i].hwnd = stack[i].hwnd
        /\ u[i].msg = stack[i].msg /\ u[i].rest = stack[i].rest
        /\ u[i].first = stack[i].first
      BY <1>3, <1>6
<1>8. StackSound(u, objs)
  <2>1. \A i, j \in DOMAIN stack : Parted(stack, i, j) => Parted(u, i, j)
    <3> SUFFICES ASSUME NEW i \in DOMAIN stack, NEW j \in DOMAIN stack, Parted(stack, i, j)
                 PROVE  Parted(u, i, j)
        OBVIOUS
    <3>1. PICK k \in i + 1 .. j : stack[k].first
          BY DEF Parted
    <3>2. k \in DOMAIN stack
          BY <1>1
    <3> QED BY <1>7, <3>1, <3>2 DEF Parted
  <2>2. \A o \in Obj : FramesOf(u, o) = FramesOf(stack, o)
        BY <1>5, <1>7 DEF FramesOf
  <2>3. Firsts(u) = Firsts(stack)
        BY <1>5, <1>7 DEF Firsts
  <2>4. u # <<>> => u[1].first
    <3>1. 1 \in DOMAIN stack /\ stack # <<>>
          BY <1>1
    <3> QED BY <1>7, <3>1 DEF HookInv, StackSound
  <2>5. StackSound(stack, objs)
        BY DEF HookInv
  <2>6. \A o \in Obj : objs[o].recurse = Cardinality(FramesOf(u, o))
        BY <2>2, <2>5 DEF StackSound
  <2>7. Cardinality(Firsts(u)) <= MaxDepth
        BY <2>3, <2>5 DEF StackSound
  <2>8. /\ \A i \in DOMAIN u : objs[u[i].obj].life = "alive"
        /\ \A j \in DOMAIN u : Distinct(u[j].rest)
        BY <1>5, <1>7, <2>5 DEF StackSound
  <2>9. \A i, j \in DOMAIN u : i < j /\ u[i].obj = u[j].obj => Parted(u, i, j)
        BY <1>5, <1>7, <2>1, <2>5 DEF StackSound
  <2>10. \A i, j \in DOMAIN u : i <= j /\ IsOn(u[i].obj, u[j].rest) => Parted(u, i, j)
        BY <1>5, <1>7, <2>1, <2>5 DEF StackSound
  <2> QED BY <1>5, <2>4, <2>6, <2>7, <2>8, <2>9, <2>10 DEF StackSound
<1>9. WindowFrames(u, windows, objs)
  <2>1. WindowFrames(stack, windows, objs)
        BY DEF HookInv, WindowSound
  <2>2. \A i \in DOMAIN stack, h \in Hwnd : Begins(u[i], h) <=> Begins(stack[i], h)
        BY <1>7 DEF Begins
  <2>3. \A i \in DOMAIN stack : stack[i].hwnd \in Hwnd
        BY <1>1, FrameParts
  <2>4. ASSUME NEW j \in DOMAIN u, u[j].msg = "WM_NCDESTROY"
        PROVE  windows[u[j].hwnd] = "dying" /\ \E i \in 1 .. j : Begins(u[i], u[j].hwnd)
    <3>1. /\ windows[stack[j].hwnd] = "dying" /\ stack[j].hwnd = u[j].hwnd
          /\ \E i \in 1 .. j : Begins(stack[i], stack[j].hwnd)
          BY <1>5, <1>7, <2>1, <2>4 DEF WindowFrames
    <3>2. \A i \in 1 .. j : i \in DOMAIN stack
          BY <1>1, <1>5
    <3> QED BY <1>5, <2>2, <2>3, <3>1, <3>2
  <2>5. \A h \in Hwnd : \A i, j \in DOMAIN u : Begins(u[i], h) /\ Begins(u[j], h) => i = j
        BY <1>5, <2>1, <2>2 DEF WindowFrames
  <2> QED BY <2>1, <2>4, <2>5 DEF WindowFrames
<1>10. ASSUME NEW h \in Hwnd, NEW o \in Obj, windows[h] = "dying", IsOn(o, chain[h])
       PROVE  \/ \E j \in DOMAIN u : Tells(u[j], h, o)
              \/ Top.hwnd = h /\ Top.msg = "WM_NCDESTROY" /\ IsOn(o, Top.rest)
  <2>1. PICK j \in DOMAIN stack : Tells(stack[j], h, o)
        BY <1>10 DEF HookInv, WindowSound, AllTold
  <2>2. CASE j # n \/ stack[j].obj = o
        BY <1>5, <1>6, <1>7, <2>1, <2>2 DEF Tells
  <2>3. CASE j = n /\ stack[j].obj # o
        BY <1>1, <2>1, <2>3 DEF Tells
  <2> QED BY <2>2, <2>3
<1> QED BY <1>1, <1>5, <1>6, <1>7, <1>8, <1>9, <1>10 DEF u, n

\* The procedures of a window, as a message finds them.
LEMMA ChainParts ==
  ASSUME HookInv, NEW h \in Hwnd, chain[h] # <<>>
  PROVE  /\ chain[h] \in Seq(Obj) /\ Distinct(chain[h]) /\ IsOn(Head(chain[h]), chain[h])
         /\ Cardinality(Firsts(stack)) = UnderWay
BY NowParts, HeadAndTail DEF HookInv, UnderWay, Firsts

\* A message to a live window keeps the invariant.
LEMMA SendKeeps ==
  ASSUME HookInv, NEW h \in Hwnd, Send(h)
  PROVE  HookInv'
<1> DEFINE f == CallOf(h, "msg", chain[h], TRUE)
<1>1. /\ UnderWay < MaxDepth /\ chain[h] # <<>> /\ UNCHANGED <<windows, props, chain>>
      /\ Enter(stack, h, "msg", chain[h], TRUE)
      BY DEF Send
<1>2. /\ Sound(Now)' /\ StackSound(stack, objs)' /\ stack' = Append(stack, f)
      /\ Pushed(stack, stack', f) /\ \A x \in Obj : objs'[x].hwnd = objs[x].hwnd
      BY <1>1, ChainParts, EnterSound DEF HookInv
<1>3. f.msg # "WM_NCDESTROY"
      BY DEF CallOf
<1> HIDE DEF f
<1>4. WindowFrames(stack, windows, objs) /\ AllTold(stack, windows, chain) /\ stack \in Seq(Frame)
      BY DEF HookInv, WindowSound, StackSound
<1>5. f \in Frame
      BY <1>2 DEF Pushed
<1>6. WindowFrames(stack', windows, objs')
  <2>1. windows \in [Hwnd -> {"live", "dying", "dead"}]
        /\ \A o \in Obj : objs'[o].hwnd # NoHwnd => windows[objs'[o].hwnd] # "dead"
        BY <1>2, <1>4 DEF WindowFrames
  <2> QED BY <1>2, <1>3, <1>4, <1>5, <2>1, FramesPushed
<1>7. AllTold(stack', windows, chain)
  <2>1. \A j \in DOMAIN stack : j \in DOMAIN stack' /\ stack'[j] = stack[j]
        BY <1>2, <1>4, <1>5
  <2> QED BY <1>4, <2>1 DEF AllTold
<1> QED BY <1>1, <1>2, <1>6, <1>7 DEF HookInv, WindowSound

\* So does the message that destroys one.
LEMMA DestroyWindowKeeps ==
  ASSUME HookInv, NEW h \in Hwnd, DestroyWindow(h)
  PROVE  HookInv'
<1>1. windows[h] = "live" /\ UNCHANGED <<props, chain>> /\ UnderWay < MaxDepth
      BY DEF DestroyWindow
<1>2. WindowFrames(stack, windows, objs) /\ AllTold(stack, windows, chain) /\ stack \in Seq(Frame)
      BY DEF HookInv, WindowSound, StackSound
<1>3. windows \in [Hwnd -> {"live", "dying", "dead"}]
      BY <1>2 DEF WindowFrames
<1>4. CASE /\ chain[h] = <<>> /\ windows' = [windows EXCEPT ![h] = "dead"]
           /\ UNCHANGED <<objs, stack, faults>>
  <2>1. \A g \in Hwnd : windows'[g] = IF g = h THEN "dead" ELSE windows[g]
        BY <1>3, <1>4
  <2>2. windows' \in [Hwnd -> {"live", "dying", "dead"}]
        BY <1>3, <1>4
  <2>3. \A o \in Obj : objs[o].hwnd # NoHwnd => objs[o].hwnd \in Hwnd /\ objs[o].hwnd # h
    <3>1. \A o : ~IsOn(o, chain[h])
          BY <1>4 DEF IsOn
    <3>2. \A o \in Obj : objs[o].hwnd \in Hwnd \cup {NoHwnd}
          BY NowParts, FieldParts DEF HookInv
    <3> QED BY <3>1, <3>2, NowParts DEF HookInv
  <2>4. \A j \in DOMAIN stack : stack[j].hwnd \in Hwnd
        BY <1>2, FrameParts
  <2>5. WindowFrames(stack, windows', objs)
        BY <1>1, <1>2, <2>1, <2>2, <2>3, <2>4 DEF WindowFrames
  <2>6. AllTold(stack, windows', chain)
        BY <1>2, <2>1 DEF AllTold
  <2>7. Sound(Now)'
    <3>1. Now' = Now
          BY <1>1, <1>4 DEF Now
    <3> QED BY <3>1 DEF HookInv
  <2> QED BY <1>1, <1>4, <2>5, <2>6, <2>7 DEF HookInv, WindowSound
<1>5. CASE /\ chain[h] # <<>> /\ windows' = [windows EXCEPT ![h] = "dying"]
           /\ Enter(stack, h, "WM_NCDESTROY", chain[h], TRUE)
  <2> DEFINE f == CallOf(h, "WM_NCDESTROY", chain[h], TRUE)
  <2>1. \A g \in Hwnd : windows'[g] = IF g = h THEN "dying" ELSE windows[g]
        BY <1>3, <1>5
  <2>2. windows' \in [Hwnd -> {"live", "dying", "dead"}]
        BY <1>3, <1>5
  <2>3. /\ Sound(Now)' /\ StackSound(stack, objs)' /\ stack' = Append(stack, f)
        /\ Pushed(stack, stack', f) /\ \A x \in Obj : objs'[x].hwnd = objs[x].hwnd
        BY <1>1, <1>5, ChainParts, EnterSound DEF HookInv
  <2>4. /\ f.msg = "WM_NCDESTROY" /\ f.hwnd = h /\ f.first /\ f.obj = Head(chain[h])
        /\ f.rest = Tail(chain[h]) /\ ~f.passed
        BY DEF CallOf
  <2> HIDE DEF f
  <2>5. f \in Frame
        BY <2>3 DEF Pushed
  <2>6. WindowFrames(stack', windows', objs')
    <3>1. \A o \in Obj : objs'[o].hwnd # NoHwnd => windows'[objs'[o].hwnd] # "dead"
      <4>1. \A o \in Obj : objs[o].hwnd \in Hwnd \cup {NoHwnd}
            BY NowParts, FieldParts DEF HookInv
      <4> QED BY <1>2, <2>1, <2>3, <4>1 DEF WindowFrames
    <3>2. \A g \in Hwnd : windows[g] = "dying" => windows'[g] = "dying"
          BY <2>1
    <3>3. windows'[f.hwnd] = "dying" /\ windows[f.hwnd] # "dying"
          BY <1>1, <2>1, <2>4
    <3> QED BY <1>2, <2>2, <2>3, <2>4, <2>5, <3>1, <3>2, <3>3, FramesPushed
  <2>7. AllTold(stack', windows', chain)
    <3>1. \A j \in DOMAIN stack : j \in DOMAIN stack' /\ stack'[j] = stack[j]
          BY <1>2, <2>3, <2>5
    <3>2. Len(stack) + 1 \in DOMAIN stack' /\ stack'[Len(stack) + 1] = f
          BY <1>2, <2>3, <2>5
    <3>3. ASSUME NEW g \in Hwnd, NEW o \in Obj, windows'[g] = "dying", IsOn(o, chain[g])
          PROVE  \E j \in DOMAIN stack' : Tells(stack'[j], g, o)
      <4>1. CASE g = h
        <5>1. o = Head(chain[h]) \/ IsOn(o, Tail(chain[h]))
              BY <1>5, <3>3, <4>1, ChainParts, HeadAndTail
        <5>2. Tells(f, g, o)
              BY <2>4, <4>1, <5>1 DEF Tells
        <5> QED BY <3>2, <5>2
      <4>2. CASE g # h
        <5>1. windows[g] = "dying"
              BY <2>1, <3>3, <4>2
        <5> QED BY <1>2, <3>1, <3>3, <5>1 DEF AllTold
      <4> QED BY <4>1, <4>2
    <3> QED BY <3>3 DEF AllTold
  <2> QED BY <1>1, <2>3, <2>6, <2>7 DEF HookInv, WindowSound
<1> QED BY <1>4, <1>5 DEF DestroyWindow

\* So does DefSubclassProc().
LEMMA PassOnKeeps ==
  ASSUME HookInv, PassOn
  PROVE  HookInv'
<1> DEFINE n == Len(stack)
           h == Top.hwnd
           rest == StillOn(h, Top.rest)
           f == CallOf(h, Top.msg, rest, FALSE)
<1>1. /\ stack # <<>> /\ UNCHANGED <<windows, props, chain>>
      /\ \/ rest = <<>> /\ stack' = Waiting /\ UNCHANGED <<objs, faults>>
         \/ rest # <<>> /\ Enter(Waiting, h, Top.msg, rest, FALSE)
      BY DEF PassOn, Waiting
<1>2. /\ Waiting \in Seq(Frame) /\ Len(Waiting) = n /\ DOMAIN Waiting = DOMAIN stack
      /\ n \in DOMAIN stack /\ stack \in Seq(Frame) /\ Top = stack[n]
      /\ \A i \in DOMAIN stack :
           /\ Waiting[i].obj = stack[i].obj /\ Waiting[i].hwnd = stack[i].hwnd
           /\ Waiting[i].msg = stack[i].msg /\ Waiting[i].rest = stack[i].rest
      /\ StackSound(Waiting, objs) /\ WindowFrames(Waiting, windows, objs)
      BY <1>1, WaitingParts DEF HookInv, StackSound, Top
<1>3. \A g \in Hwnd, o \in Obj : windows[g] = "dying" /\ IsOn(o, chain[g]) =>
        \/ \E j \in DOMAIN Waiting : Tells(Waiting[j], g, o)
        \/ h = g /\ Top.msg = "WM_NCDESTROY" /\ IsOn(o, Top.rest)
      BY <1>1, WaitingParts
<1>4. h \in Hwnd /\ Top.rest \in Seq(Obj) /\ Top.msg \in {"msg", "WM_NCDESTROY"}
      BY <1>2, FrameParts
<1>5. Distinct(Top.rest)
      BY <1>2 DEF HookInv, StackSound
<1>6. /\ rest \in Seq(Obj) /\ Distinct(rest)
      /\ \A x : IsOn(x, rest) <=> IsOn(x, Top.rest) /\ IsOn(x, chain[h])
  <2>1. \A x : x \in AllOn(chain[h]) <=> IsOn(x, chain[h])
        BY DEF AllOn, IsOn
  <2> QED BY <1>4, <1>5, <2>1, OnlyKeeps DEF StillOn
<1>7. n \in DOMAIN Waiting /\ Waiting[n].rest = Top.rest /\ Waiting[n].hwnd = h /\ Waiting[n].msg = Top.msg
      BY <1>2
<1>8. CASE rest = <<>> /\ stack' = Waiting /\ UNCHANGED <<objs, faults>>
  <2>1. \A x : ~IsOn(x, rest)
        BY <1>8 DEF IsOn
  <2>2. AllTold(Waiting, windows, chain)
        BY <1>3, <1>6, <2>1 DEF AllTold
  <2>3. Now' = Now
        BY <1>1, <1>8 DEF Now
  <2>4. Sound(Now)'
        BY <2>3 DEF HookInv
  <2> QED BY <1>1, <1>2, <1>8, <2>2, <2>4 DEF HookInv, WindowSound
<1>9. CASE rest # <<>> /\ Enter(Waiting, h, Top.msg, rest, FALSE)
  <2> HIDE DEF n, h, rest, f
  <2>1. \A i \in DOMAIN Waiting : IsOn(Waiting[i].obj, rest) => Parted(Waiting, i, Len(Waiting))
    <3>1. \A i \in DOMAIN Waiting : i <= n
          BY <1>2 DEF n
    <3> QED BY <1>2, <1>6, <1>7, <3>1 DEF StackSound
  <2>2. /\ Head(rest) \in Obj /\ IsOn(Head(rest), rest)
        /\ \A x : IsOn(x, rest) => x = Head(rest) \/ IsOn(x, Tail(rest))
        BY <1>6, <1>9, HeadAndTail
  <2>3. Waiting # <<>> /\ IsOn(Head(rest), chain[h])
        BY <1>2, <1>6, <2>2
  <2>4. /\ Sound(Now)' /\ StackSound(stack, objs)' /\ stack' = Append(Waiting, f)
        /\ Pushed(Waiting, stack', f) /\ \A x \in Obj : objs'[x].hwnd = objs[x].hwnd
        BY <1>1, <1>2, <1>4, <1>6, <1>9, <2>1, <2>3, EnterSound DEF HookInv, f
  <2>5. /\ f.msg = Top.msg /\ f.hwnd = h /\ f.first = FALSE /\ f.obj = Head(rest)
        /\ f.rest = Tail(rest) /\ ~f.passed
        BY DEF CallOf, f
  <2>6. f \in Frame
        BY <2>4 DEF Pushed
  <2>7. WindowFrames(stack', windows, objs')
    <3>1. /\ windows \in [Hwnd -> {"live", "dying", "dead"}]
          /\ \A o \in Obj : objs'[o].hwnd # NoHwnd => windows[objs'[o].hwnd] # "dead"
          BY <1>2, <2>4 DEF WindowFrames
    <3>2. f.msg = "WM_NCDESTROY" => windows[f.hwnd] = "dying"
          BY <1>2, <1>7, <2>5 DEF WindowFrames
    <3>3. f.msg = "WM_NCDESTROY" =>
            \E j \in DOMAIN Waiting : Waiting[j].msg = "WM_NCDESTROY" /\ Waiting[j].hwnd = f.hwnd
          BY <1>7, <2>5
    <3> QED BY <1>2, <2>4, <2>5, <2>6, <3>1, <3>2, <3>3, FramesPushed
  <2>8. AllTold(stack', windows, chain)
    <3>1. \A j \in DOMAIN Waiting : j \in DOMAIN stack' /\ stack'[j] = Waiting[j]
          BY <1>2, <2>4, <2>6
    <3>2. Len(Waiting) + 1 \in DOMAIN stack' /\ stack'[Len(Waiting) + 1] = f
          BY <1>2, <2>4, <2>6
    <3>3. ASSUME NEW g \in Hwnd, NEW o \in Obj, windows[g] = "dying", IsOn(o, chain[g])
          PROVE  \E j \in DOMAIN stack' : Tells(stack'[j], g, o)
      <4>1. CASE \E j \in DOMAIN Waiting : Tells(Waiting[j], g, o)
            BY <3>1, <4>1
      <4>2. CASE h = g /\ Top.msg = "WM_NCDESTROY" /\ IsOn(o, Top.rest)
        <5>1. o = Head(rest) \/ IsOn(o, Tail(rest))
              BY <1>6, <2>2, <3>3, <4>2
        <5>2. Tells(f, g, o)
              BY <2>5, <4>2, <5>1 DEF Tells
        <5> QED BY <3>2, <5>2
      <4> QED BY <1>3, <3>3, <4>1, <4>2
    <3> QED BY <3>3 DEF AllTold
  <2> QED BY <1>1, <2>4, <2>7, <2>8 DEF HookInv, WindowSound
<1> QED BY <1>1, <1>8, <1>9

-------------------------------------------------------------------------------
(***************************************************************************)
(* Returns.                                                                *)
(***************************************************************************)
\* The innermost call returns: if it was the first of the message by which a
\* window is destroyed, the window is gone, and no object hooks it any more.
LEMMA WindowsPopped ==
  ASSUME NEW st \in Seq(Frame), st # <<>>, NEW w, NEW p, NEW c, WindowFrames(st, w, p),
         AllTold(st, w, c), st[Len(st)].passed, NEW q, NEW d,
         \A h \in Hwnd, x \in Obj : IsOn(x, c[h]) => p[x].hwnd = h,
         \A x \in Obj : q[x].hwnd # NoHwnd => q[x].hwnd \in Hwnd /\ IsOn(x, d[q[x].hwnd]),
         \A h \in Hwnd, x \in Obj : IsOn(x, d[h]) => IsOn(x, c[h]) \/ w[h] = "live",
         st[Len(st)].msg = "WM_NCDESTROY" =>
           \A h \in Hwnd : IsOn(st[Len(st)].obj, d[h]) => w[h] = "live",
         NEW v,
         v = IF st[Len(st)].msg = "WM_NCDESTROY" /\ st[Len(st)].first
             THEN [w EXCEPT ![st[Len(st)].hwnd] = "dead"] ELSE w
  PROVE  WindowSound(SubSeq(st, 1, Len(st) - 1), v, d, q)
<1> DEFINE n == Len(st)
           u == SubSeq(st, 1, n - 1)
           top == st[n]
<1>1. /\ n \in Nat \ {0} /\ DOMAIN st = 1 .. n /\ n \in DOMAIN st
      /\ DOMAIN u = 1 .. n - 1 /\ \A i \in DOMAIN u : u[i] = st[i]
      OBVIOUS
<1> HIDE DEF u
<1>2. \A i \in DOMAIN st : st[i].hwnd \in Hwnd /\ st[i].obj \in Obj
      BY FrameParts
<1>3. w \in [Hwnd -> {"live", "dying", "dead"}]
      BY DEF WindowFrames
<1>4. \A i \in DOMAIN u : i \in DOMAIN st /\ i # n /\ u[i] = st[i] /\ 1 .. i \subseteq DOMAIN u
      BY <1>1
<1>5. top.hwnd \in Hwnd /\ top.passed
      BY <1>1, <1>2
<1> DEFINE gone(h) == Begins(top, h)
<1>6. \A h \in Hwnd : v[h] = IF gone(h) THEN "dead" ELSE w[h]
      BY <1>3, <1>5 DEF Begins
<1>7. v \in [Hwnd -> {"live", "dying", "dead"}]
      BY <1>3, <1>5
<1>8. \A h \in Hwnd : gone(h) => w[h] = "dying"
      BY <1>1 DEF WindowFrames, Begins
<1>9. \A i \in DOMAIN st : i \in DOMAIN u \/ i = n
      BY <1>1
<1> HIDE DEF n, top
<1>10. ASSUME NEW h \in Hwnd, gone(h), NEW j \in DOMAIN u, st[j].msg = "WM_NCDESTROY",
              st[j].hwnd = h
       PROVE  FALSE
  <2>1. j \in DOMAIN st
        BY <1>4, <1>10
  <2>2. PICK i \in 1 .. j : Begins(st[i], h)
        BY <1>10, <2>1 DEF WindowFrames
  <2>3. i \in DOMAIN u
        BY <1>4, <1>10
  <2>4. i = n
        BY <1>1, <1>4, <1>10, <2>2, <2>3 DEF WindowFrames, top
  <2> QED BY <1>4, <2>3, <2>4
<1>11. ASSUME NEW h \in Hwnd, NEW x \in Obj, w[h] = "dying", IsOn(x, d[h])
       PROVE  /\ IsOn(x, c[h])
              /\ \E j \in DOMAIN u : Tells(u[j], h, x)
  <2>1. IsOn(x, c[h])
        BY <1>11
  <2>2. PICK j \in DOMAIN st : Tells(st[j], h, x)
        BY <1>11, <2>1 DEF AllTold
  <2>3. j # n
    <3>1. SUFFICES ASSUME j = n PROVE FALSE
          OBVIOUS
    <3>2. top.msg = "WM_NCDESTROY" /\ top.obj = x
          BY <1>5, <2>2, <3>1 DEF Tells, top
    <3> QED BY <1>11, <3>2 DEF top, n
  <2> QED BY <1>4, <1>9, <2>1, <2>2, <2>3
<1>12. ASSUME NEW x \in Obj, q[x].hwnd # NoHwnd PROVE v[q[x].hwnd] # "dead"
  <2> DEFINE h == q[x].hwnd
  <2>1. h \in Hwnd /\ IsOn(x, d[h])
        BY <1>12
  <2> HIDE DEF h
  <2>2. w[h] # "dead"
    <3>1. CASE w[h] = "live"
          BY <3>1
    <3>2. CASE IsOn(x, c[h])
      <4>1. p[x].hwnd = h /\ h # NoHwnd
            BY <2>1, <3>2, SubclassAssumption
      <4> QED BY <4>1 DEF WindowFrames
    <3> QED BY <2>1, <3>1, <3>2
  <2>3. ~gone(h)
    <3>1. SUFFICES ASSUME gone(h) PROVE FALSE
          OBVIOUS
    <3>2. w[h] = "dying"
          BY <1>8, <2>1, <3>1
    <3>3. PICK j \in DOMAIN u : Tells(u[j], h, x)
          BY <1>11, <2>1, <3>2
    <3>4. st[j].msg = "WM_NCDESTROY" /\ st[j].hwnd = h
          BY <1>4, <3>3 DEF Tells
    <3> QED BY <1>10, <2>1, <3>1, <3>4
  <2> QED BY <1>6, <2>1, <2>2, <2>3 DEF h
<1>13. ASSUME NEW j \in DOMAIN u, u[j].msg = "WM_NCDESTROY"
       PROVE  v[u[j].hwnd] = "dying" /\ \E i \in 1 .. j : Begins(u[i], u[j].hwnd)
  <2> DEFINE h == st[j].hwnd
  <2>1. h \in Hwnd /\ u[j].hwnd = h /\ st[j].msg = "WM_NCDESTROY" /\ j \in DOMAIN st
        BY <1>2, <1>4, <1>13
  <2>2. w[h] = "dying"
        BY <2>1 DEF WindowFrames
  <2>3. PICK i \in 1 .. j : Begins(st[i], h)
        BY <2>1 DEF WindowFrames
  <2>4. u[i] = st[i]
        BY <1>4, <1>13
  <2>5. ~gone(h)
        BY <1>10, <2>1
  <2> QED BY <1>6, <2>1, <2>2, <2>3, <2>4, <2>5
<1>14. ASSUME NEW h \in Hwnd, NEW i \in DOMAIN u, NEW j \in DOMAIN u, Begins(u[i], h),
              Begins(u[j], h)
       PROVE  i = j
       BY <1>4, <1>14 DEF WindowFrames
<1>15. WindowFrames(u, v, q)
       BY <1>7, <1>12, <1>13, <1>14 DEF WindowFrames
<1>16. AllTold(u, v, d)
  <2>1. \A h \in Hwnd : v[h] = "dying" => w[h] = "dying"
        BY <1>6
  <2> QED BY <1>11, <2>1 DEF AllTold
<1> QED BY <1>15, <1>16 DEF WindowSound, u, n

\* A call is no longer counted.
LEMMA LeftSound ==
  ASSUME NEW s, Sound(s), NEW o \in Obj, s.objs[o].life = "alive", s.objs[o].recurse # 0
  PROVE  LET p == [s.objs[o] EXCEPT !.recurse = s.objs[o].recurse - 1]
             t == [s EXCEPT !.objs = [s.objs EXCEPT ![o] = p]]
         IN  /\ Sound(t) /\ t.chain = s.chain
             /\ \A x \in Obj :
                  /\ t.objs[x].recurse = s.objs[x].recurse - (IF x = o THEN 1 ELSE 0)
                  /\ t.objs[x].life = s.objs[x].life
<1> DEFINE p == [s.objs[o] EXCEPT !.recurse = s.objs[o].recurse - 1]
           t == [s EXCEPT !.objs = [s.objs EXCEPT ![o] = p]]
<1>1. s \in States /\ s.objs \in [Obj -> Fields] /\ s.objs[o] \in Fields
      BY SoundParts
<1>2. s.objs[o].recurse \in Nat /\ s.objs[o].recurse - 1 \in Nat
  <2>1. s.objs[o].recurse \in Nat
        BY <1>1, FieldParts
  <2> QED BY <2>1
<1>3. /\ p \in Fields /\ p.hwnd = s.objs[o].hwnd /\ p.name = s.objs[o].name
      /\ p.life = s.objs[o].life /\ p.marks = s.objs[o].marks
      /\ p.recurse = s.objs[o].recurse - 1
      BY <1>1, <1>2 DEF Fields
<1> HIDE DEF p
<1>5. Sound(t) /\ t.objs = [s.objs EXCEPT ![o] = p] /\ t.chain = s.chain
      BY <1>3, SameHookSound
<1> HIDE DEF t
<1>6. \A x \in Obj : s.objs[x].recurse \in Nat
      BY <1>1, FieldParts
<1>7. ASSUME NEW x \in Obj
      PROVE  /\ t.objs[x].recurse = s.objs[x].recurse - (IF x = o THEN 1 ELSE 0)
             /\ t.objs[x].life = s.objs[x].life
  <2>1. CASE x = o
    <3>1. t.objs[x] = p
          BY <1>1, <1>5, <2>1
    <3> QED BY <1>3, <2>1, <3>1
  <2>2. CASE x # o
    <3>1. t.objs[x] = s.objs[x]
          BY <1>1, <1>5, <2>2
    <3> QED BY <1>6, <2>2, <3>1
  <2> QED BY <2>1, <2>2
<1> QED BY <1>5, <1>7 DEF t, p

\* The return of the innermost call keeps the invariant.
LEMMA ReturnKeeps ==
  ASSUME HookInv, Return
  PROVE  HookInv'
<1> DEFINE n == Len(stack)
           o == Top.obj
           tail == IF LastMessage(Top.msg) THEN DetachHwnd(Now, o, TRUE) ELSE Now
           done == [tail EXCEPT !.objs[o].recurse = Left(@)]
           t == Unwound(done, o)
<1>1. /\ stack # <<>> /\ Top.passed /\ stack' = SubSeq(stack, 1, n - 1)
      /\ windows' = IF Top.msg = "WM_NCDESTROY" /\ Top.first
                    THEN [windows EXCEPT ![Top.hwnd] = "dead"] ELSE windows
      /\ objs[o].life # "freed" => Becomes(t)
      BY Zenon DEF Return
<1>2. /\ stack \in Seq(Frame) /\ n \in DOMAIN stack /\ Top = stack[n] /\ StackSound(stack, objs)
      BY <1>1 DEF HookInv, StackSound, Top
<1>3. o \in Obj /\ objs[o].life = "alive"
      BY <1>2, FrameParts DEF StackSound
<1>4. objs[o].recurse # 0
  <2>1. n \in FramesOf(stack, o) /\ IsFiniteSet(FramesOf(stack, o))
        BY <1>2, FramesFinite DEF FramesOf
  <2>2. Cardinality(FramesOf(stack, o)) # 0
        BY <2>1, FS_EmptySet
  <2> QED BY <1>2, <1>3, <2>2 DEF StackSound
<1>5. Sound(Now) /\ Now.objs = objs /\ Now.chain = chain
      BY NowParts DEF HookInv
<1>6. /\ Gentle(Now, tail)
      /\ Top.msg = "WM_NCDESTROY" => \A h \in Hwnd : ~IsOn(o, tail.chain[h])
  <2>1. CASE Top.msg = "WM_NCDESTROY"
    <3>1. tail = DetachHwnd(Now, o, TRUE)
          BY <2>1 DEF LastMessage
    <3>2. /\ Gentle(Now, DetachHwnd(Now, o, TRUE))
          /\ \A h \in Hwnd : ~IsOn(o, DetachHwnd(Now, o, TRUE).chain[h])
          BY <1>3, <1>4, <1>5, DetachHwndGentle
    <3> HIDE DEF tail
    <3> QED BY <3>1, <3>2
  <2>2. CASE Top.msg # "WM_NCDESTROY"
    <3>1. tail = Now
          BY <2>2 DEF LastMessage
    <3> HIDE DEF tail
    <3> QED BY <1>5, <2>2, <3>1, SameIsGentle
  <2> QED BY <2>1, <2>2
<1> HIDE DEF tail
<1>7. Sound(tail) /\ tail.objs[o].life = "alive" /\ tail.objs[o].recurse # 0
      BY <1>3, <1>4, <1>5, <1>6 DEF Gentle
<1> DEFINE gone == [tail.objs[o] EXCEPT !.recurse = tail.objs[o].recurse - 1]
           left == [tail EXCEPT !.objs = [tail.objs EXCEPT ![o] = gone]]
<1>8. done = left
       BY Zenon DEF Left
<1>9. /\ Sound(done) /\ done.chain = tail.chain
      /\ \A x \in Obj :
           /\ done.objs[x].recurse = tail.objs[x].recurse - (IF x = o THEN 1 ELSE 0)
           /\ done.objs[x].life = tail.objs[x].life
  <2> HIDE DEF done, o
  <2>1. /\ Sound(left) /\ left.chain = tail.chain
        /\ \A x \in Obj :
             /\ left.objs[x].recurse = tail.objs[x].recurse - (IF x = o THEN 1 ELSE 0)
             /\ left.objs[x].life = tail.objs[x].life
        BY <1>3, <1>7, LeftSound
  <2> HIDE DEF left, gone
  <2> QED BY <1>8, <2>1
<1> HIDE DEF done, left, gone
<1>10. Gentle(done, t)
      BY <1>3, <1>7, <1>9, UnwoundGentle
<1> HIDE DEF t
<1>11. /\ Sound(t) /\ t \in States /\ t.objs \in [Obj -> Fields] /\ HooksAgree(t)
       BY <1>10, SoundParts DEF Gentle
<1>12. Becomes(t)
       BY <1>1, <1>3
<1>13. Now' = t /\ objs' = t.objs /\ chain' = t.chain
       BY <1>11, <1>12, BecomesNow DEF Becomes
<1>14. StackSound(stack', t.objs)
  <2>1. ASSUME NEW x \in Obj
        PROVE  /\ t.objs[x].recurse = objs[x].recurse - (IF x = o THEN 1 ELSE 0)
               /\ objs[x].life = "alive" /\ t.objs[x].recurse # 0 => t.objs[x].life = "alive"
    <3>1. t.objs[x].recurse = objs[x].recurse - (IF x = o THEN 1 ELSE 0)
          BY <1>5, <1>6, <1>9, <1>10 DEF Gentle
    <3>2. ASSUME objs[x].life = "alive", t.objs[x].recurse # 0 PROVE t.objs[x].life = "alive"
      <4>1. objs[x].recurse # 0
        <5>1. objs[x].recurse \in Nat /\ t.objs[x].recurse \in Nat
              BY <1>5, <1>11, SoundParts, FieldParts
        <5> QED BY <1>4, <3>1, <3>2, <5>1
      <4>2. tail.objs[x].life = "alive"
            BY <1>5, <1>6, <3>2, <4>1 DEF Gentle
      <4> QED BY <1>9, <1>10, <3>2, <4>2 DEF Gentle
    <3> QED BY <3>1, <3>2
  <2> QED BY <1>1, <1>2, <2>1, PopSound
<1>15. WindowSound(stack', windows', t.chain, t.objs)
  <2>1. WindowFrames(stack, windows, objs) /\ AllTold(stack, windows, chain)
        BY DEF HookInv, WindowSound
  <2>2. \A h \in Hwnd, x \in Obj : IsOn(x, chain[h]) => objs[x].hwnd = h
        BY <1>5, NowParts
  <2>3. \A x \in Obj : t.objs[x].hwnd # NoHwnd =>
          t.objs[x].hwnd \in Hwnd /\ IsOn(x, t.chain[t.objs[x].hwnd])
        BY <1>11, FieldParts DEF HooksAgree
  <2>4. \A h \in Hwnd, x \in Obj : IsOn(x, t.chain[h]) => IsOn(x, tail.chain[h]) \/ windows[h] = "live"
        BY <1>9, <1>10 DEF Gentle
  <2>5. \A h \in Hwnd, x \in Obj : IsOn(x, t.chain[h]) => IsOn(x, chain[h]) \/ windows[h] = "live"
        BY <1>5, <1>6, <2>4 DEF Gentle
  <2>6. stack[n].msg = "WM_NCDESTROY" =>
          \A h \in Hwnd : IsOn(stack[n].obj, t.chain[h]) => windows[h] = "live"
        BY <1>2, <1>3, <1>6, <2>4
  <2>7. /\ stack[n].passed
        /\ windows' = IF stack[n].msg = "WM_NCDESTROY" /\ stack[n].first
                      THEN [windows EXCEPT ![stack[n].hwnd] = "dead"] ELSE windows
        BY <1>1, <1>2
  <2>8. WindowSound(SubSeq(stack, 1, n - 1), windows', t.chain, t.objs)
        BY <1>1, <1>2, <2>1, <2>2, <2>3, <2>5, <2>6, <2>7, WindowsPopped
  <2> QED BY <1>1, <2>8
<1>16. Sound(Now)'
       BY <1>11, <1>13
<1> QED BY <1>13, <1>14, <1>15, <1>16 DEF HookInv

\* Every step keeps the invariant.
LEMMA NextKeeps ==
  ASSUME HookInv, Sensible, [Next]_vars
  PROVE  HookInv'
<1>1. CASE Next
  <2>1. ASSUME NEW o \in Obj, NEW h \in Hwnd, NEW sig \in Sig \cup {NoSig},
               Fetch(o, h, sig) \/ FetchAsPartial(o, h, sig) \/ Attach(o, h, sig)
        PROVE  HookInv'
        BY <2>1, FetchKeeps, FetchAsPartialKeeps, AttachKeeps
  <2>2. ASSUME NEW o \in Obj, Delete(o) \/ \E delete \in BOOLEAN : Detach(o, delete)
        PROVE  HookInv'
        BY <2>2, DeleteKeeps, DetachKeeps
  <2>3. ASSUME NEW h \in Hwnd, Send(h) \/ DestroyWindow(h) PROVE HookInv'
        BY <2>3, SendKeeps, DestroyWindowKeeps
  <2> QED BY <1>1, <2>1, <2>2, <2>3, PassOnKeeps, ReturnKeeps DEF Next
<1>2. CASE UNCHANGED vars
      BY <1>2, StandStill
<1> QED BY <1>1, <1>2

\* The invariant holds at first.
LEMMA InitSound ==
  ASSUME Init
  PROVE  HookInv
<1>1. /\ windows = [h \in Hwnd |-> "live"]
      /\ props = [h \in Hwnd |-> [m \in Name |-> NoObj]]
      /\ chain = [h \in Hwnd |-> <<>>]
      /\ objs = [o \in Obj |-> Fresh] /\ stack = <<>> /\ faults = {}
      BY DEF Init
<1>2. Fresh \in Fields /\ Fresh.hwnd = NoHwnd /\ Fresh.recurse = 0 /\ Fresh.marks = 0
      BY DEF Fresh, Fields
<1>3. Sound(Now)
  <2>1. /\ Now \in States /\ Now.faults = {} /\ Now.objs = objs /\ Now.chain = chain
        /\ Now.props = props
        BY <1>1, <1>2 DEF Now, States
  <2>2. \A o \in Obj : objs[o].hwnd = NoHwnd /\ objs[o].recurse = 0 /\ objs[o].marks = 0
        BY <1>1, <1>2
  <2>3. \A h \in Hwnd : chain[h] = <<>> /\ \A m \in Name : props[h][m] = NoObj
        BY <1>1
  <2>4. \A x : ~IsOn(x, <<>>)
        BY DEF IsOn
  <2>5. Distinct(<<>>)
        BY DEF Distinct
  <2> QED BY <2>1, <2>2, <2>3, <2>4, <2>5 DEF Sound, HooksAgree, PropsAgree, ChainsAgree, UnusedIsFresh
<1>4. StackSound(stack, objs)
  <2>1. \A o \in Obj : FramesOf(stack, o) = {}
        BY <1>1 DEF FramesOf
  <2>2. Firsts(stack) = {}
        BY <1>1 DEF Firsts
  <2>3. Cardinality({}) = 0
        BY FS_EmptySet
  <2>4. \A o \in Obj : objs[o].recurse = Cardinality(FramesOf(stack, o))
        BY <1>1, <1>2, <2>1, <2>3
  <2>5. Cardinality(Firsts(stack)) <= MaxDepth
        BY <2>2, <2>3, SubclassAssumption
  <2>6. stack \in Seq(Frame) /\ stack = <<>> /\ DOMAIN stack = {}
        BY <1>1
  <2> QED BY <2>4, <2>5, <2>6 DEF StackSound
<1>5. WindowSound(stack, windows, chain, objs)
      BY <1>1, <1>2 DEF WindowSound, WindowFrames, AllTold
<1> QED BY <1>3, <1>4, <1>5 DEF HookInv

\* It holds always.
LEMMA HooksHold ==
  ASSUME Sensible
  PROVE  Spec => []HookInv
<1>1. Init => HookInv
      BY InitSound
<1>2. HookInv /\ [Next]_vars => HookInv'
      BY NextKeeps
<1> QED BY <1>1, <1>2, PTL DEF Spec

\* Whatever SubWndProc() does, from whatever depth of calls, among what the header
\* recommends: DetachHwnd() and the helper of StockWndProc() free an object once, after
\* its last call, and no assertion of DetachHwnd() or SubclassProc() fails.
THEOREM HooksFaultless ==
  ASSUME Sensible
  PROVE  Spec => []NoFault
<1>1. HookInv => NoFault
      BY NowParts DEF HookInv, NoFault
<1>2. Spec => []HookInv
      BY HooksHold
<1> QED BY <1>1, <1>2, PTL

\* The invariant implies AttachmentsAgree.
LEMMA AttachmentsFollow ==
  ASSUME HookInv, IsFiniteSet(Obj)
  PROVE  AttachmentsAgree
<1>1. /\ props \in [Hwnd -> [Name -> Obj \cup {NoObj}]]
      /\ chain \in [Hwnd -> Seq(Obj)] /\ objs \in [Obj -> Fields] /\ faults = {}
      /\ \A h \in Hwnd : Distinct(chain[h]) /\ \A o \in Obj : IsOn(o, chain[h]) => objs[o].hwnd = h
      /\ \A o \in Obj : objs[o].hwnd # NoHwnd =>
           /\ objs[o].life = "alive" /\ props[objs[o].hwnd][objs[o].name] = o
           /\ IsOn(o, chain[objs[o].hwnd])
      /\ Now.props = props /\ Now.objs = objs
      BY NowParts DEF HookInv
<1>2. \A o \in Obj : objs[o].recurse \in 0 .. MaxDepth
      BY StackBounded DEF HookInv
<1>3. Len(stack) <= MaxDepth * Cardinality(Obj) /\ stack \in Seq(Frame)
      BY StackBounded DEF HookInv, StackSound
<1>4. windows \in [Hwnd -> {"live", "dying", "dead"}]
      /\ \A o \in Obj : objs[o].hwnd # NoHwnd => windows[objs[o].hwnd] # "dead"
      BY DEF HookInv, WindowSound, WindowFrames
<1>5. TypeOK
  <2> DEFINE Typed == [life : {"unused", "alive", "freed"}, hwnd : Hwnd \cup {NoHwnd},
                       name : Name \cup {NoName}, partial : BOOLEAN,
                       recurse : 0 .. MaxDepth, marks : 0 .. 1]
  <2>1. ASSUME NEW o \in Obj PROVE objs[o] \in Typed
    <3>1. objs[o] \in Fields /\ objs[o].recurse \in 0 .. MaxDepth
          BY <1>1, <1>2
    <3>2. {0, 1} = 0 .. 1
          OBVIOUS
    <3> QED BY <3>1, <3>2 DEF Fields
  <2> HIDE DEF Typed
  <2>2. objs \in [Obj -> Typed]
        BY <1>1, <2>1
  <2> QED BY <1>1, <1>3, <1>4, <2>2 DEF TypeOK, Typed, Frame
<1>6. \A h \in Hwnd, m \in Name : props[h][m] # NoObj =>
        objs[props[h][m]].hwnd = h /\ objs[props[h][m]].name = m
      BY <1>1, SoundParts DEF HookInv, PropsAgree
<1>7. ASSUME NEW h \in Hwnd, NEW i \in DOMAIN chain[h]
      PROVE  /\ objs[chain[h][i]].hwnd = h
             /\ \A j \in DOMAIN chain[h] : i # j => chain[h][i] # chain[h][j]
  <2>1. chain[h] \in Seq(Obj) /\ chain[h][i] \in Obj /\ IsOn(chain[h][i], chain[h])
        BY <1>1, <1>7 DEF IsOn
  <2> QED BY <1>1, <1>7, <2>1 DEF Distinct
<1> QED BY <1>1, <1>4, <1>5, <1>6, <1>7 DEF AttachmentsAgree

\* For any number of windows and objects, AttachHwnd(), DetachHwnd() and WM_NCDESTROY
\* keep object, property and procedure chain in agreement, no object stays on a dead
\* window, and MaxDepth messages make at most MaxDepth calls of each object.
THEOREM HooksCorrect ==
  ASSUME Sensible, IsFiniteSet(Obj)
  PROVE  Spec => []AttachmentsAgree
<1>1. HookInv => AttachmentsAgree
      BY AttachmentsFollow
<1>2. Spec => []HookInv
      BY HooksHold
<1> QED BY <1>1, <1>2, PTL
===============================================================================
