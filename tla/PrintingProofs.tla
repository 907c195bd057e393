----------------------------- MODULE PrintingProofs -----------------------------
(***************************************************************************)
(* Theorems about text that is put together from pieces: by the formatter, *)
(* mm_vsnprintf_v7(), in a buffer that may be too small, and by            *)
(* CBufferedLogfile and CMmLogfile in a file, where the pieces are those   *)
(* that the formatter tells its callback of.                               *)
(*                                                                         *)
(* The formatter first.  Whatever a conversion is given, it prints text    *)
(* (`NumberPiecesText', `LineText', ...); a piece leaves the memory and    *)
(* the frame it is printed by as `Holds' says (`EmitIs', `EmitAllIs'); and *)
(* the calls under way lie one behind the other, each beginning where the  *)
(* one it was made in has got to (`Stacked').  Those are the inductive     *)
(* invariant `IInv', from which the theorems of both properties follow:    *)
(* that the buffer holds the text, and that dumps end.                     *)
(*                                                                         *)
(* Then the log file.  Each call leaves the object sound and writes, of    *)
(* what it is given, all or a beginning, or misses some where a write fell *)
(* short (`Wrote'); a log line is a sequence of such calls, by induction   *)
(* over its pieces.  Both theorems follow, for every disk: that each       *)
(* assertion has its one cause, and that the file is the log that          *)
(* AppendLog describes.  What a log misses is said by the subsequences of  *)
(* a sequence of bytes (`Thins').                                          *)
(***************************************************************************)
EXTENDS Snprintf, BufferedLogfile, FiniteSetTheorems, WellFoundedInduction, SequenceTheorems, TLAPS

\* Induction over the numbers, said of a set.  It rests on what the library says
\* of the strict subsets of a finite set: they get no smaller for ever.
LEMMA Induction ==
  ASSUME NEW S, 0 \in S, \A n \in Nat : n \in S => n + 1 \in S
  PROVE  Nat \subseteq S
  <1> DEFINE T == {1 .. n : n \in Nat \ S}
             R == StrictSubsetOrdering(Nat)
  <1> SUFFICES ASSUME ~(Nat \subseteq S) PROVE FALSE
    OBVIOUS
  <1>0. T # {}
    OBVIOUS
  <1>1. T \subseteq FiniteSubsetsOf(Nat)
    <2>1. \A n \in Nat : 1 .. n \in FiniteSubsetsOf(Nat)
      BY FS_Interval DEF FiniteSubsetsOf
    <2>2. QED
      BY <2>1
  <1>2. PICK x \in T : \A y \in T : ~(<<y, x>> \in R)
    <2> HIDE DEF T, R
    <2>1. QED
      BY <1>0, <1>1, FS_StrictSubsetOrderingWellFounded, WFMin DEF R
  <1>3. PICK m \in Nat \ S : x = 1 .. m
    OBVIOUS
  <1>4. m - 1 \in Nat \ S /\ m \in 1 .. m /\ m \notin 1 .. (m - 1)
    BY <1>3
  <1>5. <<1 .. (m - 1), x>> \in R
    BY <1>3, <1>4 DEF StrictSubsetOrdering
  <1>6. QED
    BY <1>2, <1>4, <1>5

Together(g, n, line) ==
  g = [i \in 1 .. n |-> IF i = 1 THEN line[i] ELSE g[i - 1] \o line[i]]

\* There is one for every line.
LEMMA TogetherExists ==
  ASSUME NEW line, NEW n \in Nat
  PROVE  \E g : Together(g, n, line)
  <1> DEFINE T == {k \in Nat : \E f : Together(f, k, line)}
  <1>1. 0 \in T
    <2>1. Together([i \in 1 .. 0 |-> <<>>], 0, line)
          BY DEF Together
    <2> QED BY <2>1
  <1>2. ASSUME NEW k \in Nat, k \in T PROVE k + 1 \in T
    <2>1. PICK f : Together(f, k, line)
          BY <1>2
    <2> DEFINE top == IF k = 0 THEN line[k + 1] ELSE f[k] \o line[k + 1]
               g == [i \in 1 .. k + 1 |-> IF i = k + 1 THEN top ELSE f[i]]
    <2>2. ASSUME NEW i \in 1 .. k + 1
          PROVE  g[i] = IF i = 1 THEN line[i] ELSE g[i - 1] \o line[i]
      <3> HIDE DEF top
      <3>1. CASE i = k + 1 /\ k = 0
            BY <3>1 DEF top
      <3>2. CASE i = k + 1 /\ k # 0
        <4>1. i - 1 = k /\ g[k] = f[k] /\ i # 1
              BY <3>2
        <4> QED BY <3>2, <4>1 DEF top
      <3>3. CASE i # k + 1 /\ i # 1
        <4>1. i \in 1 .. k /\ i - 1 \in 1 .. k /\ i - 1 # k + 1
              BY <3>3
        <4>2. f[i] = f[i - 1] \o line[i]
              BY <2>1, <3>3, <4>1 DEF Together
        <4>3. g[i] = f[i] /\ g[i - 1] = f[i - 1]
              BY <3>3, <4>1
        <4> QED BY <3>3, <4>2, <4>3
      <3>4. CASE i # k + 1 /\ i = 1
        <4>1. i \in 1 .. k
              BY <3>4
        <4>2. f[i] = line[i] /\ g[i] = f[i]
              BY <2>1, <3>4, <4>1 DEF Together
        <4> QED BY <3>4, <4>2
      <3> QED BY <3>1, <3>2, <3>3, <3>4
    <2>3. g = [i \in 1 .. k + 1 |-> g[i]]
          OBVIOUS
    <2> HIDE DEF g
    <2>4. Together(g, k + 1, line)
          BY <2>2, <2>3, Zenon DEF Together
    <2> QED BY <2>4
  <1> HIDE DEF T
  <1>3. Nat \subseteq T
        BY <1>1, <1>2, Induction
  <1> QED BY <1>3 DEF T


--------------------------------------------------------------------------------
(***************************************************************************)
(* Numbers and sequences.                                                  *)
(***************************************************************************)
LEMMA LargerIs ==
  ASSUME NEW a \in Int, NEW b \in Int
  PROVE  Max({a, b}) = IF a >= b THEN a ELSE b
  <1> DEFINE m == IF a >= b THEN a ELSE b
  <1>1. m \in {a, b} /\ \A y \in {a, b} : m >= y
    OBVIOUS
  <1>2. \A x \in {a, b} : (\A y \in {a, b} : x >= y) => x = m
    OBVIOUS
  <1> HIDE DEF m
  <1>3. Max({a, b}) = m
    BY <1>1, <1>2 DEF Max
  <1>4. QED
    BY <1>3 DEF m

LEMMA SmallerIs ==
  ASSUME NEW a \in Int, NEW b \in Int
  PROVE  Min({a, b}) = IF a <= b THEN a ELSE b
  <1> DEFINE m == IF a <= b THEN a ELSE b
  <1>1. m \in {a, b} /\ \A y \in {a, b} : m <= y
    OBVIOUS
  <1>2. \A x \in {a, b} : (\A y \in {a, b} : x <= y) => x = m
    OBVIOUS
  <1> HIDE DEF m
  <1>3. Min({a, b}) = m
    BY <1>1, <1>2 DEF Min
  <1>4. QED
    BY <1>3 DEF m

\* A value held between two bounds.
LEMMA MidIs ==
  ASSUME NEW a \in Int, NEW c \in Int, NEW b \in Int, a <= b
  PROVE  Mid(a, c, b) \in a .. b /\ (c \in a .. b => Mid(a, c, b) = c)
  <1> DEFINE m == Max({a, c})
  <1>1. m = IF a >= c THEN a ELSE c
    BY LargerIs
  <1>2. m \in Int
    BY <1>1
  <1> HIDE DEF m
  <1>3. Min({m, b}) = IF m <= b THEN m ELSE b
    BY <1>2, SmallerIs
  <1>4. Mid(a, c, b) = Min({m, b})
    BY DEF Mid, m
  <1>5. QED
    BY <1>1, <1>3, <1>4

LEMMA AbsIs ==
  ASSUME NEW n \in Int
  PROVE  Abs(n) \in Nat /\ (n # 0 => Abs(n) # 0) /\ (n >= 0 => Abs(n) = n)
  BY DEF Abs

\* A character as many times as a number says, none if it is negative.
LEMMA TimesIs ==
  ASSUME NEW S, NEW c \in S, NEW n \in Int
  PROVE  /\ Times(c, n) \in Seq(S)
         /\ Len(Times(c, n)) = Max({0, n})
         /\ \A i \in 1 .. Len(Times(c, n)) : Times(c, n)[i] = c
  <1> DEFINE m == IF 0 >= n THEN 0 ELSE n
             t == [i \in 1 .. m |-> c]
  <1>1. m \in Nat /\ 1 .. n = 1 .. m
    OBVIOUS
  <1>2. Max({0, n}) = m
    BY LargerIs
  <1>3. Times(c, n) = t
    BY <1>1 DEF Times
  <1> HIDE DEF m
  <1>4. t \in Seq(S) /\ Len(t) = m /\ \A i \in 1 .. m : t[i] = c
    BY <1>1
  <1> HIDE DEF t
  <1>5. QED
    BY <1>2, <1>3, <1>4

\* Part of a text, which may be empty.
LEMMA PartIs ==
  ASSUME NEW S, NEW s \in Seq(S), NEW m \in Nat \ {0}, NEW n \in Int, n <= Len(s)
  PROVE  SubSeq(s, m, n) \in Seq(S) /\ Len(SubSeq(s, m, n)) = IF m <= n THEN n - m + 1 ELSE 0
  <1>1. \A i \in m .. n : s[i] \in S
    <2> SUFFICES ASSUME NEW i \in m .. n PROVE s[i] \in S
      OBVIOUS
    <2>1. i \in 1 .. Len(s)
      OBVIOUS
    <2>2. QED
      BY <2>1, ElementOfSeq
  <1>2. QED
    BY <1>1, SubSeqProperties

\* Texts one behind the other are a text.
LEMMA Flattened ==
  ASSUME NEW S, NEW pieces \in Seq(Seq(S))
  PROVE  Concat(pieces) \in Seq(S)
  <1> DEFINE n == Len(pieces)
             g == CHOOSE h : Together(h, n, pieces)
             T == {k \in Nat : k \in 1 .. n => g[k] \in Seq(S)}
  <1>1. n \in Nat /\ \A i \in 1 .. n : pieces[i] \in Seq(S)
    OBVIOUS
  <1>2. Together(g, n, pieces)
    BY <1>1, TogetherExists
  <1>3. Concat(pieces) = IF n = 0 THEN pieces ELSE g[n]
    BY Zenon DEF Concat, FlattenSeq, Together
  <1> HIDE DEF g
  <1>4. 0 \in T
    OBVIOUS
  <1>5. ASSUME NEW k \in Nat, k \in T PROVE k + 1 \in T
    <2> SUFFICES ASSUME k + 1 \in 1 .. n PROVE g[k + 1] \in Seq(S)
      OBVIOUS
    <2>1. g[k + 1] = IF k + 1 = 1 THEN pieces[k + 1] ELSE g[(k + 1) - 1] \o pieces[k + 1]
      BY <1>2 DEF Together
    <2>2. pieces[k + 1] \in Seq(S)
      BY <1>1
    <2>3. CASE k = 0
      BY <2>1, <2>2, <2>3
    <2>4. CASE k # 0
      <3>1. g[k] \in Seq(S)
        BY <1>5, <2>4
      <3>2. k + 1 # 1 /\ (k + 1) - 1 = k
        BY <2>4
      <3>3. g[k + 1] = g[k] \o pieces[k + 1]
        BY <2>1, <3>2
      <3>4. QED
        BY <2>2, <3>1, <3>3, ConcatProperties
    <2>5. QED
      BY <2>3, <2>4
  <1>6. Nat \subseteq T
    <2> HIDE DEF T
    <2>1. QED
      BY <1>4, <1>5, Induction
  <1>7. CASE n = 0
    <2>1. pieces = <<>>
      BY <1>7
    <2>2. QED
      BY <1>3, <1>7, <2>1
  <1>8. CASE n # 0
    BY <1>1, <1>3, <1>6, <1>8
  <1>9. QED
    BY <1>7, <1>8

--------------------------------------------------------------------------------
(***************************************************************************)
(* What conversions print is text, whatever they are given.                *)
(***************************************************************************)
\* What radix ^ n is, on the way there.
Powers(f, radix, n) == f = [i \in 0 .. n |-> IF i = 0 THEN 1 ELSE radix * f[i - 1]]

LEMMA PowersExist ==
  ASSUME NEW radix \in Nat, NEW n \in Nat
  PROVE  \E f : Powers(f, radix, n)
  <1> DEFINE T == {k \in Nat : \E f : Powers(f, radix, k)}
  <1>1. 0 \in T
    <2>1. Powers([i \in 0 .. 0 |-> 1], radix, 0)
      BY DEF Powers
    <2>2. QED
      BY <2>1
  <1>2. ASSUME NEW k \in Nat, k \in T PROVE k + 1 \in T
    <2>1. PICK f : Powers(f, radix, k)
      BY <1>2
    <2> DEFINE top == radix * f[k]
               g == [i \in 0 .. k + 1 |-> IF i = k + 1 THEN top ELSE f[i]]
    <2>2. ASSUME NEW i \in 0 .. k + 1
          PROVE  g[i] = IF i = 0 THEN 1 ELSE radix * g[i - 1]
      <3>1. CASE i = k + 1
        <4>1. i - 1 = k /\ k \in 0 .. k + 1 /\ k # k + 1 /\ i # 0
          BY <3>1
        <4>2. g[k] = f[k]
          BY <4>1
        <4>3. QED
          BY <3>1, <4>1, <4>2
      <3>2. CASE i # k + 1 /\ i # 0
        <4>1. i \in 0 .. k /\ i - 1 \in 0 .. k + 1 /\ i - 1 # k + 1
          BY <3>2
        <4>2. f[i] = radix * f[i - 1]
          BY <2>1, <3>2, <4>1 DEF Powers
        <4>3. g[i] = f[i] /\ g[i - 1] = f[i - 1]
          BY <3>2, <4>1
        <4>4. QED
          BY <3>2, <4>2, <4>3
      <3>3. CASE i = 0
        <4>1. f[0] = 1 /\ 0 # k + 1
          BY <2>1 DEF Powers
        <4>2. QED
          BY <3>3, <4>1
      <3>4. QED
        BY <3>1, <3>2, <3>3
    <2>3. g = [i \in 0 .. k + 1 |-> g[i]]
      OBVIOUS
    <2> HIDE DEF g
    <2>4. Powers(g, radix, k + 1)
      BY <2>2, <2>3, Zenon DEF Powers
    <2>5. QED
      BY <2>4
  <1> HIDE DEF T
  <1>3. Nat \subseteq T
    BY <1>1, <1>2, Induction
  <1>4. QED
    BY <1>3 DEF T

\* Powers are numbers, and get larger than any other: the digits have an end.
LEMMA PowerIs ==
  ASSUME NEW radix \in Nat, radix >= 2, NEW n \in Nat
  PROVE  Power(radix, n) \in Nat /\ Power(radix, n) > n
  <1> DEFINE f == CHOOSE g : Powers(g, radix, n)
             T == {k \in Nat : k <= n => f[k] \in Nat /\ f[k] > k}
  <1>1. Powers(f, radix, n)
    BY PowersExist
  <1>2. Power(radix, n) = f[n]
    BY Zenon DEF Power, Powers
  <1> HIDE DEF f
  <1>3. 0 \in T
    BY <1>1 DEF Powers
  <1>4. ASSUME NEW k \in Nat, k \in T PROVE k + 1 \in T
    <2> SUFFICES ASSUME k + 1 <= n PROVE f[k + 1] \in Nat /\ f[k + 1] > k + 1
      OBVIOUS
    <2>1. f[k + 1] = IF k + 1 = 0 THEN 1 ELSE radix * f[(k + 1) - 1]
      BY <1>1 DEF Powers
    <2>2. k + 1 # 0 /\ (k + 1) - 1 = k
      OBVIOUS
    <2>3. f[k + 1] = radix * f[k]
      BY <2>1, <2>2
    <2> DEFINE p == f[k]
    <2>4. p \in Nat /\ p > k
      BY <1>4
    <2> HIDE DEF p
    <2>5. radix * p \in Nat /\ radix * p >= 2 * p
      BY <2>4
    <2>6. QED
      BY <2>3, <2>4, <2>5 DEF p
  <1>5. Nat \subseteq T
    <2> HIDE DEF T
    <2>1. QED
      BY <1>3, <1>4, Induction
  <1>6. QED
    BY <1>2, <1>5

\* A number has digits.
LEMMA DigitsEnd ==
  ASSUME NEW v \in Nat, NEW radix \in Nat, radix >= 2
  PROVE  DigitCount(v, radix) \in 1 .. v + 1
  <1> DEFINE Ends(n) == Power(radix, n) > v /\ (n > 1 => Power(radix, n - 1) <= v)
  <1>1. \E n \in 1 .. v + 1 : Ends(n)
    <2> SUFFICES ASSUME \A n \in 1 .. v + 1 : ~Ends(n) PROVE FALSE
      OBVIOUS
    <2> DEFINE S == {k \in Nat : k + 1 <= v + 1 => Power(radix, k + 1) <= v}
    <2>1. 0 \in S
      <3>1. ~Ends(1)
        OBVIOUS
      <3>2. Power(radix, 1) \in Nat
        BY PowerIs
      <3>3. QED
        BY <3>1, <3>2
    <2>2. ASSUME NEW k \in Nat, k \in S PROVE k + 1 \in S
      <3> SUFFICES ASSUME (k + 1) + 1 <= v + 1 PROVE Power(radix, (k + 1) + 1) <= v
        OBVIOUS
      <3>1. Power(radix, k + 1) <= v
        BY <2>2
      <3> DEFINE n == (k + 1) + 1
      <3>2. n \in 1 .. v + 1 /\ n > 1 /\ n - 1 = k + 1
        OBVIOUS
      <3>3. Power(radix, n) \in Nat
        BY <3>2, PowerIs
      <3> HIDE DEF n
      <3>4. ~Ends(n)
        BY <3>2
      <3>5. QED
        BY <3>1, <3>2, <3>3, <3>4 DEF n
    <2>3. Nat \subseteq S
      <3> HIDE DEF S
      <3>1. QED
        BY <2>1, <2>2, Induction
    <2>4. Power(radix, v + 1) <= v
      BY <2>3
    <2>5. Power(radix, v + 1) \in Nat /\ Power(radix, v + 1) > v + 1
      BY PowerIs
    <2>6. QED
      BY <2>4, <2>5
  <1>2. QED
    BY <1>1, Zenon DEF DigitCount

\* What settings there are.
Cfgs ==
  [sepw : Int, sep : Seq(Char), SEP : Seq(Char), hyph : Seq(Char), left : Seq(Char),
   right : Seq(Char), columns : Int, skip : Int, ruler : BOOLEAN, indent : Int,
   addr : Nat, asep : Int, awidth : Int, iso : BOOLEAN]


LEMMA CharsAre ==
  /\ "-" \in Char /\ "+" \in Char /\ " " \in Char /\ "x" \in Char /\ "." \in Char
  /\ ":" \in Char /\ "0" \in Char /\ Junk \in Char
  /\ \A i \in 1 .. 16 : Digit[i] \in Char
  <1>1. DOMAIN Digit = 1 .. 16 /\ Digit[1] = "0"
    BY DEF Digit
  <1>2. \A i \in 1 .. 16 : Digit[i] \in ToSet(Digit)
    BY <1>1, Zenon DEF ToSet
  <1>3. ToSet(Digit) \subseteq Char /\ Junk \in Char
    BY Zenon DEF Char
  <1>4. 1 \in 1 .. 16
    OBVIOUS
  <1>5. "0" \in Char
    BY <1>1, <1>2, <1>3, <1>4
  <1>6. "-" \in Char /\ "+" \in Char /\ " " \in Char /\ "x" \in Char /\ "." \in Char /\ ":" \in Char
    BY Zenon DEF Char
  <1>7. QED
    BY <1>2, <1>3, <1>5, <1>6

LEMMA OneChar ==
  ASSUME NEW c \in Char
  PROVE  <<c>> \in Seq(Char) /\ Len(<<c>>) = 1
  OBVIOUS

\* Padding is text.
LEMMA Padded ==
  ASSUME NEW n \in Int, NEW c \in Char
  PROVE  /\ Times(c, n) \in Seq(Char) /\ Len(Times(c, n)) = IF n <= 0 THEN 0 ELSE n
         /\ \A i \in 1 .. Len(Times(c, n)) : Times(c, n)[i] = c
  <1>1. Times(c, n) \in Seq(Char) /\ Len(Times(c, n)) = Max({0, n})
    BY TimesIs
  <1>2. \A i \in 1 .. Len(Times(c, n)) : Times(c, n)[i] = c
    BY TimesIs
  <1>3. Max({0, n}) = IF 0 >= n THEN 0 ELSE n
    BY LargerIs
  <1>4. QED
    BY <1>1, <1>2, <1>3

LEMMA NewlineIs == Newline \in Seq(Char)
  <1>1. "\n" \in Char
    BY Zenon DEF Char
  <1>2. QED
    BY <1>1, OneChar, Zenon DEF Newline

\* A digit that is made is one.
LEMMA DigitIs ==
  ASSUME NEW v \in Nat, NEW radix \in {2, 8, 10, 16}, NEW k \in Nat
  PROVE  <<Digit[((v \div Power(radix, k)) % radix) + 1]>> \in Seq(Char)
  <1> DEFINE p == Power(radix, k)
             q == v \div p
             r == q % radix
  <1>1. p \in Nat /\ p > 0
    BY PowerIs
  <1> HIDE DEF p
  <1>2. q \in Int
    BY <1>1
  <1> HIDE DEF q
  <1>3. r \in 0 .. 15
    BY <1>2
  <1> HIDE DEF r
  <1>4. r + 1 \in 1 .. 16
    BY <1>3
  <1>5. QED
    BY <1>4, CharsAre, OneChar DEF r, q, p

LEMMA Reverses ==
  ASSUME NEW S, NEW s \in Seq(S)
  PROVE  Reverse(s) \in Seq(S) /\ Len(Reverse(s)) = Len(s)
  <1>1. \A i \in 1 .. Len(s) : Len(s) - i + 1 \in 1 .. Len(s)
    OBVIOUS
  <1>2. \A i \in 1 .. Len(s) : s[(Len(s) - i) + 1] \in S
    BY <1>1
  <1>3. QED
    BY <1>2 DEF Reverse

\* The digits with their separators, last first,
LEMMA ReversedText ==
  ASSUME NEW v \in Nat, NEW radix \in {8, 10, 16}, NEW stuff \in Int, NEW sep \in Seq(Char), NEW width \in Int
  PROVE  Reversed(v, radix, stuff, sep, width) \in Seq(Char)
  <1> DEFINE d == DigitCount(v, radix)
             n == Max({d, stuff})
             digit(k) == <<Digit[((v \div Power(radix, k - 1)) % radix) + 1]>>
             before(k) == IF width > 0 /\ k > 1 /\ (k - 1) % width = 0 THEN Reverse(sep) ELSE <<>>
             piece(k) == before(k) \o digit(k)
             pieces == [k \in 1 .. n |-> piece(k)]
  <1>1. d \in Nat
    <2>1. radix \in Nat /\ radix >= 2
      OBVIOUS
    <2>2. d \in 1 .. v + 1
      BY <2>1, DigitsEnd
    <2> HIDE DEF d
    <2>3. QED
      BY <2>2
  <1>2. n \in Nat
    <2> HIDE DEF d
    <2>1. n = IF d >= stuff THEN d ELSE stuff
      BY <1>1, LargerIs
    <2>2. QED
      BY <1>1, <2>1
  <1> HIDE DEF n
  <1>3. ASSUME NEW k \in 1 .. n PROVE piece(k) \in Seq(Char)
    <2>1. k - 1 \in Nat
      BY <1>2
    <2>2. digit(k) \in Seq(Char)
      BY <2>1, DigitIs
    <2>3. before(k) \in Seq(Char)
      BY Reverses, EmptySeq
    <2> HIDE DEF digit, before
    <2>4. QED
      BY <2>2, <2>3, ConcatProperties
  <1> HIDE DEF piece
  <1>4. pieces \in Seq(Seq(Char))
    BY <1>2, <1>3
  <1>5. Reversed(v, radix, stuff, sep, width) = Concat(pieces)
    BY DEF Reversed, n, piece, before, digit, d
  <1>6. QED
    BY <1>4, <1>5, Flattened

\* and as much of them as there is room for, the rest unwritten.
LEMMA NtoSText ==
  ASSUME NEW v \in Nat, NEW radix \in {8, 10, 16}, NEW stuff \in Int, NEW sep \in Seq(Char),
         NEW width \in Int, NEW bufsize \in Int
  PROVE  NtoS(v, radix, stuff, sep, width, bufsize) \in Seq(Char)
  <1> DEFINE rresult == Reversed(v, radix, stuff, sep, width)
             copylen == Min({Len(rresult), RevLen})
             kept == Reverse(SubSeq(rresult, 1, copylen))
             n == Min({bufsize, copylen})
  <1>1. rresult \in Seq(Char) /\ RevLen \in Nat
    BY ReversedText, SnprintfAssumption
  <1> HIDE DEF rresult
  <1>2. copylen \in Nat /\ copylen <= Len(rresult)
    BY <1>1, SmallerIs
  <1> HIDE DEF copylen
  <1>3. kept \in Seq(Char) /\ Len(kept) = copylen
    <2>1. SubSeq(rresult, 1, copylen) \in Seq(Char) /\ Len(SubSeq(rresult, 1, copylen)) = copylen
      BY <1>1, <1>2, PartIs
    <2>2. QED
      BY <2>1, Reverses
  <1> HIDE DEF kept
  <1>4. n \in Int /\ n <= copylen
    BY <1>2, SmallerIs
  <1> HIDE DEF n
  <1>5. SubSeq(kept, 1, n) \in Seq(Char)
    BY <1>3, <1>4, PartIs
  <1>6. Len(rresult) - n \in Int
    BY <1>1, <1>4
  <1>7. Times(Junk, Len(rresult) - n) \in Seq(Char)
    BY <1>6, CharsAre, Padded
  <1>8. NtoS(v, radix, stuff, sep, width, bufsize) = SubSeq(kept, 1, n) \o Times(Junk, Len(rresult) - n)
    BY DEF NtoS, rresult, copylen, kept, n
  <1>9. QED
    BY <1>5, <1>7, <1>8, ConcatProperties

\* What the system prints of a float is cut off and padded, like a number.
LEMMA SystemText ==
  ASSUME NEW item \in FloatItems, NEW prec \in Nat, NEW bufsize \in Int
  PROVE  SystemSnprintf(item, prec, bufsize) \in Seq(Char)
  <1> DEFINE sign == IF item.neg THEN <<"-">> ELSE <<>>
             digits == item.frac \o Times("0", prec)
             part == SubSeq(digits, 1, prec)
             fraction == IF prec = 0 THEN <<>> ELSE <<".">> \o part
             s == SystemPrints(item, prec)
             n == Min({bufsize - 1, Len(s)})
  <1>1. item.whole \in Seq(Char) /\ item.frac \in Seq(Char)
    BY DEF FloatItems
  <1>2. <<"-">> \in Seq(Char) /\ <<".">> \in Seq(Char) /\ "0" \in Char
    BY CharsAre, OneChar
  <1>3. sign \in Seq(Char)
    BY <1>2
  <1>4. Times("0", prec) \in Seq(Char) /\ Len(Times("0", prec)) = prec
    BY <1>2, Padded
  <1>5. digits \in Seq(Char) /\ prec <= Len(digits)
    BY <1>1, <1>4, ConcatProperties
  <1> HIDE DEF digits
  <1>6. part \in Seq(Char)
    BY <1>5, PartIs
  <1> HIDE DEF part
  <1>7. fraction \in Seq(Char)
    BY <1>2, <1>6
  <1> HIDE DEF sign, fraction
  <1>8. s \in Seq(Char)
    <2>1. s = (sign \o item.whole) \o fraction
      BY DEF SystemPrints, sign, fraction, part, digits
    <2>2. sign \o item.whole \in Seq(Char)
      BY <1>1, <1>3, ConcatProperties
    <2>3. QED
      BY <1>7, <2>1, <2>2, ConcatProperties
  <1> HIDE DEF s
  <1>9. n \in Int /\ n <= Len(s)
    BY <1>8, SmallerIs
  <1> HIDE DEF n
  <1>10. SubSeq(s, 1, n) \in Seq(Char)
    BY <1>8, <1>9, PartIs
  <1>11. Times(Junk, Len(s) - n) \in Seq(Char)
    <2>1. Len(s) - n \in Int
      BY <1>8, <1>9
    <2>2. QED
      BY <2>1, CharsAre, Padded
  <1>12. SystemSnprintf(item, prec, bufsize) = SubSeq(s, 1, n) \o Times(Junk, Len(s) - n)
    BY DEF SystemSnprintf, s, n
  <1>13. QED
    BY <1>10, <1>11, <1>12, ConcatProperties

\* The zeros at the end of a text can be counted.
LEMMA TailZeros ==
  ASSUME NEW s \in Seq(Char)
  PROVE  \E n \in 0 .. Len(s) : /\ \A i \in Len(s) - n + 1 .. Len(s) : s[i] = "0"
                                /\ n < Len(s) => s[Len(s) - n] # "0"
  <1> DEFINE l == Len(s)
             Zeros(n) == \A i \in l - n + 1 .. l : s[i] = "0"
             T == {n \in Nat : n <= l => Zeros(n)}
  <1>1. SUFFICES ASSUME \A n \in 0 .. l : Zeros(n) => n < l /\ s[l - n] = "0"
                 PROVE  FALSE
    OBVIOUS
  <1>2. l \in Nat
    OBVIOUS
  <1> HIDE DEF l
  <1>3. 0 \in T
    BY <1>2
  <1>4. ASSUME NEW n \in Nat, n \in T PROVE n + 1 \in T
    <2> SUFFICES ASSUME n + 1 <= l, NEW i \in l - (n + 1) + 1 .. l PROVE s[i] = "0"
      OBVIOUS
    <2>1. Zeros(n) /\ n \in 0 .. l
      BY <1>2, <1>4
    <2>2. s[l - n] = "0"
      BY <1>1, <2>1
    <2>3. i = l - n \/ i \in l - n + 1 .. l
      BY <1>2
    <2>4. QED
      BY <2>1, <2>2, <2>3
  <1>5. Nat \subseteq T
    <2> HIDE DEF T
    <2>1. QED
      BY <1>3, <1>4, Induction
  <1>6. Zeros(l) /\ l \in 0 .. l
    BY <1>2, <1>5
  <1> HIDE DEF Zeros
  <1>7. QED
    BY <1>1, <1>2, <1>6

LEMMA CleanText ==
  ASSUME NEW s \in Seq(Char)
  PROVE  CleanTail(s) \in Seq(Char)
  <1> DEFINE zeros == CHOOSE n \in 0 .. Len(s) : /\ \A i \in Len(s) - n + 1 .. Len(s) : s[i] = "0"
                                                 /\ n < Len(s) => s[Len(s) - n] # "0"
             n == IF zeros < Len(s) /\ s[Len(s) - zeros] = "." THEN zeros + 1 ELSE zeros
  <1>1. zeros \in 0 .. Len(s)
    BY TailZeros, Zenon
  <1> HIDE DEF zeros
  <1>2. n \in 0 .. Len(s)
    BY <1>1
  <1> HIDE DEF n
  <1>3. SubSeq(s, 1, Len(s) - n) \in Seq(Char)
    BY <1>2, PartIs
  <1>4. Times(" ", n) \in Seq(Char)
    <2>1. n \in Int
      BY <1>2
    <2>2. QED
      BY <2>1, CharsAre, Padded
  <1>5. CleanTail(s) = SubSeq(s, 1, Len(s) - n) \o Times(" ", n)
    BY DEF CleanTail, zeros, n
  <1>6. QED
    BY <1>3, <1>4, <1>5, ConcatProperties

LEMMA PrefixText ==
  ASSUME NEW item \in IntItems \cup FloatItems
  PROVE  Prefix(item) \in Seq(Char)
  <1>1. <<" ">> \in Seq(Char) /\ <<"+">> \in Seq(Char) /\ <<>> \in Seq(Char)
    BY CharsAre, OneChar, EmptySeq
  <1>2. <<"0", "x">> \in Seq(Char)
    <2>1. "0" \in Char /\ "x" \in Char
      BY CharsAre
    <2>2. \A a, b \in Char : <<a, b>> \in Seq(Char)
      OBVIOUS
    <2>3. QED
      BY <2>1, <2>2
  <1>3. Prefix(item) \in {<<" ">>, <<"+">>, <<>>, <<"0", "x">>}
    BY Zenon DEF Prefix
  <1>4. QED
    BY <1>1, <1>2, <1>3

\* A precision, that of the item or the one it has by default.
LEMMA MadeWithIs ==
  ASSUME NEW item \in IntItems \cup FloatItems
  PROVE  MadeWith(item) \in Int
  BY DEF MadeWith, IntItems, FloatItems, Precs, IsFloat

LEMMA SeparatorText ==
  ASSUME NEW cfg \in Cfgs, NEW item
  PROVE  Separator(cfg, item) \in Seq(Char)
  <1>1. <<" ">> \in Seq(Char) /\ cfg.sep \in Seq(Char) /\ cfg.SEP \in Seq(Char)
    BY CharsAre, OneChar DEF Cfgs
  <1>2. QED
    BY <1>1 DEF Separator

\* The number itself.
LEMMA NumberText ==
  ASSUME NEW cfg \in Cfgs, NEW item \in IntItems \cup FloatItems
  PROVE  Number(cfg, item) \in Seq(Char)
  <1> DEFINE left == TmpLen - Len(Prefix(item))
             prec == MadeWith(item)
             width == IF item.conv \in {"D", "U"} THEN 3 ELSE cfg.sepw
             stuff == IF item.conv = "p" THEN AddrBits \div 4
                      ELSE IF item.zero /\ prec # 0 THEN Abs(prec) ELSE 0
             minus == IF item.neg THEN <<"-">> ELSE <<>>
             s == SystemSnprintf(item, Abs(prec), left - 1)
             digits == NtoS(item.value, Radix(item), stuff, Separator(cfg, item), width, left - Len(minus))
  <1>1. prec \in Int /\ TmpLen \in Int /\ AddrBits \in Nat
    BY MadeWithIs, SnprintfAssumption
  <1>2. left \in Int
    BY <1>1, PrefixText
  <1>3. minus \in Seq(Char) /\ Len(minus) \in Int
    <2>1. <<"-">> \in Seq(Char) /\ <<>> \in Seq(Char)
      BY CharsAre, OneChar, EmptySeq
    <2>2. minus \in Seq(Char)
      BY <2>1
    <2> HIDE DEF minus
    <2>3. QED
      BY <2>2
  <1> HIDE DEF left, prec, minus
  <1>4. width \in Int /\ stuff \in Int
    BY <1>1, AbsIs DEF Cfgs
  <1> HIDE DEF width, stuff
  <1>5. CASE item \in FloatItems
    <2>1. Abs(prec) \in Nat /\ left - 1 \in Int
      BY <1>1, <1>2, AbsIs
    <2>2. s \in Seq(Char)
      BY <1>5, <2>1, SystemText
    <2> HIDE DEF s
    <2>3. CleanTail(s) \in Seq(Char) /\ <<>> \in Seq(Char)
      BY <2>2, CleanText, EmptySeq
    <2>4. IsFloat(item)
      BY <1>5 DEF FloatItems, IsFloat
    <2>5. Number(cfg, item) \in {<<>>, CleanTail(s), s}
      BY <2>4, Zenon DEF Number, left, prec, s
    <2>6. QED
      BY <2>2, <2>3, <2>5
  <1>6. CASE item \in IntItems
    <2>1. item.value \in Nat /\ Radix(item) \in {8, 10, 16} /\ left - Len(minus) \in Int
      BY <1>2, <1>3, <1>6 DEF IntItems, Radix
    <2>2. digits \in Seq(Char)
      BY <1>4, <2>1, NtoSText, SeparatorText
    <2> HIDE DEF digits
    <2>3. minus \o digits \in Seq(Char) /\ <<>> \in Seq(Char)
      BY <1>3, <2>2, ConcatProperties, EmptySeq
    <2>4. ~IsFloat(item)
      BY <1>6 DEF IntItems, IsFloat
    <2>5. Number(cfg, item) \in {<<>>, minus \o digits}
      BY <2>4, Zenon DEF Number, left, prec, width, stuff, minus, digits
    <2>6. QED
      BY <2>3, <2>5
  <1>7. QED
    BY <1>5, <1>6

\* The pieces of a number.
LEMMA NumberPiecesText ==
  ASSUME NEW cfg \in Cfgs, NEW item \in IntItems \cup FloatItems
  PROVE  NumberPieces(cfg, item) \in Seq(Seq(Char))
  <1> DEFINE number == Number(cfg, item)
             tmp == Prefix(item) \o number
             ins == ZerosGoAt(item, number)
             digits == Len(tmp) - ins
             forced == /\ item.alt /\ item.conv = "o"
                       /\ ~ (digits > 0 /\ tmp[ins + 1] = "0")
                       /\ item.prec = NoPrec \/ Abs(MadeWith(item)) < digits + 1
             prec == IF IsFloat(item) THEN 0
                     ELSE IF forced THEN digits + 1 ELSE Abs(MadeWith(item))
             byPrec == Max({0, prec - digits})
             pad0 == item.zero /\ item.prec = NoPrec
             byWidth == IF ~ item.left /\ pad0 THEN Max({0, item.width - Len(tmp) - byPrec}) ELSE 0
             zeros == byPrec + byWidth
             blanks == Max({0, item.width - Len(tmp) - zeros})
             split == IF zeros > 0 THEN ins ELSE 0
             before == IF item.left THEN 0 ELSE blanks
             behind == IF item.left THEN blanks ELSE 0
  <1>1. number \in Seq(Char) /\ Prefix(item) \in Seq(Char) /\ MadeWith(item) \in Int /\ item.width \in Int
    BY NumberText, PrefixText, MadeWithIs DEF IntItems, FloatItems
  <1> HIDE DEF number
  <1>2. tmp \in Seq(Char) /\ Len(tmp) = Len(Prefix(item)) + Len(number)
    BY <1>1, ConcatProperties
  <1>3. ins \in Nat /\ ins <= Len(tmp)
    <2> DEFINE minus == IF number # <<>> /\ Head(number) = "-" THEN 1 ELSE 0
               hex == Len(number) > minus + 1 /\ number[minus + 1] = "0" /\ number[minus + 2] = "x"
               hexes == IF hex THEN 2 ELSE 0
    <2>1. minus \in {0, 1} /\ minus <= Len(number) /\ Len(number) \in Nat
      BY <1>1
    <2> HIDE DEF minus
    <2>2. hexes \in {0, 2} /\ (hexes = 2 => Len(number) > minus + 1)
      OBVIOUS
    <2>3. ins = Len(Prefix(item)) + minus + hexes
      BY DEF ZerosGoAt, minus
    <2> HIDE DEF hexes, ins
    <2>4. QED
      BY <1>1, <1>2, <2>1, <2>2, <2>3
  <1> HIDE DEF tmp, ins
  <1>4. digits \in Int
    BY <1>2, <1>3
  <1> HIDE DEF digits, forced
  <1>5. prec \in Int
    BY <1>1, <1>4, AbsIs
  <1> HIDE DEF prec
  <1>6. byPrec \in Int
    BY <1>4, <1>5, LargerIs
  <1> HIDE DEF byPrec, pad0
  <1>7. byWidth \in Int
    <2> DEFINE lack == item.width - Len(tmp) - byPrec
    <2>1. lack \in Int
      BY <1>1, <1>2, <1>6
    <2> HIDE DEF lack
    <2>2. Max({0, lack}) \in Int
      BY <2>1, LargerIs
    <2>3. byWidth = IF ~ item.left /\ pad0 THEN Max({0, lack}) ELSE 0
      BY DEF lack
    <2>4. QED
      BY <2>2, <2>3
  <1> HIDE DEF byWidth
  <1>8. zeros \in Int
    BY <1>6, <1>7
  <1> HIDE DEF zeros
  <1>9. blanks \in Int
    <2> DEFINE lack == item.width - Len(tmp) - zeros
    <2>1. lack \in Int
      BY <1>1, <1>2, <1>8
    <2> HIDE DEF lack
    <2>2. Max({0, lack}) \in Int
      BY <2>1, LargerIs
    <2>3. QED
      BY <2>2 DEF lack
  <1> HIDE DEF blanks
  <1>10. split \in Nat /\ split <= Len(tmp) /\ before \in Int /\ behind \in Int
    BY <1>2, <1>3, <1>9
  <1> HIDE DEF split, before, behind
  <1>11. SubSeq(tmp, 1, split) \in Seq(Char) /\ SubSeq(tmp, split + 1, Len(tmp)) \in Seq(Char)
    <2>1. split + 1 \in Nat \ {0} /\ split \in Int /\ Len(tmp) \in Int /\ 1 \in Nat \ {0}
      BY <1>2, <1>10
    <2>2. QED
      BY <1>2, <1>10, <2>1, PartIs
  <1>12. Times(" ", before) \in Seq(Char) /\ Times("0", zeros) \in Seq(Char) /\ Times(" ", behind) \in Seq(Char)
    BY <1>8, <1>10, CharsAre, Padded
  <1> DEFINE p1 == Times(" ", before)
             p2 == SubSeq(tmp, 1, split)
             p3 == Times("0", zeros)
             p4 == SubSeq(tmp, split + 1, Len(tmp))
             p5 == Times(" ", behind)
  <1>13. NumberPieces(cfg, item) = <<p1, p2, p3, p4, p5>>
    BY DEF NumberPieces, number, tmp, ins, digits, forced, prec, byPrec, pad0, byWidth, zeros, blanks,
           split, before, behind
  <1>14. p1 \in Seq(Char) /\ p2 \in Seq(Char) /\ p3 \in Seq(Char) /\ p4 \in Seq(Char) /\ p5 \in Seq(Char)
    BY <1>11, <1>12
  <1> HIDE DEF p1, p2, p3, p4, p5
  <1>15. QED
    BY <1>13, <1>14

\* The pieces of a text.
LEMMA TextPiecesText ==
  ASSUME NEW item \in StrItems
  PROVE  TextPieces(item) \in Seq(Seq(Char))
  <1> DEFINE n == IF item.prec = NoPrec THEN Len(item.text) ELSE Min({Len(item.text), Abs(item.prec)})
             blanks == Max({0, item.width - n})
             fill == IF item.zero THEN "0" ELSE " "
             before == IF item.left THEN 0 ELSE blanks
             behind == IF item.left THEN blanks ELSE 0
             p1 == Times(fill, before)
             p2 == SubSeq(item.text, 1, n)
             p3 == Times(" ", behind)
  <1>1. item.text \in Seq(Char) /\ item.width \in Int /\ item.prec \in Precs
    BY DEF StrItems
  <1>2. n \in Int /\ n <= Len(item.text)
    <2>1. CASE item.prec = NoPrec
      BY <1>1, <2>1
    <2>2. CASE item.prec # NoPrec
      <3>1. Abs(item.prec) \in Int
        BY <1>1, <2>2, AbsIs DEF Precs
      <3>2. Len(item.text) \in Int
        BY <1>1
      <3>3. n = Min({Len(item.text), Abs(item.prec)})
        BY <2>2
      <3> HIDE DEF n
      <3>4. QED
        BY <3>1, <3>2, <3>3, SmallerIs
    <2>3. QED
      BY <2>1, <2>2
  <1> HIDE DEF n
  <1>3. blanks \in Int
    <2>1. item.width - n \in Int
      BY <1>1, <1>2
    <2>2. QED
      BY <2>1, LargerIs
  <1> HIDE DEF blanks
  <1>4. before \in Int /\ behind \in Int /\ fill \in Char /\ " " \in Char
    <2>1. "0" \in Char /\ " " \in Char
      BY CharsAre
    <2>2. fill \in Char
      BY <2>1
    <2>3. before \in Int /\ behind \in Int
      BY <1>3
    <2>4. QED
      BY <2>1, <2>2, <2>3
  <1> HIDE DEF before, behind, fill
  <1>5. p1 \in Seq(Char) /\ p3 \in Seq(Char)
    BY <1>4, Padded
  <1>6. p2 \in Seq(Char)
    BY <1>1, <1>2, PartIs
  <1>7. TextPieces(item) = <<p1, p2, p3>>
    BY DEF TextPieces, n, blanks, before, behind, fill
  <1> HIDE DEF p1, p2, p3
  <1>8. QED
    BY <1>5, <1>6, <1>7

--------------------------------------------------------------------------------
(***************************************************************************)
(* Dumps: what they print is text, and every line takes bytes or skips     *)
(* fewer columns than the one before.                                      *)
(***************************************************************************)
Columns == [ok : BOOLEAN, width1 : Int, width2 : Int]
Dumps ==
  [n : Int, group : (-8 .. 8) \ {0}, columns : 1 .. OneLine, skip : Nat, consumed : Nat,
   ruler : BOOLEAN, addr : Nat, col : Columns]

\* Settings with which a dump can be begun: no separator is asked for less than every digit.
DumpCfgs == {cfg \in Cfgs : cfg.asep \in Nat}

LEMMA AddrEndIs == AddrEnd \in Nat \ {0}
  <1>1. AddrBits \in Nat /\ 2 \in Nat
    BY SnprintfAssumption
  <1>2. Power(2, AddrBits) \in Nat /\ Power(2, AddrBits) > AddrBits
    BY <1>1, PowerIs
  <1>3. QED
    BY <1>1, <1>2 DEF AddrEnd

LEMMA AddressIsText ==
  ASSUME NEW cfg \in Cfgs, NEW addr \in Nat, NEW width \in Int
  PROVE  AddressText(cfg, addr, width) \in Seq(Char)
  <1> DEFINE text == NtoS(addr, 16, Abs(width), cfg.sep, cfg.asep, TmpLen)
             n == Min({Len(text), AddrLen - 1})
  <1>1. Abs(width) \in Int /\ cfg.sep \in Seq(Char) /\ cfg.asep \in Int /\ TmpLen \in Int /\ 16 \in {8, 10, 16}
    BY AbsIs, SnprintfAssumption DEF Cfgs
  <1>2. text \in Seq(Char) /\ AddrLen - 1 \in Int
    BY <1>1, NtoSText, SnprintfAssumption
  <1> HIDE DEF text
  <1>3. n \in Int /\ n <= Len(text)
    BY <1>2, SmallerIs
  <1> HIDE DEF n
  <1>4. SubSeq(text, 1, n) \in Seq(Char)
    BY <1>2, <1>3, PartIs
  <1>5. QED
    BY <1>4 DEF AddressText, text, n

LEMMA ColumnIs ==
  ASSUME NEW cfg \in DumpCfgs, NEW n \in Int
  PROVE  AddressColumn(cfg, n) \in Columns
  <1> DEFINE asked == IF cfg.iso /\ cfg.awidth = 0 THEN -1 ELSE Max({1, cfg.awidth})
             stop == (cfg.addr + n - 1) % AddrEnd
             end == IF stop < cfg.addr THEN AddrEnd - 1 ELSE stop
             endWidth == DigitCount(end, 16)
             isoZeros == cfg.asep # 0 /\ asked < 0
             rounded == ((endWidth + cfg.asep - 1) \div cfg.asep) * cfg.asep
             adcol == IF isoZeros THEN rounded ELSE asked
             text == AddressText(cfg, end, adcol)
  <1>1. cfg.awidth \in Int /\ cfg.addr \in Nat /\ cfg.asep \in Nat /\ cfg \in Cfgs
    BY DEF DumpCfgs, Cfgs
  <1>2. asked \in Int
    BY <1>1, LargerIs
  <1>3. stop \in Nat /\ AddrEnd - 1 \in Nat
    BY <1>1, AddrEndIs
  <1> HIDE DEF asked, stop
  <1>4. end \in Nat
    BY <1>3
  <1> HIDE DEF end
  <1>5. endWidth \in Nat
    BY <1>4, DigitsEnd
  <1> HIDE DEF endWidth
  <1>6. cfg.asep # 0 => rounded \in Int
    <2>1. SUFFICES ASSUME cfg.asep # 0 PROVE rounded \in Int
      OBVIOUS
    <2> DEFINE q == (endWidth + cfg.asep - 1) \div cfg.asep
    <2>2. q \in Int
      BY <1>1, <1>5, <2>1
    <2> HIDE DEF q
    <2>3. q * cfg.asep \in Int
      BY <1>1, <2>2
    <2>4. QED
      BY <2>3 DEF q
  <1> HIDE DEF rounded
  <1>7. adcol \in Int
    BY <1>2, <1>6
  <1> HIDE DEF adcol
  <1>8. Max({endWidth, adcol}) \in Int
    BY <1>5, <1>7, LargerIs
  <1>9. Len(text) \in Int
    <2>1. text \in Seq(Char)
      BY <1>1, <1>4, <1>7, AddressIsText
    <2> HIDE DEF text
    <2>2. QED
      BY <2>1
  <1> HIDE DEF text
  <1> DEFINE wide == adcol > 0
             w1 == Max({endWidth, adcol})
             w2 == Len(text)
  <1>10. AddressColumn(cfg, n) = [ok |-> wide, width1 |-> w1, width2 |-> w2]
    BY Zenon DEF AddressColumn, text, adcol, rounded, isoZeros, endWidth, end, stop, asked
  <1>11. wide \in BOOLEAN /\ w1 \in Int /\ w2 \in Int
    BY <1>8, <1>9
  <1> HIDE DEF wide, w1, w2
  <1>12. QED
    BY <1>10, <1>11 DEF Columns

\* A dump begins with all of its bytes to take.
LEMMA DumpOfIs ==
  ASSUME NEW cfg \in DumpCfgs, NEW item \in DumpItems, item.n > 0
  PROVE  LET d == DumpOf(cfg, item)
         IN  d \in Dumps /\ d.consumed < d.n /\ d.skip < d.columns
  <1> DEFINE group == IF item.group \in {0, -1} THEN 1 ELSE Mid(-8, item.group, 8)
             held == Mid(0, cfg.columns, 256)
             columns == IF held = 0 THEN OneLine ELSE held
             skip == Mid(0, cfg.skip, columns - 1)
             ruler == cfg.ruler /\ columns # OneLine
             addr == (cfg.addr - skip) % AddrEnd
             col == AddressColumn(cfg, item.n)
             d == DumpOf(cfg, item)
  <1>1. /\ cfg.skip \in Int /\ cfg.columns \in Int /\ cfg.addr \in Nat /\ cfg.ruler \in BOOLEAN
        /\ item.group \in Int /\ item.n \in Int
    BY DEF DumpCfgs, Cfgs, DumpItems
  <1>2. group \in (-8 .. 8) \ {0}
    <2> DEFINE low == -8
               high == 8
    <2>0. low \in Int /\ high \in Int /\ low <= high
      OBVIOUS
    <2> HIDE DEF low, high
    <2>1. Mid(low, item.group, high) \in low .. high
      BY <1>1, <2>0, MidIs
    <2> USE DEF low, high
    <2>2. Mid(-8, item.group, 8) = 0 => item.group = 0
      <3> DEFINE m == Max({-8, item.group})
      <3>1. m = IF -8 >= item.group THEN -8 ELSE item.group
        BY <1>1, LargerIs
      <3>2. m \in Int
        BY <1>1, <3>1
      <3> HIDE DEF m
      <3>3. Min({m, 8}) = IF m <= 8 THEN m ELSE 8
        BY <3>2, SmallerIs
      <3>4. Mid(-8, item.group, 8) = Min({m, 8})
        BY DEF Mid, m
      <3>5. QED
        BY <1>1, <3>1, <3>3, <3>4
    <2> DEFINE mid == Mid(-8, item.group, 8)
    <2> HIDE DEF mid
    <2>3. QED
      BY <1>1, <2>1, <2>2 DEF mid
  <1> HIDE DEF group
  <1>3. held \in 0 .. 256
    <2> DEFINE low == 0
               high == 256
    <2>1. low \in Int /\ high \in Int /\ low <= high
      OBVIOUS
    <2> HIDE DEF low, high
    <2>2. Mid(low, cfg.columns, high) \in low .. high
      BY <1>1, <2>1, MidIs
    <2>3. QED
      BY <2>2 DEF low, high
  <1> HIDE DEF held
  <1>4. columns \in 1 .. OneLine
    BY <1>3 DEF OneLine
  <1> HIDE DEF columns
  <1>5. skip \in 0 .. columns - 1 /\ columns \in Int
    <2>1. columns - 1 \in Int /\ 0 <= columns - 1 /\ columns \in Int /\ 0 \in Int
      BY <1>4 DEF OneLine
    <2> DEFINE last1 == columns - 1
    <2> HIDE DEF last1
    <2>2. Mid(0, cfg.skip, last1) \in 0 .. last1
      BY <1>1, <2>1, MidIs DEF last1
    <2>3. QED
      BY <2>1, <2>2 DEF last1, skip
  <1> HIDE DEF skip
  <1>6. addr \in Nat
    BY <1>1, <1>5, AddrEndIs
  <1>7. col \in Columns
    BY <1>1, ColumnIs
  <1> HIDE DEF addr, col
  <1>8. ruler \in BOOLEAN
    BY <1>1
  <1> HIDE DEF ruler
  <1>9. d = [n |-> item.n, group |-> group, columns |-> columns, skip |-> skip, consumed |-> 0,
             ruler |-> ruler, addr |-> addr, col |-> col]
    BY DEF DumpOf, group, columns, held, skip, ruler, addr, col
  <1> HIDE DEF d
  <1>10. skip \in Nat /\ skip < columns /\ 0 \in Nat /\ 0 < item.n
    BY <1>1, <1>5
  <1>11. d \in Dumps
    BY <1>1, <1>2, <1>4, <1>6, <1>7, <1>8, <1>9, <1>10 DEF Dumps
  <1>12. d.consumed = 0 /\ d.n = item.n /\ d.skip = skip /\ d.columns = columns
    BY <1>9
  <1>13. QED
    BY <1>10, <1>11, <1>12 DEF d

\* How many whole groups a line has, of length a: r bytes are left, l in the line.
LEMMA GroupsFit ==
  ASSUME NEW a \in 1 .. 8, NEW r \in Nat, NEW l \in Int, l <= r, r > 0, NEW x \in Int, NEW y \in Int, NEW g \in Int,
         x = r \div a, y = (l + a - 1) \div a, g = IF x <= y THEN x ELSE y
  PROVE  /\ l <= 0 => g <= 0 /\ l - g * a <= 0
         /\ l > 0 => g >= 0 /\ g * a <= r /\ (l - g * a > 0 => r - g * a < a)
         /\ l > 0 /\ l - g * a <= 0 => g >= 1
  <1>1. CASE a = 1 \/ a = 2
    BY <1>1
  <1>2. CASE a = 3 \/ a = 4
    BY <1>2
  <1>3. CASE a = 5
    BY <1>3
  <1>4. CASE a = 6
    BY <1>4
  <1>5. CASE a = 7
    BY <1>5
  <1>6. CASE a = 8
    BY <1>6
  <1>7. QED
    BY <1>1, <1>2, <1>3, <1>4, <1>5, <1>6

LEMMA DumpIs ==
  ASSUME NEW d \in Dumps, d.consumed < d.n
  PROVE  /\ AbsGroup(d) \in 1 .. 8 /\ Remain(d) \in Nat /\ Remain(d) > 0
         /\ InLine(d) \in Int /\ InLine(d) <= Remain(d) /\ InLine(d) <= d.columns - d.skip
         /\ InLine(d) <= 0 => InLine(d) = d.columns - d.skip
         /\ GroupsIn(d) \in Int
         /\ d.n \in Nat /\ d.consumed \in Nat /\ d.columns \in Nat /\ d.columns >= 1 /\ d.skip \in Nat
  <1>1. /\ d.n \in Int /\ d.consumed \in Nat /\ d.columns \in Nat /\ d.columns >= 1 /\ d.skip \in Nat
        /\ d.group \in (-8 .. 8) \ {0}
    BY DEF Dumps, OneLine
  <1>2. AbsGroup(d) \in 1 .. 8
    BY <1>1 DEF AbsGroup, Abs
  <1>3. Remain(d) \in Nat /\ Remain(d) > 0
    BY <1>1 DEF Remain
  <1>4. InLine(d) = IF Remain(d) <= d.columns - d.skip THEN Remain(d) ELSE d.columns - d.skip
    <2> DEFINE r == Remain(d)
               w == d.columns - d.skip
    <2>1. r \in Int /\ w \in Int
      BY <1>1, <1>3
    <2>2. InLine(d) = Min({r, w})
      BY DEF InLine
    <2> HIDE DEF r, w
    <2>3. InLine(d) = IF r <= w THEN r ELSE w
      BY <2>1, <2>2, SmallerIs
    <2>4. QED
      BY <2>3 DEF r, w
  <1>5. d.columns - d.skip \in Int
    BY <1>1
  <1>6. InLine(d) \in Int
    BY <1>3, <1>4, <1>5
  <1>7. GroupsIn(d) \in Int
    <2> DEFINE x == Remain(d) \div AbsGroup(d)
               y == (InLine(d) + AbsGroup(d) - 1) \div AbsGroup(d)
    <2>1. x \in Int /\ y \in Int
      BY <1>2, <1>3, <1>6
    <2>2. GroupsIn(d) = Min({x, y})
      BY DEF GroupsIn
    <2> HIDE DEF x, y
    <2>3. QED
      BY <2>1, <2>2, SmallerIs
  <1>8. d.n \in Nat
    BY <1>1
  <1>9. QED
    BY <1>1, <1>2, <1>3, <1>4, <1>5, <1>6, <1>7, <1>8

\* What a line takes.
LEMMA GroupsAre ==
  ASSUME NEW d \in Dumps, d.consumed < d.n
  PROVE  LET a == AbsGroup(d)
             r == Remain(d)
             l == InLine(d)
             g == GroupsIn(d)
         IN  /\ l <= 0 => g <= 0 /\ l - g * a <= 0
             /\ l > 0 => g >= 0 /\ g * a <= r /\ (l - g * a > 0 => r - g * a < a)
             /\ l > 0 /\ l - g * a <= 0 => g >= 1
  <1> DEFINE a == AbsGroup(d)
             r == Remain(d)
             l == InLine(d)
             g == GroupsIn(d)
             x == r \div a
             y == (l + a - 1) \div a
  <1>1. a \in 1 .. 8 /\ r \in Nat /\ r > 0 /\ l \in Int /\ l <= r /\ g \in Int
    BY DumpIs
  <1>2. g = Min({x, y})
    BY DEF GroupsIn
  <1> HIDE DEF a, r, l, g
  <1>3. x \in Int /\ y \in Int /\ x = r \div a /\ y = (l + a - 1) \div a
    BY <1>1
  <1> HIDE DEF x, y
  <1>4. g = IF x <= y THEN x ELSE y
    BY <1>2, <1>3, SmallerIs
  <1>5. /\ l <= 0 => g <= 0 /\ l - g * a <= 0
        /\ l > 0 => g >= 0 /\ g * a <= r /\ (l - g * a > 0 => r - g * a < a)
        /\ l > 0 /\ l - g * a <= 0 => g >= 1
    BY <1>1, <1>3, <1>4, GroupsFit
  <1>6. QED
    BY <1>5 DEF a, r, l, g

LEMMA StartsAre ==
  ASSUME NEW d \in Dumps, d.consumed < d.n
  PROVE  LET a == AbsGroup(d)
             l == InLine(d)
             g == GroupsIn(d)
             n == IF l <= 0 THEN 0 ELSE IF l > g * a THEN g + (l - g * a) ELSE g
         IN  /\ n \in Nat /\ Starts(d) \in Seq(Nat) /\ Len(Starts(d)) = n
             /\ \A i \in 1 .. n : Starts(d)[i] = IF i <= g THEN (i - 1) * a ELSE g * a + i - g - 1
  <1> DEFINE a == AbsGroup(d)
             r == Remain(d)
             l == InLine(d)
             g == GroupsIn(d)
             e == l - g * a
             m == Max({0, e})
             n == IF l <= 0 THEN 0 ELSE IF l > g * a THEN g + (l - g * a) ELSE g
             at(i) == IF i <= g THEN (i - 1) * a ELSE g * a + i - g - 1
             t == [i \in 1 .. n |-> at(i)]
  <1>1. a \in 1 .. 8 /\ r \in Nat /\ r > 0 /\ l \in Int /\ l <= r /\ g \in Int
    BY DumpIs
  <1>2. /\ l <= 0 => g <= 0 /\ l - g * a <= 0
        /\ l > 0 => g >= 0 /\ g * a <= r /\ (l - g * a > 0 => r - g * a < a)
        /\ l > 0 /\ l - g * a <= 0 => g >= 1
    BY GroupsAre
  <1>3. Starts(d) = [i \in 1 .. g + m |-> at(i)]
    BY DEF Starts
  <1> HIDE DEF a, r, l, g
  <1>4. g * a \in Int
    BY <1>1
  <1> DEFINE ga == g * a
  <1>5. e \in Int /\ m = IF 0 >= e THEN 0 ELSE e
    <2>1. e \in Int
      BY <1>1, <1>4
    <2> HIDE DEF e
    <2>2. QED
      BY <2>1, LargerIs
  <1> HIDE DEF m
  <1>6. n \in Nat /\ 1 .. g + m = 1 .. n
    <2>1. ga \in Int /\ e = l - ga /\ n = IF l <= 0 THEN 0 ELSE IF l > ga THEN g + (l - ga) ELSE g
      BY <1>4
    <2>2. /\ l <= 0 => g <= 0 /\ l - ga <= 0
          /\ l > 0 => g >= 0
      BY <1>2
    <2> HIDE DEF ga, n, e
    <2>3. QED
      BY <1>1, <1>5, <2>1, <2>2
  <1>7. \A i \in 1 .. n : at(i) \in Nat
    <2> SUFFICES ASSUME NEW i \in 1 .. n PROVE at(i) \in Nat
      OBVIOUS
    <2>1. i \in Nat /\ i >= 1 /\ l > 0
      BY <1>1, <1>6
    <2>2. g >= 0
      BY <1>2, <2>1
    <2>3. CASE i <= g
      <3>1. (i - 1) * a \in Nat
        BY <1>1, <2>1
      <3>2. QED
        BY <2>3, <3>1
    <2>4. CASE ~(i <= g)
      <3>1. ga \in Nat
        BY <1>1, <2>2
      <3> HIDE DEF ga
      <3>2. ga + i - g - 1 \in Nat
        BY <1>1, <2>1, <2>2, <2>4, <3>1
      <3>3. QED
        BY <2>4, <3>2 DEF ga
    <2>5. QED
      BY <2>3, <2>4
  <1> HIDE DEF n, at
  <1>8. Starts(d) = t
    BY <1>3, <1>6
  <1>9. t \in Seq(Nat) /\ Len(t) = n /\ \A i \in 1 .. n : t[i] = at(i)
    BY <1>6, <1>7
  <1> HIDE DEF t
  <1>10. n \in Nat /\ Starts(d) \in Seq(Nat) /\ Len(Starts(d)) = n /\ \A i \in 1 .. n : Starts(d)[i] = at(i)
    BY <1>6, <1>8, <1>9
  <1>11. QED
    BY <1>10 DEF n, at, a, l, g

\* A line takes bytes unless all of its columns are skipped.
LEMMA ConsumesIs ==
  ASSUME NEW d \in Dumps, d.consumed < d.n
  PROVE  /\ Consumes(d) \in 0 .. Remain(d)
         /\ InLine(d) <= 0 => Consumes(d) = 0
         /\ InLine(d) > 0 => Consumes(d) >= InLine(d)
         /\ \A i \in DOMAIN Starts(d) : Takes(d, Starts(d)[i]) \in 1 .. AbsGroup(d)
  <1> DEFINE a == AbsGroup(d)
             r == Remain(d)
             l == InLine(d)
             g == GroupsIn(d)
             ga == g * a
             n == IF l <= 0 THEN 0 ELSE IF l > ga THEN g + (l - ga) ELSE g
             S == Starts(d)
             z == S[n]
  <1>1. a \in 1 .. 8 /\ r \in Nat /\ r > 0 /\ l \in Int /\ l <= r /\ g \in Int
    BY DumpIs
  <1>2. /\ l > 0 => g >= 0 /\ ga <= r /\ (l - ga > 0 => r - ga < a)
        /\ l > 0 /\ l - ga <= 0 => g >= 1
    BY GroupsAre
  <1>3. /\ n \in Nat /\ S \in Seq(Nat) /\ Len(S) = n
        /\ \A i \in 1 .. n : S[i] = IF i <= g THEN (i - 1) * a ELSE ga + i - g - 1
    BY StartsAre
  <1>4. \A j : Takes(d, j) = IF r - j >= a THEN a ELSE 1
    BY DEF Takes
  <1>5. Consumes(d) = IF S = <<>> THEN 0 ELSE S[Len(S)] + Takes(d, S[Len(S)])
    BY DEF Consumes, Last
  <1>6. ga \in Int
    BY <1>1
  <1>7. n = IF l <= 0 THEN 0 ELSE IF l > ga THEN g + (l - ga) ELSE g
    OBVIOUS
  <1> HIDE DEF a, r, l, g, S, n
  <1>8. \A i \in DOMAIN S : Takes(d, S[i]) \in 1 .. a
    <2>1. \A j : Takes(d, j) \in 1 .. a
      BY <1>1, <1>4
    <2>2. QED
      BY <2>1
  <1>9. CASE l <= 0
    <2>1. S = <<>>
      BY <1>3, <1>7, <1>9
    <2>2. Consumes(d) = 0
      BY <1>5, <2>1
    <2>3. QED
      BY <1>1, <1>8, <1>9, <2>2 DEF a, r, l, S
  <1>10. CASE l > 0
    <2>1. g >= 0 /\ ga <= r
      BY <1>2, <1>10
    <2>2. n >= 1
      <3> HIDE DEF ga
      <3>1. QED
        BY <1>1, <1>2, <1>6, <1>7, <1>10, <2>1
    <2>3. S # <<>> /\ n \in 1 .. n
      BY <1>3, <2>2
    <2>4. Consumes(d) = z + Takes(d, z) /\ z = IF n <= g THEN (n - 1) * a ELSE ga + n - g - 1
      BY <1>3, <1>5, <2>3
    <2>5. Takes(d, z) = IF r - z >= a THEN a ELSE 1
      BY <1>4
    <2>6. CASE l > ga
      <3> HIDE DEF ga, z
      <3>1. n = g + (l - ga) /\ ~(n <= g)
        BY <1>1, <1>6, <1>7, <1>10, <2>6
      <3>2. z = l - 1
        BY <1>1, <1>6, <2>4, <3>1
      <3>3. r - ga < a
        BY <1>1, <1>2, <1>6, <1>10, <2>6
      <3>4. ~(r - z >= a)
        BY <1>1, <1>6, <2>6, <3>2, <3>3
      <3>5. Consumes(d) = l
        BY <1>1, <2>4, <2>5, <3>2, <3>4
      <3>6. QED
        BY <1>1, <1>8, <1>10, <3>5 DEF a, r, l, S
    <2>7. CASE l <= ga
      <3>1. n = g
        BY <1>1, <1>6, <1>7, <1>10, <2>7
      <3>2. z = (g - 1) * a
        BY <1>1, <2>4, <3>1
      <3>3. (g - 1) * a = ga - a
        BY <1>1
      <3> HIDE DEF ga, z
      <3>4. r - z >= a
        BY <1>1, <1>6, <2>1, <3>2, <3>3
      <3>5. Consumes(d) = ga
        BY <1>1, <1>6, <2>4, <2>5, <3>2, <3>3, <3>4
      <3>6. QED
        BY <1>1, <1>6, <1>8, <1>10, <2>1, <2>7, <3>5 DEF a, r, l, S
    <2>8. QED
      BY <1>1, <1>6, <2>6, <2>7
  <1>11. QED
    BY <1>1, <1>9, <1>10

\* A byte is two digits.
LEMMA HexText ==
  ASSUME NEW v \in Int
  PROVE  Hex(v) \in Seq(Char) /\ Len(Hex(v)) = 2
  <1> DEFINE q == (v \div 16) % 16
             r == v % 16
             x == Digit[q + 1]
             y == Digit[r + 1]
  <1>1. q + 1 \in 1 .. 16 /\ r + 1 \in 1 .. 16
    <2>1. v \div 16 \in Int
      OBVIOUS
    <2>2. QED
      BY <2>1
  <1> HIDE DEF q, r
  <1>2. x \in Char /\ y \in Char
    BY <1>1, CharsAre
  <1>3. Hex(v) = <<x, y>>
    BY DEF Hex, q, r
  <1> HIDE DEF x, y
  <1>4. QED
    BY <1>2, <1>3

\* The ruler.
LEMMA RulerText ==
  ASSUME NEW cfg \in Cfgs, NEW d \in Dumps
  PROVE  RulerPieces(cfg, d) \in Seq(Seq(Char))
  <1> DEFINE l == Times("-", Len(cfg.left))
             r == Times("-", Len(cfg.right))
             h == Times("-", Len(cfg.hyph))
             gap(i) == IF i < d.columns - 1 THEN h ELSE <<>>
             mark(i) == l \o Hex(i) \o r \o gap(i)
             marks == [i \in 1 .. d.columns |-> mark(i - 1)]
             p1 == Times(" ", cfg.indent)
             p2 == Times("-", d.col.width2 + 2)
  <1>1. /\ Len(cfg.left) \in Int /\ Len(cfg.right) \in Int /\ Len(cfg.hyph) \in Int
        /\ cfg.indent \in Int /\ d.col.width2 + 2 \in Int
        /\ d.columns \in Nat
    <2>1. cfg.left \in Seq(Char) /\ cfg.right \in Seq(Char) /\ cfg.hyph \in Seq(Char) /\ cfg.indent \in Int
      BY DEF Cfgs
    <2>2. d.col \in Columns /\ d.columns \in 1 .. OneLine
      BY DEF Dumps
    <2>3. d.col.width2 \in Int
      BY <2>2 DEF Columns
    <2>4. Len(cfg.left) \in Int /\ Len(cfg.right) \in Int /\ Len(cfg.hyph) \in Int
      BY <2>1
    <2>5. d.columns \in Nat
      BY <2>2 DEF OneLine
    <2>6. d.col.width2 + 2 \in Int
      BY <2>3
    <2>7. QED
      BY <2>1, <2>4, <2>5, <2>6
  <1>2. "-" \in Char /\ " " \in Char /\ <<>> \in Seq(Char)
    BY CharsAre, EmptySeq
  <1>3. l \in Seq(Char) /\ r \in Seq(Char) /\ h \in Seq(Char) /\ p1 \in Seq(Char) /\ p2 \in Seq(Char)
    BY <1>1, <1>2, Padded
  <1> HIDE DEF l, r, h, p1, p2
  <1>4. ASSUME NEW i \in Int PROVE mark(i) \in Seq(Char)
    <2>1. gap(i) \in Seq(Char) /\ Hex(i) \in Seq(Char)
      BY <1>2, <1>3, HexText
    <2> HIDE DEF gap
    <2>2. l \o Hex(i) \in Seq(Char)
      BY <1>3, <2>1, ConcatProperties
    <2>3. (l \o Hex(i)) \o r \in Seq(Char)
      BY <1>3, <2>2, ConcatProperties
    <2>4. QED
      BY <2>1, <2>3, ConcatProperties
  <1>5. \A i \in 1 .. d.columns : mark(i - 1) \in Seq(Char)
    <2> HIDE DEF mark
    <2>1. \A i \in 1 .. d.columns : i - 1 \in Int
      BY <1>1
    <2>2. QED
      BY <1>4, <2>1
  <1>6. RulerPieces(cfg, d) = IF ~ d.ruler THEN <<>> ELSE <<p1, p2>> \o marks \o <<Newline>>
    BY DEF RulerPieces, mark, gap, l, r, h, p1, p2
  <1> HIDE DEF mark
  <1>7. marks \in Seq(Seq(Char))
    BY <1>1, <1>5
  <1> HIDE DEF marks
  <1>8. <<p1, p2>> \in Seq(Seq(Char))
    BY <1>3
  <1>9. <<Newline>> \in Seq(Seq(Char))
    BY NewlineIs
  <1>10. <<p1, p2>> \o marks \in Seq(Seq(Char))
    BY <1>7, <1>8, ConcatProperties
  <1>11. (<<p1, p2>> \o marks) \o <<Newline>> \in Seq(Seq(Char))
    BY <1>9, <1>10, ConcatProperties
  <1>12. <<>> \in Seq(Seq(Char))
    BY EmptySeq
  <1>13. QED
    BY <1>6, <1>11, <1>12, Zenon

\* What comes before the bytes of a line,
LEMMA LineStartText ==
  ASSUME NEW cfg \in Cfgs, NEW d \in Dumps
  PROVE  LineStart(cfg, d) \in Seq(Char)
  <1> DEFINE indent == Times(" ", cfg.indent)
             address == AddressText(cfg, d.addr, d.col.width1)
             place == IF d.ruler THEN address \o <<":", " ">> ELSE <<>>
             n == PerByte(cfg) * d.skip
             skipped == Times(" ", n)
  <1>1. /\ cfg.indent \in Int /\ d.addr \in Nat /\ d.col.width1 \in Int /\ d.skip \in Int
        /\ Len(cfg.left) \in Int /\ Len(cfg.right) \in Int /\ Len(cfg.hyph) \in Int
    BY DEF Cfgs, Dumps, Columns
  <1>2. " " \in Char /\ ":" \in Char
    BY CharsAre
  <1>3. <<":", " ">> \in Seq(Char) /\ <<>> \in Seq(Char)
    <2>1. \A a, b \in Char : <<a, b>> \in Seq(Char)
      OBVIOUS
    <2>2. QED
      BY <1>2, <2>1, EmptySeq
  <1>4. address \in Seq(Char)
    BY <1>1, AddressIsText
  <1> HIDE DEF address
  <1>5. place \in Seq(Char)
    <2>1. address \o <<":", " ">> \in Seq(Char)
      BY <1>3, <1>4, ConcatProperties
    <2>2. QED
      BY <1>3, <2>1, Zenon
  <1> HIDE DEF place
  <1>6. n \in Int
    <2>1. PerByte(cfg) \in Int
      BY <1>1 DEF PerByte
    <2>2. QED
      BY <1>1, <2>1
  <1> HIDE DEF n
  <1>7. indent \in Seq(Char) /\ skipped \in Seq(Char)
    BY <1>1, <1>2, <1>6, Padded
  <1>8. LineStart(cfg, d) = (indent \o place) \o skipped
    BY DEF LineStart, place, address, n
  <1> HIDE DEF indent, skipped
  <1>9. indent \o place \in Seq(Char)
    BY <1>5, <1>7, ConcatProperties
  <1>10. QED
    BY <1>7, <1>8, <1>9, ConcatProperties

\* and the bytes of a group.
LEMMA GroupIsText ==
  ASSUME NEW cfg \in Cfgs, NEW d \in Dumps, d.consumed < d.n, NEW j \in Nat, Takes(d, j) \in Nat
  PROVE  GroupText(cfg, d, j) \in Seq(Char)
  <1> DEFINE g == Takes(d, j)
             nth(k) == IF d.group > 0 THEN k - 1 ELSE g - k
             byte(k) == Hex(d.consumed + j + nth(k))
             last1 == InLine(d) - 1
             bytes == [k \in 1 .. g |-> byte(k)]
             hyphens == [k \in 1 .. g - 1 |-> cfg.hyph]
             c1 == Len(cfg.right) * (g - 1)
             c2 == Len(cfg.left) * (g - 1)
             b1 == Times(" ", c1)
             b2 == Times(" ", c2)
             between == IF j + g - 1 < last1 THEN cfg.hyph ELSE <<>>
             tail == IF j >= last1 THEN <<>> ELSE b1 \o Concat(hyphens) \o between \o b2
  <1>1. /\ cfg.left \in Seq(Char) /\ cfg.right \in Seq(Char) /\ cfg.hyph \in Seq(Char) /\ <<>> \in Seq(Char)
        /\ d.consumed \in Nat
    BY EmptySeq DEF Cfgs, Dumps
  <1>2. g \in Nat
    OBVIOUS
  <1>3. GroupText(cfg, d, j) = ((cfg.left \o Concat(bytes)) \o cfg.right) \o tail
    BY DEF GroupText
  <1> HIDE DEF g
  <1>4. bytes \in Seq(Seq(Char))
    <2>1. ASSUME NEW k \in 1 .. g PROVE byte(k) \in Seq(Char)
      <3>1. d.consumed + j + nth(k) \in Int
        BY <1>1, <1>2
      <3> HIDE DEF nth
      <3>2. QED
        BY <3>1, HexText
    <2> HIDE DEF byte
    <2>2. QED
      BY <1>2, <2>1
  <1> HIDE DEF bytes
  <1>5. hyphens \in Seq(Seq(Char))
    <2> DEFINE m == IF g = 0 THEN 0 ELSE g - 1
    <2>1. m \in Nat /\ 1 .. g - 1 = 1 .. m
      BY <1>2
    <2> HIDE DEF m
    <2>2. [k \in 1 .. m |-> cfg.hyph] \in Seq(Seq(Char))
      BY <1>1, <2>1
    <2>3. QED
      BY <2>1, <2>2
  <1> HIDE DEF hyphens
  <1>6. b1 \in Seq(Char) /\ b2 \in Seq(Char)
    <2>1. Len(cfg.right) \in Int /\ Len(cfg.left) \in Int /\ g - 1 \in Int
      BY <1>1, <1>2
    <2>2. c1 \in Int /\ c2 \in Int
      BY <2>1
    <2> HIDE DEF c1, c2
    <2>3. QED
      BY <2>2, CharsAre, Padded
  <1> HIDE DEF b1, b2, last1
  <1>7. tail \in Seq(Char)
    <2>1. between \in Seq(Char)
      BY <1>1
    <2> HIDE DEF between
    <2>2. b1 \o Concat(hyphens) \in Seq(Char)
      BY <1>5, <1>6, Flattened, ConcatProperties
    <2>3. (b1 \o Concat(hyphens)) \o between \in Seq(Char)
      BY <2>1, <2>2, ConcatProperties
    <2>4. ((b1 \o Concat(hyphens)) \o between) \o b2 \in Seq(Char)
      BY <1>6, <2>3, ConcatProperties
    <2>5. QED
      BY <1>1, <2>4, Zenon
  <1> HIDE DEF tail
  <1>8. cfg.left \o Concat(bytes) \in Seq(Char)
    BY <1>1, <1>4, Flattened, ConcatProperties
  <1>9. (cfg.left \o Concat(bytes)) \o cfg.right \in Seq(Char)
    BY <1>1, <1>8, ConcatProperties
  <1>10. QED
    BY <1>3, <1>7, <1>9, ConcatProperties

\* A line is text.
LEMMA LineText ==
  ASSUME NEW cfg \in Cfgs, NEW d \in Dumps, d.consumed < d.n
  PROVE  /\ LinePieces(cfg, d) \in Seq(Seq(Char))
         /\ LinePieces(cfg, d) \o <<Newline>> \in Seq(Seq(Char))
  <1> DEFINE first == LineStart(cfg, d)
             S == Starts(d)
             group(i) == GroupText(cfg, d, S[i])
             groups == [i \in DOMAIN S |-> group(i)]
  <1>1. S \in Seq(Nat) /\ DOMAIN S = 1 .. Len(S) /\ Len(S) \in Nat
    BY StartsAre, LenProperties
  <1>2. ASSUME NEW i \in DOMAIN S PROVE group(i) \in Seq(Char)
    <2>1. Takes(d, S[i]) \in 1 .. AbsGroup(d) /\ AbsGroup(d) \in 1 .. 8
      BY ConsumesIs, DumpIs
    <2>2. Takes(d, S[i]) \in Nat /\ S[i] \in Nat
      BY <1>1, <2>1
    <2>3. QED
      BY <2>2, GroupIsText
  <1>3. LinePieces(cfg, d) = <<first>> \o groups
    BY DEF LinePieces
  <1> HIDE DEF S, group
  <1>4. groups \in Seq(Seq(Char))
    BY <1>1, <1>2
  <1> HIDE DEF groups
  <1>5. first \in Seq(Char)
    BY LineStartText
  <1> HIDE DEF first
  <1>6. <<first>> \in Seq(Seq(Char)) /\ <<Newline>> \in Seq(Seq(Char))
    BY <1>5, NewlineIs
  <1>7. LinePieces(cfg, d) \in Seq(Seq(Char))
    BY <1>3, <1>4, <1>6, ConcatProperties
  <1>8. QED
    BY <1>6, <1>7, ConcatProperties

\* The next line goes on with the dump.
LEMMA NextSkipIs ==
  ASSUME NEW d \in Dumps, d.consumed < d.n
  PROVE  /\ NextSkip(d) \in Nat
         /\ Consumes(d) = 0 => NextSkip(d) < d.skip
  <1> DEFINE e == Consumes(d) - InLine(d)
  <1>1. Consumes(d) \in Int /\ InLine(d) \in Int /\ d.skip \in Nat /\ d.columns \in Nat /\ d.columns >= 1
    <2>1. Consumes(d) \in 0 .. Remain(d) /\ Remain(d) \in Nat
      BY ConsumesIs, DumpIs
    <2>2. QED
      BY <2>1, DumpIs
  <1>2. NextSkip(d) = IF 0 >= e THEN 0 ELSE e
    <2>1. e \in Int
      BY <1>1
    <2>2. NextSkip(d) = Max({0, e})
      BY DEF NextSkip
    <2> HIDE DEF e
    <2>3. QED
      BY <2>1, <2>2, LargerIs
  <1>3. Consumes(d) = 0 => InLine(d) <= 0 /\ InLine(d) = d.columns - d.skip
    <2>1. InLine(d) > 0 => Consumes(d) >= InLine(d)
      BY ConsumesIs
    <2>2. InLine(d) <= 0 => InLine(d) = d.columns - d.skip
      BY DumpIs
    <2>3. QED
      BY <1>1, <2>1, <2>2
  <1>4. QED
    BY <1>1, <1>2, <1>3

LEMMA NextLine ==
  ASSUME NEW d \in Dumps, d.consumed < d.n
  PROVE  LET all == d.consumed + Consumes(d)
             e == [d EXCEPT !.consumed = all, !.skip = NextSkip(d), !.addr = (@ + d.columns) % AddrEnd]
         IN  all # d.n => /\ e \in Dumps /\ e.consumed < e.n
                          /\ \/ e.consumed > d.consumed
                             \/ e.consumed = d.consumed /\ e.skip < d.skip
  <1> DEFINE all == d.consumed + Consumes(d)
             skip == NextSkip(d)
             addr == (d.addr + d.columns) % AddrEnd
             e == [d EXCEPT !.consumed = all, !.skip = skip, !.addr = addr]
  <1> SUFFICES ASSUME all # d.n
               PROVE  /\ e \in Dumps /\ e.consumed < e.n
                      /\ \/ e.consumed > d.consumed
                         \/ e.consumed = d.consumed /\ e.skip < d.skip
    OBVIOUS
  <1>1. /\ Consumes(d) \in 0 .. Remain(d) /\ d.n \in Nat /\ d.consumed \in Nat /\ d.columns \in Nat
        /\ d.addr \in Nat
    BY ConsumesIs, DumpIs DEF Dumps
  <1>2. all \in Nat /\ all < d.n
    BY <1>1 DEF Remain
  <1>3. skip \in Nat /\ (Consumes(d) = 0 => skip < d.skip)
    BY NextSkipIs
  <1>4. addr \in Nat
    BY <1>1, AddrEndIs
  <1>5. Consumes(d) > 0 => all > d.consumed
    BY <1>1
  <1>6. Consumes(d) = 0 => all = d.consumed
    BY <1>1
  <1> HIDE DEF all, skip, addr
  <1>7. e \in Dumps /\ e.consumed = all /\ e.n = d.n /\ e.skip = skip
    BY <1>2, <1>3, <1>4 DEF Dumps
  <1>8. QED
    BY <1>1, <1>2, <1>3, <1>5, <1>6, <1>7


--------------------------------------------------------------------------------
(***************************************************************************)
(* The formatter's state.  A format a client's misuse of %w changes has    *)
(* numbers for its numbers still; mm_Strcat() has a format of its own.     *)
(***************************************************************************)
Appends == [kind : {"w"}, id : {"mm_Strcat"}, fmt : Seq(Items)]
Used == Items \cup IntItems \cup FloatItems \cup StrItems \cup Appends
Fmts == Seq(Used)
Owners == {"client", "measure", "fill", "w", "F"}
Faults == {"misplaced", "unwritten", "adcol_width", "str_l2"}
Cells == Char \cup {NUL, Untouched}
Mems == [0 .. MemSize - 1 -> Cells]
Frames ==
  [fmt : Fmts, base : Nat, max : Int, len : Nat, stock : Nat, outpos : Nat, cfg : DumpCfgs,
   dump : {NoDump} \cup Dumps, owner : Owners, rest : Seq(Fmts) \cup Seq(Nat)]
States == [mem : Mems, stream : Seq(Char), faults : SUBSET Faults, f : Frames]

\* What an item has, by its kind.
LEMMA KindIs ==
  ASSUME NEW item \in Used
  PROVE  /\ item.kind = "lit" => item.text \in Seq(Char)
         /\ item.kind = "str" => item \in StrItems
         /\ item.kind = "num" => item \in IntItems \cup FloatItems
         /\ item.kind = "set" => item \in SetItems
         /\ item.kind = "n" => item.text \in Seq(Char) /\ item.width \in Int
         /\ item.kind = "m" => item \in DumpItems
         /\ item.kind = "w" => item.fmt \in Fmts
         /\ item.kind = "F" => item.fmts \in Seq(Fmts)
  <1>1. item \in Leaves \/ (item.kind = "w" /\ item.fmt \in Seq(Items))
          \/ (item.kind = "F" /\ item.fmts \in Seq(Seq(Items)))
    <2>1. CASE item \in Items
      BY <2>1, ItemsAssumption
    <2>2. CASE item \in IntItems \cup FloatItems \cup StrItems
      BY <2>2 DEF Leaves
    <2>3. CASE item \in Appends
      BY <2>3 DEF Appends
    <2>4. QED
      BY <2>1, <2>2, <2>3 DEF Used
  <1>2. CASE item.kind = "w" /\ item.fmt \in Seq(Items)
    <2>1. item.fmt \in Fmts
      BY <1>2 DEF Fmts, Used
    <2>2. QED
      BY <1>2, <2>1
  <1>3. CASE item.kind = "F" /\ item.fmts \in Seq(Seq(Items))
    <2>1. Seq(Items) \subseteq Fmts
      BY DEF Fmts, Used
    <2>2. \A S, T : S \subseteq T => Seq(S) \subseteq Seq(T)
      OBVIOUS
    <2>3. item.fmts \in Seq(Fmts)
      BY <1>3, <2>1, <2>2
    <2>4. QED
      BY <1>3, <2>3
  <1>4. CASE item \in Leaves
    <2>1. CASE item \in [kind : {"lit"}, text : Seq(Char)]
      BY <2>1
    <2>2. CASE item \in StrItems
      BY <2>2 DEF StrItems
    <2>3. CASE item \in IntItems \cup FloatItems
      BY <2>3 DEF IntItems, FloatItems
    <2>4. CASE item \in SetItems
      BY <2>4 DEF SetItems
    <2>5. CASE item \in DumpItems
      BY <2>5 DEF DumpItems
    <2>6. CASE item \in [kind : {"n"}, text : Seq(Char), width : Int]
      BY <2>6
    <2>7. QED
      BY <1>4, <2>1, <2>2, <2>3, <2>4, <2>5, <2>6 DEF Leaves
  <1>5. QED
    BY <1>1, <1>2, <1>3, <1>4

\* The memory and the frame at work in it: the frame knows where its part of the buffer is,
\* and the buffer is the beginning of what the callback was told, but for a NUL at its end.
Prefix0(m, s, room0) ==
  \A i \in 0 .. MemSize - 1 :
    /\ i >= room0 => m[i] = Untouched
    /\ i < room0 /\ i < Len(s) => m[i] = s[i + 1] \/ (i = room0 - 1 /\ m[i] = NUL)
Lies(f, room0) == f.base = f.stock /\ f.base + f.max = room0 /\ f.outpos = f.len
Holds(s, room0) ==
  /\ s \in States
  /\ Lies(s.f, room0)
  /\ s.f.stock + s.f.len = Len(s.stream)
  /\ Prefix0(s.mem, s.stream, room0)

\* What a piece, or any number of them, changes.
Grown(s, t, room0) ==
  /\ t.f = [s.f EXCEPT !.len = t.f.len, !.outpos = t.f.outpos]
  /\ t.f.len >= s.f.len
  /\ s.f.base >= room0 => t.mem = s.mem
  /\ "misplaced" \in t.faults => "misplaced" \in s.faults
  /\ "str_l2" \in t.faults => "str_l2" \in s.faults

\* A piece is written behind what there is, as far as there is room.
LEMMA WriteIs ==
  ASSUME NEW m \in Mems, NEW s \in Seq(Char), NEW piece \in Seq(Char), NEW room0 \in Int,
         Prefix0(m, s, room0), NEW n \in Int,
         n = IF Len(piece) <= room0 - Len(s) THEN Len(piece) ELSE room0 - Len(s)
  PROVE  LET w == Written(m, Len(s), n, piece)
         IN  /\ w \in Mems
             /\ Prefix0(w, s \o piece, room0)
             /\ n <= 0 => w = m
  <1> DEFINE w == Written(m, Len(s), n, piece)
             t == s \o piece
  <1>1. Len(s) \in Nat /\ Len(piece) \in Nat
    OBVIOUS
  <1>2. /\ t \in Seq(Char) /\ Len(t) = Len(s) + Len(piece)
        /\ \A i \in 1 .. Len(t) : t[i] = IF i <= Len(s) THEN s[i] ELSE piece[i - Len(s)]
    BY ConcatProperties
  <1>3. DOMAIN m = 0 .. MemSize - 1
    BY DEF Mems
  <1>4. /\ DOMAIN w = 0 .. MemSize - 1
        /\ w = [i \in 0 .. MemSize - 1 |-> IF Len(s) <= i /\ i < Len(s) + n THEN piece[i - Len(s) + 1] ELSE m[i]]
        /\ \A i \in 0 .. MemSize - 1 :
            w[i] = IF Len(s) <= i /\ i < Len(s) + n THEN piece[i - Len(s) + 1] ELSE m[i]
    BY <1>3 DEF Written
  <1>5. MemSize \in Nat
    BY SnprintfAssumption
  <1> HIDE DEF w, t
  <1>6. ASSUME NEW i \in 0 .. MemSize - 1, Len(s) <= i, i < Len(s) + n
        PROVE  w[i] = piece[i - Len(s) + 1] /\ i - Len(s) + 1 \in 1 .. Len(piece) /\ w[i] \in Char /\ i < room0
    <2>1. i \in Int
      BY <1>5
    <2>2. i - Len(s) + 1 \in 1 .. Len(piece) /\ i < room0
      BY <1>1, <1>6, <2>1
    <2>3. piece[i - Len(s) + 1] \in Char
      BY <2>2
    <2>4. QED
      BY <1>4, <1>6, <2>2, <2>3
  <1>7. ASSUME NEW i \in 0 .. MemSize - 1, ~ (Len(s) <= i /\ i < Len(s) + n)
        PROVE  w[i] = m[i]
    BY <1>4, <1>7
  <1>8. w \in Mems
    <2>1. \A i \in 0 .. MemSize - 1 : w[i] \in Cells
      <3>1. \A i \in 0 .. MemSize - 1 : m[i] \in Cells
        BY DEF Mems
      <3>2. QED
        BY <1>6, <1>7, <3>1 DEF Cells
    <2>2. QED
      BY <1>4, <2>1 DEF Mems
  <1>9. Prefix0(w, t, room0)
    <2> SUFFICES ASSUME NEW i \in 0 .. MemSize - 1
                 PROVE  /\ i >= room0 => w[i] = Untouched
                        /\ i < room0 /\ i < Len(t) => w[i] = t[i + 1] \/ (i = room0 - 1 /\ w[i] = NUL)
      BY DEF Prefix0
    <2>1. i \in Nat
      BY <1>5
    <2>2. /\ i >= room0 => m[i] = Untouched
          /\ i < room0 /\ i < Len(s) => m[i] = s[i + 1] \/ (i = room0 - 1 /\ m[i] = NUL)
      BY DEF Prefix0
    <2>3. CASE Len(s) <= i /\ i < Len(s) + n
      <3>1. i + 1 \in 1 .. Len(t) /\ ~ (i + 1 <= Len(s)) /\ i + 1 - Len(s) = i - Len(s) + 1
        BY <1>1, <1>2, <1>6, <2>1, <2>3
      <3>2. t[i + 1] = piece[i - Len(s) + 1]
        BY <1>2, <3>1
      <3>3. QED
        BY <1>1, <1>6, <2>1, <2>3, <3>2
    <2>4. CASE ~ (Len(s) <= i /\ i < Len(s) + n)
      <3>1. i < room0 /\ i < Len(t) => i < Len(s)
        BY <1>1, <1>2, <2>1, <2>4
      <3>2. i < Len(s) => t[i + 1] = s[i + 1]
        BY <1>1, <1>2, <2>1
      <3>3. QED
        BY <1>7, <2>2, <2>4, <3>1, <3>2
    <2>5. QED
      BY <2>3, <2>4
  <1>10. n <= 0 => w = m
    <2> HAVE n <= 0
    <2>1. \A i \in 0 .. MemSize - 1 : w[i] = m[i]
      <3>1. \A i \in 0 .. MemSize - 1 : i \in Int
        BY <1>5
      <3>2. \A i \in 0 .. MemSize - 1 : ~ (Len(s) <= i /\ i < Len(s) + n)
        BY <1>1, <3>1
      <3>3. QED
        BY <1>7, <3>2
    <2>2. m = [i \in 0 .. MemSize - 1 |-> m[i]] /\ w = [i \in 0 .. MemSize - 1 |-> w[i]]
      BY <1>3, <1>4, <1>8 DEF Mems
    <2>3. QED
      BY <2>1, <2>2
  <1>11. QED
    BY <1>8, <1>9, <1>10 DEF w, t

\* A piece goes out.
LEMMA EmitIs ==
  ASSUME NEW room0 \in Int, NEW s, Holds(s, room0), NEW piece \in Seq(Char)
  PROVE  LET t == Emit(s, piece)
         IN  Holds(t, room0) /\ Grown(s, t, room0) /\ t.stream = s.stream \o piece
  <1> DEFINE f == s.f
             p == Len(piece)
             n == Fits(f, p)
             w == Written(s.mem, f.base + f.len, n, piece)
             stream1 == s.stream \o piece
             lost == IF piece # <<>> /\ f.stock + f.outpos # Len(s.stream) THEN {"misplaced"} ELSE {}
             junk == IF Junk \in ToSet(piece) THEN {"unwritten"} ELSE {}
             faults1 == s.faults \cup lost \cup junk
             g == [f EXCEPT !.len = @ + p, !.outpos = @ + p]
             t == Emit(s, piece)
  <1>1. /\ s \in States /\ f \in Frames /\ s.mem \in Mems /\ s.stream \in Seq(Char) /\ s.faults \in SUBSET Faults
        /\ f.base = f.stock /\ f.base + f.max = room0 /\ f.outpos = f.len /\ f.stock + f.len = Len(s.stream)
        /\ Prefix0(s.mem, s.stream, room0)
    BY DEF Holds, States, Lies
  <1>2. f.base \in Nat /\ f.max \in Int /\ f.len \in Nat /\ f.stock \in Nat /\ f.outpos \in Nat
    BY <1>1 DEF Frames
  <1>3. p \in Nat /\ Len(s.stream) \in Nat
    BY <1>1
  <1>4. f.max - f.len = room0 - Len(s.stream) /\ f.base + f.len = Len(s.stream)
    <2> HIDE DEF f, p
    <2>1. QED
      BY <1>1, <1>2, <1>3
  <1>5. n \in Int /\ n = IF p <= room0 - Len(s.stream) THEN p ELSE room0 - Len(s.stream)
    <2>1. f.max - f.len \in Int
      BY <1>2
    <2>2. n = Min({p, f.max - f.len})
      BY DEF Fits
    <2>3. n = IF p <= f.max - f.len THEN p ELSE f.max - f.len
      BY <1>3, <2>1, <2>2, SmallerIs
    <2> HIDE DEF n, p, f
    <2>4. QED
      BY <1>3, <1>4, <2>1, <2>3
  <1>6. w \in Mems /\ Prefix0(w, stream1, room0) /\ (n <= 0 => w = s.mem)
    <2>1. w = Written(s.mem, Len(s.stream), n, piece)
      BY <1>4
    <2> HIDE DEF n, w
    <2>2. QED
      BY <1>1, <1>5, <2>1, WriteIs
  <1>7. stream1 \in Seq(Char) /\ Len(stream1) = Len(s.stream) + p
    BY <1>1, ConcatProperties
  <1>8. lost = {} /\ junk \subseteq {"unwritten"}
    BY <1>1, <1>4
  <1>9. faults1 \in SUBSET Faults /\ ("misplaced" \in faults1 => "misplaced" \in s.faults)
          /\ ("str_l2" \in faults1 => "str_l2" \in s.faults)
    <2> HIDE DEF lost, junk
    <2>1. QED
      BY <1>1, <1>8 DEF Faults
  <1>10. t = [s EXCEPT !.mem = w, !.stream = stream1, !.faults = faults1, !.f = g]
    BY DEF Emit
  <1> HIDE DEF w, stream1, faults1, lost, junk, n
  <1>11. g \in Frames /\ g.len = f.len + p /\ g.outpos = f.outpos + p /\ g.base = f.base /\ g.max = f.max
           /\ g.stock = f.stock /\ g = [f EXCEPT !.len = g.len, !.outpos = g.outpos]
    <2> HIDE DEF p, f
    <2>1. f.len + p \in Nat /\ f.outpos + p \in Nat
      BY <1>2, <1>3
    <2>2. QED
      BY <1>1, <2>1 DEF Frames
  <1>12. f.base >= room0 => n <= 0
    <2> HIDE DEF f, p
    <2>1. QED
      BY <1>2, <1>3, <1>4, <1>5
  <1> HIDE DEF g, t
  <1>13. t.mem = w /\ t.stream = stream1 /\ t.faults = faults1 /\ t.f = g /\ t \in States
    BY <1>1, <1>6, <1>7, <1>9, <1>10, <1>11 DEF States
  <1>14. Holds(t, room0)
    <2>1. Lies(g, room0)
      BY <1>1, <1>11 DEF Lies
    <2>2. g.stock + g.len = Len(stream1)
      <3> HIDE DEF f, p
      <3>1. QED
        BY <1>1, <1>2, <1>3, <1>7, <1>11
    <2>3. QED
      BY <1>6, <1>13, <2>1, <2>2 DEF Holds
  <1>15. Grown(s, t, room0)
    <2>1. g.len >= f.len
      <3> HIDE DEF f, p
      <3>1. QED
        BY <1>2, <1>3, <1>11
    <2>2. s.f.base >= room0 => t.mem = s.mem
      BY <1>6, <1>12, <1>13
    <2>3. QED
      BY <1>9, <1>11, <1>13, <2>1, <2>2 DEF Grown
  <1>16. QED
    BY <1>13, <1>14, <1>15 DEF t, stream1

\* The pieces of a text, one after the other.
Emits(g, n, s, pieces) == g = [i \in 0 .. n |-> IF i = 0 THEN s ELSE Emit(g[i - 1], pieces[i])]

LEMMA EmitsExist ==
  ASSUME NEW s, NEW pieces, NEW n \in Nat
  PROVE  \E g : Emits(g, n, s, pieces)
  <1> DEFINE T == {k \in Nat : \E g : Emits(g, k, s, pieces)}
  <1>1. 0 \in T
    <2> DEFINE g == [i \in 0 .. 0 |-> s]
    <2>1. g = [i \in 0 .. 0 |-> IF i = 0 THEN s ELSE Emit(g[i - 1], pieces[i])]
      <3>1. \A i \in 0 .. 0 : i = 0
        OBVIOUS
      <3>2. QED
        BY <3>1, Zenon
    <2>2. Emits(g, 0, s, pieces)
      BY <2>1, Zenon DEF Emits
    <2>3. QED
      BY <2>2
  <1>2. ASSUME NEW k \in Nat, k \in T
        PROVE  k + 1 \in T
    <2>1. PICK f : Emits(f, k, s, pieces)
      BY <1>2
    <2> DEFINE top == Emit(f[k], pieces[k + 1])
               g == [i \in 0 .. k + 1 |-> IF i = k + 1 THEN top ELSE f[i]]
    <2>2. f = [i \in 0 .. k |-> IF i = 0 THEN s ELSE Emit(f[i - 1], pieces[i])]
      BY <2>1, Zenon DEF Emits
    <2>3. ASSUME NEW i \in 0 .. k + 1
          PROVE  g[i] = IF i = 0 THEN s ELSE Emit(g[i - 1], pieces[i])
      <3>1. CASE i = k + 1
        <4>1. g[i] = top /\ i # 0 /\ i - 1 = k /\ k \in 0 .. k + 1 /\ k # k + 1
          BY <3>1
        <4>2. g[k] = f[k]
          BY <4>1, Zenon
        <4>3. g[i] = Emit(g[i - 1], pieces[i])
          BY <3>1, <4>1, <4>2, Zenon
        <4>4. QED
          BY <4>1, <4>3, Zenon
      <3>2. CASE i # k + 1
        <4>1. i \in 0 .. k /\ (i # 0 => i - 1 \in 0 .. k + 1 /\ i - 1 # k + 1)
          BY <3>2
        <4>2. g[i] = f[i]
          BY <3>2, Zenon
        <4>3. f[i] = IF i = 0 THEN s ELSE Emit(f[i - 1], pieces[i])
          BY <2>2, <4>1, Zenon
        <4>4. i # 0 => g[i - 1] = f[i - 1]
          BY <4>1, Zenon
        <4>5. QED
          BY <4>2, <4>3, <4>4, Zenon
      <3>3. QED
        BY <3>1, <3>2
    <2>4. Emits(g, k + 1, s, pieces)
      <3>1. g = [i \in 0 .. k + 1 |-> g[i]]
        OBVIOUS
      <3> HIDE DEF g
      <3>2. QED
        BY <2>3, <3>1, Zenon DEF Emits
    <2>5. QED
      BY <2>4
  <1>3. n \in T
    <2> HIDE DEF T
    <2>1. QED
      BY <1>1, <1>2, Induction
  <1>4. QED
    BY <1>3

LEMMA GrownTwice ==
  ASSUME NEW room0, NEW s, NEW t, NEW u, s \in States, t \in States, u \in States,
         Grown(s, t, room0), Grown(t, u, room0)
  PROVE  Grown(s, u, room0)
  <1>1. s.f \in Frames /\ t.f \in Frames /\ u.f \in Frames
    BY DEF States
  <1>2. s.f.len \in Nat /\ t.f.len \in Nat /\ u.f.len \in Nat
    BY <1>1 DEF Frames
  <1>3. t.f = [s.f EXCEPT !.len = t.f.len, !.outpos = t.f.outpos]
          /\ u.f = [t.f EXCEPT !.len = u.f.len, !.outpos = u.f.outpos]
    BY DEF Grown
  <1>4. t.f.base = s.f.base /\ u.f = [s.f EXCEPT !.len = u.f.len, !.outpos = u.f.outpos]
    BY <1>1, <1>3 DEF Frames
  <1>5. u.f.len >= s.f.len
    BY <1>2 DEF Grown
  <1>6. QED
    BY <1>4, <1>5 DEF Grown

LEMMA GrownItself ==
  ASSUME NEW room0, NEW s \in States
  PROVE  Grown(s, s, room0)
  <1>1. s.f \in Frames
    BY DEF States
  <1>2. s.f = [s.f EXCEPT !.len = s.f.len, !.outpos = s.f.outpos] /\ s.f.len \in Nat
    BY <1>1 DEF Frames
  <1>3. QED
    BY <1>2 DEF Grown

\* All of the pieces go out.
LEMMA EmitAllIs ==
  ASSUME NEW room0 \in Int, NEW s, Holds(s, room0), NEW pieces \in Seq(Seq(Char))
  PROVE  LET t == EmitAll(s, pieces)
         IN  Holds(t, room0) /\ Grown(s, t, room0)
  <1> DEFINE n == Len(pieces)
             g == CHOOSE h : Emits(h, n, s, pieces)
             Good(t) == Holds(t, room0) /\ Grown(s, t, room0)
             T == {k \in Nat : k <= n => Good(g[k])}
  <1>1. n \in Nat
    OBVIOUS
  <1>2. Emits(g, n, s, pieces)
    BY <1>1, EmitsExist, Zenon
  <1>3. EmitAll(s, pieces) = g[n]
    BY Zenon DEF EmitAll, Emits
  <1> HIDE DEF g
  <1>4. g = [i \in 0 .. n |-> IF i = 0 THEN s ELSE Emit(g[i - 1], pieces[i])]
    BY <1>2, Zenon DEF Emits
  <1>5. 0 \in T
    <2>1. 0 \in 0 .. n
      BY <1>1
    <2>2. g[0] = s
      BY <1>4, <2>1, Zenon
    <2>3. Good(s)
      BY GrownItself DEF Holds
    <2>4. QED
      BY <2>2, <2>3
  <1>6. ASSUME NEW k \in Nat, k \in T
        PROVE  k + 1 \in T
    <2> SUFFICES ASSUME k + 1 <= n
                 PROVE  Good(g[k + 1])
      OBVIOUS
    <2>1. k <= n /\ k + 1 \in 0 .. n /\ k + 1 # 0 /\ k + 1 - 1 = k /\ k + 1 \in 1 .. n
      BY <1>1
    <2>2. Good(g[k])
      BY <1>6, <2>1
    <2>3. g[k + 1] = Emit(g[k], pieces[k + 1])
      <3>1. \A i \in 0 .. n : i # 0 => g[i] = Emit(g[i - 1], pieces[i])
        BY <1>4, Zenon
      <3>2. ASSUME NEW m \in 0 .. n, m # 0, m - 1 = k
            PROVE  g[m] = Emit(g[k], pieces[m])
        BY <3>1, <3>2, Zenon
      <3>3. QED
        BY <2>1, <3>2
    <2>4. pieces[k + 1] \in Seq(Char)
      BY <2>1
    <2>5. Holds(g[k + 1], room0) /\ Grown(g[k], g[k + 1], room0)
      BY <2>2, <2>3, <2>4, EmitIs
    <2>6. s \in States /\ g[k] \in States /\ g[k + 1] \in States
      BY <2>2, <2>5 DEF Holds
    <2>7. QED
      BY <2>2, <2>5, <2>6, GrownTwice
  <1>7. n \in T
    <2> HIDE DEF T
    <2>1. QED
      BY <1>1, <1>5, <1>6, Induction
  <1>8. QED
    BY <1>1, <1>3, <1>7

\* What a setting leaves is what settings are.
LEMMA SetIs ==
  ASSUME NEW cfg \in DumpCfgs, NEW item \in SetItems
  PROVE  Set(cfg, item) \in DumpCfgs
  <1>1. cfg \in Cfgs /\ cfg.asep \in Nat
    BY DEF DumpCfgs
  <1>2. CASE item \in [kind : {"set"}, conv : {"k", "K", "t", "T"}, text : Seq(Char)]
    <2> DEFINE b == item.text
               l == Len(b)
               half == l \div 2
               n1 == Min({l, 8})
               n2 == Min({half, 4})
               n3 == Min({half + 4, l})
               hyph == SubSeq(b, 1, n1)
               left == SubSeq(b, 1, n2)
               right == SubSeq(b, half + 1, n3)
    <2>1. b \in Seq(Char) /\ l \in Nat /\ item.conv \in {"k", "K", "t", "T"}
      BY <1>2
    <2>2. half \in Nat /\ half <= l
      <3> HIDE DEF l
      <3>1. QED
        BY <2>1
    <2>3. n1 \in Int /\ n1 <= l /\ n2 \in Int /\ n2 <= l /\ n3 \in Int /\ n3 <= l
      <3> DEFINE four == 4
                 eight == 8
                 h4 == half + four
      <3>1. four \in Int /\ eight \in Int /\ h4 \in Int
        BY <2>2
      <3> HIDE DEF l, half, four, eight, h4
      <3>2. /\ Min({l, eight}) = IF l <= eight THEN l ELSE eight
            /\ Min({half, four}) = IF half <= four THEN half ELSE four
            /\ Min({h4, l}) = IF h4 <= l THEN h4 ELSE l
        BY <2>1, <2>2, <3>1, SmallerIs
      <3>3. /\ n1 = IF l <= eight THEN l ELSE eight
            /\ n2 = IF half <= four THEN half ELSE four
            /\ n3 = IF h4 <= l THEN h4 ELSE l
        BY <3>2 DEF four, eight, h4
      <3> HIDE DEF n1, n2, n3
      <3>4. QED
        BY <2>1, <2>2, <3>1, <3>3
    <2> HIDE DEF n1, n2, n3, half
    <2>4. hyph \in Seq(Char) /\ left \in Seq(Char) /\ right \in Seq(Char)
      <3>1. half + 1 \in Nat \ {0} /\ 1 \in Nat \ {0}
        BY <2>2
      <3>2. QED
        BY <2>1, <2>3, <3>1, PartIs
    <2> HIDE DEF hyph, left, right
    <2>5. CASE item.conv = "k"
      <3>1. Set(cfg, item) = [cfg EXCEPT !.hyph = hyph]
        BY <2>5 DEF Set, hyph, n1
      <3>2. QED
        BY <1>1, <2>4, <3>1 DEF DumpCfgs, Cfgs
    <2>6. CASE item.conv = "K"
      <3>1. Set(cfg, item) = [cfg EXCEPT !.left = left, !.right = right]
        BY <2>6 DEF Set, BracketsSet, left, right, n2, n3, half
      <3>2. QED
        BY <1>1, <2>4, <3>1 DEF DumpCfgs, Cfgs
    <2>7. CASE item.conv = "t"
      <3>1. Set(cfg, item) = [cfg EXCEPT !.sep = b]
        BY <2>7 DEF Set
      <3>2. QED
        BY <1>1, <2>1, <3>1 DEF DumpCfgs, Cfgs
    <2>8. CASE item.conv = "T"
      <3>1. Set(cfg, item) = [cfg EXCEPT !.SEP = b]
        BY <2>8 DEF Set
      <3>2. QED
        BY <1>1, <2>1, <3>1 DEF DumpCfgs, Cfgs
    <2>9. QED
      BY <2>1, <2>5, <2>6, <2>7, <2>8
  <1>3. CASE item \in [kind : {"set"}, conv : {"_"}, value : Int]
    <2>1. Set(cfg, item) = [cfg EXCEPT !.sepw = item.value] /\ item.value \in Int
      BY <1>3 DEF Set
    <2>2. QED
      BY <1>1, <2>1 DEF DumpCfgs, Cfgs
  <1>4. CASE item \in [kind : {"set"}, conv : {"r", "R"}, width : Int, prec : Precs, columns : Int]
    <2> DEFINE indent == IF item.width > 0 THEN Mid(0, item.width, 64) ELSE cfg.indent
               skip == IF item.prec = NoPrec THEN 0 ELSE Abs(item.prec)
               ruler == cfg.ruler \/ item.conv = "R"
               columns == item.columns
    <2>1. item.width \in Int /\ item.prec \in Precs /\ item.columns \in Int /\ item.conv \in {"r", "R"}
      BY <1>4
    <2>2. cfg.indent \in Int
      BY <1>1 DEF Cfgs
    <2>3. skip \in Int
      BY <2>1, AbsIs DEF Precs
    <2>4. indent \in Int
      <3> DEFINE low == 0
                 high == 64
                 mid == Mid(low, item.width, high)
      <3>1. low \in Int /\ high \in Int /\ low <= high
        OBVIOUS
      <3> HIDE DEF low, high
      <3>2. mid \in low .. high
        BY <2>1, <3>1, MidIs
      <3>3. mid \in Int
        <4> HIDE DEF mid
        <4>1. QED
          BY <3>1, <3>2
      <3>4. indent = IF item.width > 0 THEN mid ELSE cfg.indent
        BY DEF low, high
      <3> HIDE DEF mid, indent
      <3>5. QED
        BY <2>2, <3>3, <3>4
    <2>5. Set(cfg, item) = [cfg EXCEPT !.indent = indent, !.skip = skip, !.columns = columns, !.ruler = ruler]
      BY <2>1 DEF Set, RulerSet
    <2>6. ruler \in BOOLEAN
      OBVIOUS
    <2>7. columns \in Int
      BY <2>1
    <2> HIDE DEF indent, skip, ruler, columns
    <2>8. [cfg EXCEPT !.indent = indent, !.skip = skip, !.columns = columns, !.ruler = ruler] \in DumpCfgs
      BY <1>1, <2>3, <2>4, <2>6, <2>7 DEF DumpCfgs, Cfgs
    <2>9. QED
      BY <2>5, <2>8
  <1>5. CASE item \in [kind : {"set"}, conv : {"v"}, width : Nat, prec : Precs, value : Nat]
    <2> DEFINE awidth == IF item.prec = NoPrec THEN 0 ELSE Abs(item.prec)
               iso == item.prec # NoPrec
               addr == item.value
               asep == item.width
    <2>1. item.width \in Nat /\ item.prec \in Precs /\ item.value \in Nat /\ item.conv = "v"
      BY <1>5
    <2>2. awidth \in Int
      BY <2>1, AbsIs DEF Precs
    <2>3. Set(cfg, item) = [cfg EXCEPT !.addr = addr, !.asep = asep, !.awidth = awidth, !.iso = iso]
      BY <2>1 DEF Set, AddressSet
    <2>4. iso \in BOOLEAN
      OBVIOUS
    <2>5. addr \in Nat /\ asep \in Nat
      BY <2>1
    <2> HIDE DEF awidth, iso, addr, asep
    <2>6. [cfg EXCEPT !.addr = addr, !.asep = asep, !.awidth = awidth, !.iso = iso] \in DumpCfgs
      <3> DEFINE cfg1 == [cfg EXCEPT !.addr = addr, !.asep = asep]
      <3>1. cfg1 \in Cfgs /\ cfg1.asep \in Nat
        <4>1. addr \in Nat /\ asep \in Nat /\ asep \in Int
          BY <2>5
        <4>2. cfg1.asep = asep
          BY <1>1 DEF Cfgs
        <4>3. cfg1 \in Cfgs
          BY <1>1, <4>1 DEF Cfgs
        <4>4. QED
          BY <4>1, <4>2, <4>3, Zenon
      <3>2. [cfg EXCEPT !.addr = addr, !.asep = asep, !.awidth = awidth, !.iso = iso]
              = [cfg1 EXCEPT !.awidth = awidth, !.iso = iso]
        OBVIOUS
      <3> HIDE DEF cfg1
      <3>3. [cfg1 EXCEPT !.awidth = awidth, !.iso = iso] \in DumpCfgs
        BY <2>2, <2>4, <3>1 DEF DumpCfgs, Cfgs
      <3>4. QED
        BY <3>2, <3>3
    <2>7. QED
      BY <2>3, <2>6
  <1>6. QED
    BY <1>2, <1>3, <1>4, <1>5 DEF SetItems

LEMMA InitialCfgIs == InitialCfg \in DumpCfgs
  <1>1. <<>> \in Seq(Char)
    BY EmptySeq
  <1>2. QED
    BY <1>1 DEF InitialCfg, DumpCfgs, Cfgs

LEMMA FrameHas ==
  ASSUME NEW f \in Frames
  PROVE  /\ f.fmt \in Fmts /\ f.base \in Nat /\ f.max \in Int /\ f.len \in Nat /\ f.stock \in Nat
         /\ f.outpos \in Nat /\ f.cfg \in DumpCfgs /\ f.dump \in {NoDump} \cup Dumps
         /\ f.owner \in Owners /\ f.rest \in Seq(Fmts) \cup Seq(Nat)
  BY DEF Frames

\* Frames, as calls begin, go on and are counted.
LEMMA FrameIs ==
  ASSUME NEW fmt \in Fmts, NEW base \in Nat, NEW max \in Int, NEW stock \in Nat, NEW owner \in Owners,
         NEW rest \in Seq(Fmts) \cup Seq(Nat)
  PROVE  LET f == Frame(fmt, base, max, stock, owner, rest)
         IN  /\ f \in Frames
             /\ f.base = base /\ f.max = max /\ f.len = 0 /\ f.stock = stock /\ f.outpos = 0
             /\ f.dump = NoDump /\ f.owner = owner /\ f.rest = rest /\ f.fmt = fmt
  BY InitialCfgIs DEF Frame, Frames

LEMMA NextIs ==
  ASSUME NEW f \in Frames, f.fmt # <<>>
  PROVE  /\ Next1(f) \in Frames
         /\ Next1(f) = [f EXCEPT !.fmt = Tail(f.fmt)]
  <1>1. Tail(f.fmt) \in Fmts
    BY DEF Frames, Fmts
  <1>2. QED
    BY <1>1 DEF Next1, Frames

LEMMA AfterDumpIs ==
  ASSUME NEW f \in Frames, f.fmt # <<>>
  PROVE  LET g == AfterDump(f)
         IN  /\ g \in Frames /\ g.dump = NoDump
             /\ g.base = f.base /\ g.max = f.max /\ g.len = f.len /\ g.stock = f.stock
             /\ g.outpos = f.outpos /\ g.owner = f.owner /\ g.rest = f.rest
  <1> DEFINE cfg == [f.cfg EXCEPT !.addr = 0, !.iso = FALSE]
  <1>1. f.cfg \in DumpCfgs
    BY DEF Frames
  <1>2. cfg \in DumpCfgs
    BY <1>1 DEF DumpCfgs, Cfgs
  <1>3. AfterDump(f) = [Next1(f) EXCEPT !.dump = NoDump, !.cfg = cfg]
    BY NextIs DEF AfterDump, Frames
  <1> DEFINE h == Next1(f)
             g == [h EXCEPT !.dump = NoDump, !.cfg = cfg]
  <1>4. h \in Frames /\ h.base = f.base /\ h.max = f.max /\ h.len = f.len /\ h.stock = f.stock
          /\ h.outpos = f.outpos /\ h.owner = f.owner /\ h.rest = f.rest
    BY NextIs DEF Frames
  <1> HIDE DEF cfg, h
  <1>5. g \in Frames /\ g.dump = NoDump /\ g.base = h.base /\ g.max = h.max /\ g.len = h.len /\ g.stock = h.stock
          /\ g.outpos = h.outpos /\ g.owner = h.owner /\ g.rest = h.rest
    BY <1>2, <1>4 DEF Frames
  <1>6. AfterDump(f) = g
    BY <1>3 DEF h
  <1> HIDE DEF g
  <1>7. QED
    BY <1>4, <1>5, <1>6

--------------------------------------------------------------------------------
(***************************************************************************)
(* The calls under way.  Each begins where the one it was made in has got  *)
(* to, so that their parts of the buffer all end where the buffer ends;    *)
(* when even the outermost begins behind that, the NUL is there already.   *)
(***************************************************************************)
Inner == {"w", "F"}
Plain(c) == c.api \in {"snprintf", "Strcat"}
Rested(f, room0) ==
  /\ f.owner \in {"client", "w", "F"} => f.rest \in Seq(Fmts)
  /\ f.owner = "fill" => f.rest \in Seq(Nat) /\ f.rest # <<>>
  /\ f.owner \in {"measure", "fill"} => f.stock = 0
  /\ f.owner = "measure" => room0 = 0
Sits(f, room0, c) ==
  /\ Lies(f, room0) /\ Rested(f, room0)
  /\ Plain(c) => f.owner \notin {"measure", "fill"}
Dumping(f) == f.dump # NoDump => f.dump.consumed < f.dump.n /\ f.fmt # <<>>

Stacked(st, n, m, room0, c) ==
  /\ st \in Seq(Frames)
  /\ \A k \in 1 .. Len(st) :
       /\ Sits(st[k], room0, c)
       /\ k < Len(st) <=> st[k].owner \in Inner
       /\ st[Len(st)].base <= st[k].base
       /\ st[k].stock + st[k].len = IF k = 1 THEN n ELSE st[k - 1].stock
       /\ k > 1 => st[k].dump = NoDump
       /\ k = 1 => Dumping(st[k])
  /\ st # <<>> /\ st[Len(st)].base >= room0 /\ room0 > 0 => m[room0 - 1] = NUL

\* The innermost call gets on, and writes only what there is room for.
LEMMA TopIs ==
  ASSUME NEW st, NEW n \in Int, NEW n1 \in Int, NEW m, NEW m1, NEW room0 \in Int, NEW c,
         Stacked(st, n, m, room0, c), st # <<>>,
         NEW g \in Frames, g.base = st[1].base, g.max = st[1].max, g.stock = st[1].stock,
         g.outpos = g.len, g.owner = st[1].owner, g.rest = st[1].rest,
         g.stock + g.len = n1, Dumping(g), st[1].base >= room0 => m1 = m
  PROVE  /\ Stacked(<<g>> \o Tail(st), n1, m1, room0, c)
         /\ Len(<<g>> \o Tail(st)) = Len(st) /\ (<<g>> \o Tail(st))[1] = g
  <1> DEFINE z == <<g>> \o Tail(st)
             l == Len(st)
  <1>1. st \in Seq(Frames) /\ l \in Nat /\ l >= 1 /\ st[1] \in Frames /\ st[l] \in Frames
    BY DEF Stacked
  <1>2. /\ z \in Seq(Frames) /\ Len(z) = l /\ z[1] = g /\ z # <<>>
        /\ \A k \in 2 .. l : z[k] = st[k]
    <2>1. Tail(st) \in Seq(Frames) /\ Len(Tail(st)) = l - 1 /\ \A k \in 1 .. l - 1 : Tail(st)[k] = st[k + 1]
      BY <1>1
    <2>2. <<g>> \in Seq(Frames) /\ Len(<<g>>) = 1 /\ <<g>>[1] = g
      OBVIOUS
    <2>3. z \in Seq(Frames) /\ Len(z) = 1 + (l - 1)
           /\ \A k \in 1 .. 1 + (l - 1) : z[k] = IF k <= 1 THEN <<g>>[k] ELSE Tail(st)[k - 1]
      BY <2>1, <2>2, ConcatProperties
    <2> HIDE DEF z, l
    <2>4. Len(z) = l /\ \A k \in 1 .. l : z[k] = IF k <= 1 THEN <<g>>[k] ELSE Tail(st)[k - 1]
      <3>1. 1 + (l - 1) = l
        BY <1>1
      <3>2. QED
        BY <2>3, <3>1, Zenon
    <2>5. z[1] = g
      BY <1>1, <2>2, <2>4
    <2>6. ASSUME NEW k \in 2 .. l PROVE z[k] = st[k]
      <3>1. k \in 1 .. l /\ ~ (k <= 1) /\ k - 1 \in 1 .. l - 1 /\ (k - 1) + 1 = k
        BY <1>1
      <3>2. QED
        BY <2>1, <2>4, <3>1
    <2>7. QED
      BY <1>1, <2>3, <2>4, <2>5, <2>6
  <1> HIDE DEF z, l
  <1>3. /\ \A k \in 1 .. l :
            /\ Sits(st[k], room0, c)
            /\ k < l <=> st[k].owner \in Inner
            /\ st[l].base <= st[k].base
            /\ st[k].stock + st[k].len = IF k = 1 THEN n ELSE st[k - 1].stock
            /\ k > 1 => st[k].dump = NoDump
        /\ st[l].base >= room0 /\ room0 > 0 => m[room0 - 1] = NUL
    BY DEF Stacked, l
  <1>4. z[l].base = st[l].base
    <2>1. CASE l = 1
      BY <1>2, <2>1
    <2>2. CASE l # 1
      <3>1. l \in 2 .. l
        BY <1>1, <2>2
      <3>2. QED
        BY <1>2, <3>1
    <2>3. QED
      BY <2>1, <2>2
  <1>5. Sits(g, room0, c)
    <2>1. 1 \in 1 .. l
      BY <1>1
    <2>2. Sits(st[1], room0, c)
      BY <1>3, <2>1
    <2>3. QED
      BY <2>2 DEF Sits, Lies, Rested
  <1>6. ASSUME NEW k \in 1 .. l
        PROVE  /\ Sits(z[k], room0, c)
               /\ k < l <=> z[k].owner \in Inner
               /\ z[l].base <= z[k].base
               /\ z[k].stock + z[k].len = IF k = 1 THEN n1 ELSE z[k - 1].stock
               /\ k > 1 => z[k].dump = NoDump
               /\ k = 1 => Dumping(z[k])
    <2>1. CASE k = 1
      BY <1>2, <1>3, <1>4, <1>5, <2>1
    <2>2. CASE k # 1
      <3>1. k \in 2 .. l
        BY <1>1, <2>2
      <3>2. z[k] = st[k]
        BY <1>2, <3>1
      <3>3. z[k - 1].stock = st[k - 1].stock
        <4>1. CASE k = 2
          BY <1>2, <4>1
        <4>2. CASE k # 2
          <5>1. k - 1 \in 2 .. l
            BY <1>1, <3>1, <4>2
          <5>2. QED
            BY <1>2, <5>1
        <4>3. QED
          BY <4>1, <4>2
      <3>4. QED
        BY <1>3, <1>4, <2>2, <3>2, <3>3
    <2>3. QED
      BY <2>1, <2>2
  <1>7. z[l].base >= room0 /\ room0 > 0 => m1[room0 - 1] = NUL
    <2>1. 1 \in 1 .. l
      BY <1>1
    <2>2. st[l].base <= st[1].base
      BY <1>3, <2>1
    <2>3. st[l].base \in Int /\ st[1].base \in Int
      BY <1>1, FrameHas
    <2>4. st[l].base >= room0 => m1 = m
      BY <2>2, <2>3
    <2>5. QED
      BY <1>3, <1>4, <2>4
  <1>8. Stacked(z, n1, m1, room0, c)
    BY <1>2, <1>6, <1>7 DEF Stacked
  <1>9. QED
    BY <1>2, <1>8 DEF z, l

\* A call is made in another.
LEMMA PushIs ==
  ASSUME NEW st, NEW n \in Int, NEW m, NEW room0 \in Int, NEW c,
         Stacked(st, n, m, room0, c), st # <<>>, st[1].dump = NoDump,
         NEW g \in Frames, Lies(g, room0), g.len = 0, g.stock = n, g.owner \in Inner, g.rest \in Seq(Fmts),
         g.dump = NoDump
  PROVE  Stacked(<<g>> \o st, n, m, room0, c)
  <1> DEFINE z == <<g>> \o st
             l == Len(st)
  <1>1. st \in Seq(Frames) /\ l \in Nat /\ l >= 1 /\ st[1] \in Frames /\ st[l] \in Frames
    BY DEF Stacked
  <1>2. /\ z \in Seq(Frames) /\ Len(z) = l + 1 /\ z[1] = g /\ z # <<>>
        /\ \A k \in 2 .. l + 1 : z[k] = st[k - 1] /\ k - 1 \in 1 .. l
    <2>1. <<g>> \in Seq(Frames) /\ Len(<<g>>) = 1 /\ <<g>>[1] = g
      OBVIOUS
    <2>2. z \in Seq(Frames) /\ Len(z) = 1 + l
           /\ \A k \in 1 .. 1 + l : z[k] = IF k <= 1 THEN <<g>>[k] ELSE st[k - 1]
      BY <1>1, <2>1, ConcatProperties
    <2> HIDE DEF z, l
    <2>3. z[1] = g
      BY <1>1, <2>1, <2>2
    <2>4. ASSUME NEW k \in 2 .. l + 1 PROVE z[k] = st[k - 1] /\ k - 1 \in 1 .. l
      <3>1. k \in 1 .. 1 + l /\ ~ (k <= 1) /\ k - 1 \in 1 .. l
        BY <1>1
      <3>2. QED
        BY <2>2, <3>1
    <2>5. Len(z) = l + 1 /\ z # <<>>
      BY <1>1, <2>2
    <2>6. QED
      BY <2>2, <2>3, <2>4, <2>5
  <1> HIDE DEF z, l
  <1>3. /\ \A k \in 1 .. l :
            /\ Sits(st[k], room0, c)
            /\ k < l <=> st[k].owner \in Inner
            /\ st[l].base <= st[k].base
            /\ st[k].stock + st[k].len = IF k = 1 THEN n ELSE st[k - 1].stock
            /\ k > 1 => st[k].dump = NoDump
        /\ st[l].base >= room0 /\ room0 > 0 => m[room0 - 1] = NUL
    BY DEF Stacked, l
  <1>4. 1 \in 1 .. l /\ l + 1 \in 2 .. l + 1 /\ (l + 1) - 1 = l
    BY <1>1
  <1>5. z[l + 1] = st[l]
    BY <1>2, <1>4
  <1>6. st[l].base <= g.base
    <2>1. st[l].base <= st[1].base /\ st[1].stock + st[1].len = n /\ st[1].base = st[1].stock
      BY <1>3, <1>4 DEF Sits, Lies
    <2>2. st[l].base \in Nat /\ st[1].base \in Nat /\ st[1].len \in Nat /\ g.stock \in Nat
      BY <1>1, FrameHas
    <2>3. g.base = g.stock
      BY DEF Lies
    <2>4. QED
      BY <2>1, <2>2, <2>3
  <1>7. Sits(g, room0, c)
    BY DEF Sits, Rested, Inner
  <1>8. ASSUME NEW k \in 1 .. l + 1
        PROVE  /\ Sits(z[k], room0, c)
               /\ k < l + 1 <=> z[k].owner \in Inner
               /\ z[l + 1].base <= z[k].base
               /\ z[k].stock + z[k].len = IF k = 1 THEN n ELSE z[k - 1].stock
               /\ k > 1 => z[k].dump = NoDump
               /\ k = 1 => Dumping(z[k])
    <2>1. CASE k = 1
      <3>1. 1 < l + 1
        BY <1>1
      <3>2. g.stock + g.len = n
        BY FrameHas
      <3>3. Dumping(g)
        BY DEF Dumping
      <3>4. QED
        BY <1>2, <1>5, <1>6, <1>7, <2>1, <3>1, <3>2, <3>3
    <2>2. CASE k # 1
      <3>1. k \in 2 .. l + 1
        BY <1>1, <2>2
      <3>2. z[k] = st[k - 1] /\ k - 1 \in 1 .. l
        BY <1>2, <3>1
      <3>3. k < l + 1 <=> k - 1 < l
        BY <1>1, <3>1
      <3>4. Sits(z[k], room0, c) /\ (k < l + 1 <=> z[k].owner \in Inner) /\ z[l + 1].base <= z[k].base
        BY <1>3, <1>5, <3>2, <3>3
      <3>5. z[k].dump = NoDump
        <4>1. CASE k = 2
          BY <3>2, <4>1
        <4>2. CASE k # 2
          <5>1. k - 1 > 1
            BY <1>1, <3>1, <4>2
          <5>2. QED
            BY <1>3, <3>2, <5>1
        <4>3. QED
          BY <4>1, <4>2
      <3>6. z[k].stock + z[k].len = z[k - 1].stock
        <4>1. CASE k = 2
          <5>1. st[1].stock + st[1].len = n
            BY <1>3, <1>4
          <5>2. z[2] = st[1] /\ z[2 - 1] = g
            BY <1>2, <3>2, <4>1
          <5>3. QED
            BY <4>1, <5>1, <5>2
        <4>2. CASE k # 2
          <5> DEFINE j == k - 1
          <5>1. j \in 2 .. l + 1 /\ j \in 1 .. l /\ j # 1
            BY <1>1, <3>1, <4>2
          <5>2. z[j] = st[j - 1] /\ st[j].stock + st[j].len = st[j - 1].stock
            BY <1>2, <1>3, <5>1
          <5>3. QED
            BY <3>2, <5>2
        <4>3. QED
          BY <4>1, <4>2
      <3>7. QED
        BY <2>2, <3>4, <3>5, <3>6
    <2>3. QED
      BY <2>1, <2>2
  <1>9. QED
    BY <1>2, <1>3, <1>5, <1>8, ZenonT(40) DEF Stacked, z

\* A call that was made in another is over: the other one has got as far as it began.
LEMMA PopIs ==
  ASSUME NEW st, NEW n \in Int, NEW m, NEW room0 \in Int, NEW c,
         Stacked(st, n, m, room0, c), st # <<>>, st[1].owner \in Inner
  PROVE  /\ Stacked(Tail(st), st[1].stock, m, room0, c) /\ Tail(st) # <<>>
         /\ st[2] \in Frames /\ Tail(st)[1] = st[2] /\ st[2].dump = NoDump
         /\ st[2].base <= st[1].base /\ st[2].stock + st[2].len = st[1].stock
  <1> DEFINE z == Tail(st)
             l == Len(st)
  <1>1. st \in Seq(Frames) /\ l \in Nat /\ l >= 1
    BY DEF Stacked
  <1>2. /\ \A k \in 1 .. l :
            /\ Sits(st[k], room0, c)
            /\ k < l <=> st[k].owner \in Inner
            /\ st[l].base <= st[k].base
            /\ st[k].stock + st[k].len = IF k = 1 THEN n ELSE st[k - 1].stock
            /\ k > 1 => st[k].dump = NoDump
        /\ st[l].base >= room0 /\ room0 > 0 => m[room0 - 1] = NUL
    BY DEF Stacked, l
  <1>3. l >= 2
    <2>1. 1 \in 1 .. l
      BY <1>1
    <2>2. 1 < l
      BY <1>2, <2>1
    <2>3. QED
      BY <1>1, <2>2
  <1>4. z \in Seq(Frames) /\ Len(z) = l - 1 /\ z # <<>> /\ \A k \in 1 .. l - 1 : z[k] = st[k + 1] /\ k + 1 \in 1 .. l
    <2>1. st # <<>>
      OBVIOUS
    <2>2. z \in Seq(Frames) /\ Len(z) = l - 1 /\ \A k \in 1 .. l - 1 : z[k] = st[k + 1]
      BY <1>1, <2>1
    <2> HIDE DEF z, l
    <2>3. \A k \in 1 .. l - 1 : k + 1 \in 1 .. l
      BY <1>1
    <2>4. Len(z) # 0
      BY <1>1, <1>3, <2>2
    <2>5. z # <<>>
      BY <2>4
    <2>6. QED
      BY <2>2, <2>3, <2>5
  <1> HIDE DEF z, l
  <1>5. 2 \in 1 .. l /\ 1 \in 1 .. l /\ 1 \in 1 .. l - 1 /\ l - 1 \in 1 .. l - 1 /\ (l - 1) + 1 = l /\ l \in 1 .. l
    BY <1>1, <1>3
  <1>6. z[1] = st[2] /\ z[l - 1] = st[l] /\ st[2] \in Frames /\ st[1] \in Frames
    <2>1. st[2] \in Frames /\ st[1] \in Frames
      BY <1>1, <1>5 DEF l
    <2>2. QED
      BY <1>4, <1>5, <2>1
  <1>7. st[2].dump = NoDump /\ st[2].stock + st[2].len = st[1].stock
    BY <1>2, <1>5
  <1>8. ASSUME NEW k \in 1 .. l - 1
        PROVE  /\ Sits(z[k], room0, c)
               /\ k < l - 1 <=> z[k].owner \in Inner
               /\ z[l - 1].base <= z[k].base
               /\ z[k].stock + z[k].len = IF k = 1 THEN st[1].stock ELSE z[k - 1].stock
               /\ k > 1 => z[k].dump = NoDump
               /\ k = 1 => Dumping(z[k])
    <2>1. z[k] = st[k + 1] /\ k + 1 \in 1 .. l /\ k + 1 > 1 /\ (k < l - 1 <=> k + 1 < l) /\ k + 1 # 1
      BY <1>1, <1>4
    <2>2. Sits(z[k], room0, c) /\ (k < l - 1 <=> z[k].owner \in Inner) /\ z[l - 1].base <= z[k].base
            /\ z[k].dump = NoDump
      BY <1>2, <1>6, <2>1
    <2>3. z[k].stock + z[k].len = IF k = 1 THEN st[1].stock ELSE z[k - 1].stock
      <3>1. CASE k = 1
        BY <1>6, <1>7, <3>1
      <3>2. CASE k # 1
        <4>1. k - 1 \in 1 .. l - 1 /\ (k - 1) + 1 = k /\ (k + 1) - 1 = k
          BY <1>1, <3>2
        <4>2. z[k - 1] = st[k]
          BY <1>4, <4>1
        <4>3. st[k + 1].stock + st[k + 1].len = st[k].stock
          BY <1>2, <2>1, <4>1
        <4>4. QED
          BY <2>1, <3>2, <4>2, <4>3
      <3>3. QED
        BY <3>1, <3>2
    <2>4. QED
      BY <2>2, <2>3 DEF Dumping
  <1>9. Stacked(z, st[1].stock, m, room0, c)
    BY <1>2, <1>4, <1>6, <1>8 DEF Stacked
  <1>10. st[2].base <= st[1].base
    <2>1. st[1].base = st[1].stock /\ st[2].base = st[2].stock
      BY <1>2, <1>5 DEF Sits, Lies
    <2>2. st[2].stock \in Nat /\ st[2].len \in Nat /\ st[1].stock \in Nat
      BY <1>6, FrameHas
    <2>3. QED
      BY <1>7, <2>1, <2>2
  <1>11. QED
    BY <1>4, <1>6, <1>7, <1>9, <1>10 DEF z

\* A client's call, all by itself.
LEMMA OneIs ==
  ASSUME NEW g \in Frames, NEW n \in Int, NEW m, NEW room0 \in Int, NEW c,
         Sits(g, room0, c), g.owner \notin Inner, g.dump = NoDump, g.stock + g.len = n,
         g.base >= room0 /\ room0 > 0 => m[room0 - 1] = NUL
  PROVE  Stacked(<<g>>, n, m, room0, c)
  <1> DEFINE z == <<g>>
  <1>1. z \in Seq(Frames) /\ Len(z) = 1 /\ z[1] = g
    OBVIOUS
  <1> HIDE DEF z
  <1>2. g.base <= g.base
    BY FrameHas
  <1>3. ASSUME NEW k \in 1 .. Len(z)
        PROVE  /\ Sits(z[k], room0, c)
               /\ k < Len(z) <=> z[k].owner \in Inner
               /\ z[Len(z)].base <= z[k].base
               /\ z[k].stock + z[k].len = IF k = 1 THEN n ELSE z[k - 1].stock
               /\ k > 1 => z[k].dump = NoDump
               /\ k = 1 => Dumping(z[k])
    <2>1. k = 1
      BY <1>1
    <2>2. QED
      BY <1>1, <1>2, <2>1 DEF Dumping
  <1>4. QED
    BY <1>1, <1>3 DEF Stacked, z

\* The NUL is written behind the text, or over its last character in the buffer.
LEMMA NulIs ==
  ASSUME NEW m \in Mems, NEW s \in Seq(Char), NEW room0 \in Int, Prefix0(m, s, room0),
         NEW n \in Int, NEW at \in Int, n <= 1,
         n = 1 => at >= 0 /\ at < room0 /\ (at >= Len(s) \/ at = room0 - 1)
  PROVE  LET w == Written(m, at, n, <<NUL>>)
         IN  /\ w \in Mems /\ Prefix0(w, s, room0)
             /\ n <= 0 => w = m
             /\ n = 1 /\ at < MemSize => w[at] = NUL
  <1> DEFINE w == Written(m, at, n, <<NUL>>)
  <1>1. DOMAIN m = 0 .. MemSize - 1 /\ \A i \in 0 .. MemSize - 1 : m[i] \in Cells
    BY DEF Mems
  <1>2. MemSize \in Nat
    BY SnprintfAssumption
  <1>3. /\ w = [i \in 0 .. MemSize - 1 |-> IF at <= i /\ i < at + n THEN <<NUL>>[i - at + 1] ELSE m[i]]
        /\ DOMAIN w = 0 .. MemSize - 1
        /\ \A i \in 0 .. MemSize - 1 : w[i] = IF at <= i /\ i < at + n THEN <<NUL>>[i - at + 1] ELSE m[i]
    BY <1>1 DEF Written
  <1> HIDE DEF w
  <1>4. ASSUME NEW i \in 0 .. MemSize - 1
        PROVE  w[i] = IF n = 1 /\ i = at THEN NUL ELSE m[i]
    <2>1. i \in Int
      BY <1>2
    <2>2. CASE n = 1 /\ i = at
      <3>1. at <= i /\ i < at + n /\ i - at + 1 = 1
        BY <2>1, <2>2
      <3>2. <<NUL>>[1] = NUL
        OBVIOUS
      <3>3. QED
        BY <1>3, <2>2, <3>1, <3>2
    <2>3. CASE ~ (n = 1 /\ i = at)
      <3>1. ~ (at <= i /\ i < at + n)
        BY <2>1, <2>3
      <3>2. QED
        BY <1>3, <2>3, <3>1
    <2>4. QED
      BY <2>2, <2>3
  <1>5. w \in Mems
    <2>1. \A i \in 0 .. MemSize - 1 : w[i] \in Cells
      BY <1>1, <1>4 DEF Cells
    <2>2. QED
      BY <1>3, <2>1 DEF Mems
  <1>6. Prefix0(w, s, room0)
    <2> SUFFICES ASSUME NEW i \in 0 .. MemSize - 1
                 PROVE  /\ i >= room0 => w[i] = Untouched
                        /\ i < room0 /\ i < Len(s) => w[i] = s[i + 1] \/ (i = room0 - 1 /\ w[i] = NUL)
      BY DEF Prefix0
    <2>1. i \in Int /\ Len(s) \in Int
      BY <1>2
    <2>2. /\ i >= room0 => m[i] = Untouched
          /\ i < room0 /\ i < Len(s) => m[i] = s[i + 1] \/ (i = room0 - 1 /\ m[i] = NUL)
      BY DEF Prefix0
    <2>3. CASE n = 1 /\ i = at
      <3>1. w[i] = NUL
        BY <1>4, <2>3
      <3>2. i < room0 /\ (i >= Len(s) \/ i = room0 - 1)
        BY <2>3
      <3>3. QED
        BY <2>1, <3>1, <3>2
    <2>4. CASE ~ (n = 1 /\ i = at)
      BY <1>4, <2>2, <2>4
    <2>5. QED
      BY <2>3, <2>4
  <1>7. n <= 0 => w = m
    <2> HAVE n <= 0
    <2>1. n # 1
      OBVIOUS
    <2>2. \A i \in 0 .. MemSize - 1 : w[i] = m[i]
      BY <1>4, <2>1
    <2>3. m = [i \in 0 .. MemSize - 1 |-> m[i]] /\ w = [i \in 0 .. MemSize - 1 |-> w[i]]
      BY <1>5 DEF Mems
    <2>4. QED
      BY <2>2, <2>3
  <1>8. n = 1 /\ at < MemSize => w[at] = NUL
    <2> HAVE n = 1 /\ at < MemSize
    <2>1. at \in 0 .. MemSize - 1
      BY <1>2
    <2>2. QED
      BY <1>4, <2>1
  <1>9. QED
    BY <1>5, <1>6, <1>7, <1>8 DEF w

\* The end of a call: the text in the buffer is a string.
LEMMA EndIs ==
  ASSUME NEW st, NEW m \in Mems, NEW s \in Seq(Char), NEW room0 \in 0 .. MemSize - 1, NEW c,
         Stacked(st, Len(s), m, room0, c), Prefix0(m, s, room0), st # <<>>
  PROVE  LET w == Ended(m, st[1])
         IN  /\ w \in Mems /\ Prefix0(w, s, room0)
             /\ Stacked(st, Len(s), w, room0, c)
             /\ st[1].base >= room0 => w = m
             /\ room0 > 0 /\ Len(st) = 1 => w[Min({Len(s), room0 - 1})] = NUL
  <1> DEFINE f == st[1]
             w == Ended(m, f)
             n == Len(s)
             x == f.max - 1
             y == room0 - 1
             at == f.base + Min({f.len, x})
  <1>1. st \in Seq(Frames) /\ Len(st) \in Nat /\ Len(st) >= 1 /\ f \in Frames /\ 1 \in 1 .. Len(st)
    BY DEF Stacked
  <1>2. Lies(f, room0) /\ f.stock + f.len = n
    BY <1>1 DEF Stacked, Sits
  <1>3. f.base \in Nat /\ f.max \in Int /\ f.len \in Nat /\ f.stock \in Nat /\ n \in Nat /\ room0 \in Int /\ MemSize \in Nat
    BY <1>1, FrameHas, SnprintfAssumption
  <1>4. f.base + f.len = n /\ f.base + f.max = room0 /\ room0 < MemSize /\ room0 >= 0
    BY <1>2, <1>3 DEF Lies
  <1> HIDE DEF f, n
  <1>5. /\ x \in Int /\ y \in Int
        /\ Min({f.len, x}) = IF f.len <= x THEN f.len ELSE x
        /\ Min({n, y}) = IF n <= y THEN n ELSE y
    <2>1. x \in Int /\ y \in Int
      BY <1>3
    <2> HIDE DEF x, y
    <2>2. QED
      BY <1>3, <2>1, SmallerIs
  <1>6. at = Min({n, y}) /\ at = (IF n <= y THEN n ELSE y)
    <2> DEFINE p == Min({f.len, x})
               q == Min({n, y})
    <2>1. p = (IF f.len <= x THEN f.len ELSE x) /\ q = (IF n <= y THEN n ELSE y)
      BY <1>5
    <2>2. at = f.base + p
      OBVIOUS
    <2> HIDE DEF p, q, at
    <2>3. at = q
      BY <1>3, <1>4, <2>1, <2>2
    <2>4. QED
      BY <2>1, <2>3 DEF q
  <1>7. CASE f.max > 0
    <2>1. at \in Int /\ at >= 0 /\ at < room0 /\ (at >= n \/ at = room0 - 1) /\ at < MemSize
      <3> HIDE DEF at
      <3>1. QED
        BY <1>3, <1>4, <1>6, <1>7
    <2>2. w = Written(m, at, 1, <<NUL>>)
      BY <1>7 DEF Ended
    <2> DEFINE one == 1
    <2>3. one \in Int /\ one <= 1 /\ one = 1
      OBVIOUS
    <2> HIDE DEF at, one
    <2>4. w \in Mems /\ Prefix0(w, s, room0) /\ w[at] = NUL
      <3>1. LET v == Written(m, at, one, <<NUL>>)
            IN  v \in Mems /\ Prefix0(v, s, room0) /\ (one = 1 /\ at < MemSize => v[at] = NUL)
        BY <1>3, <2>1, <2>3, NulIs DEF n
      <3>2. w = Written(m, at, one, <<NUL>>)
        BY <2>2, <2>3
      <3> HIDE DEF w
      <3>3. QED
        BY <2>1, <2>3, <3>1, <3>2
    <2>5. ~ (f.base >= room0)
      BY <1>3, <1>4, <1>7
    <2>6. w[Min({n, y})] = NUL
      BY <1>6, <2>4
    <2> HIDE DEF w
    <2>7. st[Len(st)].base >= room0 /\ room0 > 0 => w[room0 - 1] = NUL
      <3>1. st[Len(st)].base <= f.base /\ st[Len(st)].base \in Nat
        <4>1. st[Len(st)] \in Frames
          BY <1>1
        <4>2. QED
          BY <1>1, <4>1, FrameHas DEF Stacked, f
      <3>2. QED
        BY <1>3, <2>5, <3>1
    <2>8. Stacked(st, n, w, room0, c)
      BY <2>7 DEF Stacked, n
    <2>9. QED
      BY <2>4, <2>5, <2>6, <2>8 DEF f, n, w
  <1>8. CASE ~ (f.max > 0)
    <2>1. w = m
      BY <1>8 DEF Ended
    <2>2. room0 > 0 /\ Len(st) = 1 => m[Min({n, y})] = NUL
      <3> HAVE room0 > 0 /\ Len(st) = 1
      <3>1. f.base >= room0 /\ n >= room0
        BY <1>3, <1>4, <1>8
      <3>2. Min({n, y}) = room0 - 1
        BY <1>3, <1>5, <3>1
      <3>3. st[Len(st)].base >= room0
        BY <3>1 DEF f
      <3>4. m[room0 - 1] = NUL
        BY <3>3 DEF Stacked
      <3>5. QED
        BY <3>2, <3>4
    <2> HIDE DEF w
    <2>3. QED
      BY <2>1, <2>2 DEF f, n, w
  <1>9. QED
    BY <1>7, <1>8

--------------------------------------------------------------------------------
(***************************************************************************)
(* The inductive invariant, as a relation of values: memory, room, what    *)
(* the callback was told, the calls under way, the client's call, its      *)
(* answer and the faults.                                                  *)
(***************************************************************************)
Sound(m, r, s, st, c, fl) ==
  /\ c \in Calls /\ m \in Mems /\ r \in 0 .. MemSize - 1 /\ s \in Seq(Char) /\ fl \in SUBSET Faults
  /\ Prefix0(m, s, r)
  /\ Stacked(st, Len(s), m, r, c)
  /\ "misplaced" \notin fl
  /\ st # <<>> \/ Plain(c) => "str_l2" \notin fl

Answered(m, r, s, a, fl) ==
  /\ a \in Int
  /\ r > 0 => m[Min({Len(s), r - 1})] = NUL
  /\ a \in {-1, Len(s)} \/ "str_l2" \in fl

Good(m, r, s, st, c, a, fl) ==
  /\ Sound(m, r, s, st, c, fl)
  /\ st # <<>> => a = Pending
  /\ st = <<>> => Answered(m, r, s, a, fl)

IInv == Good(mem, room, stream, stack, call, ret, faults)

\* The state as the innermost call sees it.
LEMMA TopHolds ==
  ASSUME NEW m, NEW r, NEW s, NEW st, NEW c, NEW fl, Sound(m, r, s, st, c, fl), st # <<>>
  PROVE  LET x == [mem |-> m, stream |-> s, faults |-> fl, f |-> st[1]]
         IN  /\ Holds(x, r) /\ x.f = st[1] /\ x.mem = m /\ x.stream = s /\ x.faults = fl
             /\ Holds(Placed(x), r) /\ Placed(x) = x
             /\ st[1] \in Frames /\ Dumping(st[1]) /\ r \in Int
  <1> DEFINE f == st[1]
             x == [mem |-> m, stream |-> s, faults |-> fl, f |-> f]
  <1>1. st \in Seq(Frames) /\ f \in Frames /\ 1 \in 1 .. Len(st) /\ Len(st) \in Nat
    BY DEF Sound, Stacked
  <1>2. Lies(f, r) /\ f.stock + f.len = Len(s) /\ Dumping(f)
    BY <1>1 DEF Sound, Stacked, Sits
  <1> HIDE DEF f
  <1>3. x \in States /\ x.f = f /\ x.mem = m /\ x.stream = s /\ x.faults = fl
    BY <1>1 DEF States, Sound
  <1>4. Holds(x, r)
    BY <1>2, <1>3 DEF Holds, Sound
  <1>5. Placed(x) = x
    <2>1. f.outpos = f.len
      BY <1>2 DEF Lies
    <2>2. [f EXCEPT !.outpos = f.len] = f
      BY <1>1, <2>1 DEF Frames
    <2>3. Placed(x) = [x EXCEPT !.f = [f EXCEPT !.outpos = f.len]]
      BY <1>3 DEF Placed
    <2> HIDE DEF x
    <2>4. QED
      BY <1>3, <2>2, <2>3 DEF States
  <1>6. r \in Int
    BY SnprintfAssumption DEF Sound
  <1>7. QED
    BY <1>1, <1>2, <1>3, <1>4, <1>5, <1>6 DEF f

Beside(g, f) ==
  /\ g.base = f.base /\ g.max = f.max /\ g.stock = f.stock /\ g.len = f.len /\ g.outpos = f.outpos
  /\ g.owner = f.owner /\ g.rest = f.rest

Seen(m, s, fl, f) == [mem |-> m, stream |-> s, faults |-> fl, f |-> f]

\* From y, where it has printed, the innermost call can go on as any g.
GoesOn(y, r, st, c, a) ==
  /\ y.f \in Frames
  /\ y.f = [st[1] EXCEPT !.len = y.f.len, !.outpos = y.f.outpos]
  /\ \A g \in Frames : Beside(g, y.f) /\ Dumping(g) =>
       /\ Good(y.mem, r, y.stream, <<g>> \o Tail(st), c, a, y.faults)
       /\ Good(y.mem, r, y.stream, <<g>> \o Tail(st), c, a, y.faults \cup {"adcol_width"})

\* The innermost call prints.
LEMMA PrintIs ==
  ASSUME NEW m, NEW r, NEW s, NEW st, NEW c, NEW a, NEW fl, Good(m, r, s, st, c, a, fl), st # <<>>,
         NEW pieces \in Seq(Seq(Char))
  PROVE  GoesOn(EmitAll(Seen(m, s, fl, st[1]), pieces), r, st, c, a)
  <1> DEFINE x == Seen(m, s, fl, st[1])
             y == EmitAll(x, pieces)
             f == st[1]
  <1>1. Sound(m, r, s, st, c, fl) /\ a = Pending
    BY DEF Good
  <1>2. Holds(x, r) /\ x.f = f /\ x.mem = m /\ x.stream = s /\ x.faults = fl /\ f \in Frames /\ r \in Int
    BY <1>1, TopHolds DEF Seen
  <1> HIDE DEF x
  <1>3. Holds(y, r) /\ Grown(x, y, r)
    BY <1>2, EmitAllIs
  <1> HIDE DEF y, f
  <1>4. y.f \in Frames /\ y.mem \in Mems /\ y.stream \in Seq(Char) /\ y.faults \in SUBSET Faults
    BY <1>3 DEF Holds, States
  <1>5. y.f = [f EXCEPT !.len = y.f.len, !.outpos = y.f.outpos] /\ (f.base >= r => y.mem = m)
          /\ ("misplaced" \in y.faults => "misplaced" \in fl) /\ ("str_l2" \in y.faults => "str_l2" \in fl)
    BY <1>2, <1>3 DEF Grown
  <1>6. y.f.base = f.base /\ y.f.max = f.max /\ y.f.stock = f.stock /\ y.f.owner = f.owner /\ y.f.rest = f.rest
    BY <1>2, <1>5 DEF Frames
  <1>7. y.f.stock + y.f.len = Len(y.stream) /\ y.f.outpos = y.f.len /\ Prefix0(y.mem, y.stream, r)
    BY <1>3 DEF Holds, Lies
  <1>8. ASSUME NEW g \in Frames, Beside(g, y.f), Dumping(g), NEW fl1 \in SUBSET Faults,
               "misplaced" \in fl1 => "misplaced" \in fl, "str_l2" \in fl1 => "str_l2" \in fl
        PROVE  Good(y.mem, r, y.stream, <<g>> \o Tail(st), c, a, fl1)
    <2> DEFINE z == <<g>> \o Tail(st)
               n == Len(s)
               n1 == Len(y.stream)
               m1 == y.mem
    <2>1. n \in Int /\ n1 \in Int
      BY <1>1, <1>4 DEF Sound
    <2>2. Stacked(st, n, m, r, c)
      BY <1>1 DEF Sound
    <2>3. /\ g.base = f.base /\ g.max = f.max /\ g.stock = f.stock /\ g.outpos = g.len /\ g.owner = f.owner
          /\ g.rest = f.rest /\ g.stock + g.len = n1 /\ (f.base >= r => m1 = m)
      BY <1>5, <1>6, <1>7, <1>8 DEF Beside
    <2> HIDE DEF n, n1, m1
    <2>4. Stacked(z, n1, m1, r, c) /\ z[1] = g /\ Len(z) = Len(st)
      BY <1>2, <1>8, <2>1, <2>2, <2>3, TopIs DEF f
    <2>5. z # <<>>
      BY <2>4 DEF Stacked
    <2> HIDE DEF z
    <2>6. Sound(m1, r, y.stream, z, c, fl1)
      BY <1>1, <1>4, <1>7, <1>8, <2>4 DEF Sound, n1, m1
    <2>7. QED
      BY <1>1, <2>5, <2>6 DEF Good, z, m1
  <1>9. y.faults \cup {"adcol_width"} \in SUBSET Faults
    BY <1>4 DEF Faults
  <1>10. QED
    <2>1. \A g \in Frames : Beside(g, y.f) /\ Dumping(g) =>
           /\ Good(y.mem, r, y.stream, <<g>> \o Tail(st), c, a, y.faults)
           /\ Good(y.mem, r, y.stream, <<g>> \o Tail(st), c, a, y.faults \cup {"adcol_width"})
      <3>1. \A g \in Frames : Beside(g, y.f) /\ Dumping(g) =>
              Good(y.mem, r, y.stream, <<g>> \o Tail(st), c, a, y.faults)
        BY <1>4, <1>5, <1>8
      <3>2. \A g \in Frames : Beside(g, y.f) /\ Dumping(g) =>
              Good(y.mem, r, y.stream, <<g>> \o Tail(st), c, a, y.faults \cup {"adcol_width"})
        BY <1>5, <1>8, <1>9
      <3>3. QED
        BY <3>1, <3>2
    <2>2. GoesOn(y, r, st, c, a)
      BY <1>4, <1>5, <2>1 DEF GoesOn, f
    <2>3. QED
      BY <2>2 DEF y, x

\* The state and its first call.
LEMMA TopOf ==
  ASSUME IInv, stack # <<>>
  PROVE  /\ Head(stack) = stack[1] /\ stack[1] \in Frames /\ Dumping(stack[1])
         /\ State = Seen(mem, stream, faults, stack[1]) /\ Placed(State) = State
         /\ ret = Pending /\ stack \in Seq(Frames)
  <1>1. Sound(mem, room, stream, stack, call, faults) /\ ret = Pending
    BY DEF IInv, Good
  <1>2. Head(stack) = stack[1] /\ stack \in Seq(Frames)
    BY <1>1 DEF Sound, Stacked
  <1>3. State = Seen(mem, stream, faults, stack[1])
    BY <1>2 DEF State, Seen
  <1>4. Placed(State) = State /\ stack[1] \in Frames /\ Dumping(stack[1])
    BY <1>1, <1>3, TopHolds DEF Seen
  <1>5. QED
    BY <1>1, <1>2, <1>3, <1>4

\* What an item is that is about to be read.
LEMMA ReadsIs ==
  ASSUME IInv, NEW kind, Reads(kind)
  PROVE  /\ stack # <<>> /\ Item \in Used /\ Item.kind = kind
         /\ stack[1].fmt # <<>> /\ stack[1].dump = NoDump
  <1>1. stack # <<>> /\ Head(stack).fmt # <<>> /\ Head(stack).dump = NoDump /\ Item.kind = kind
    BY DEF Reads
  <1>2. Head(stack) = stack[1] /\ stack[1] \in Frames
    BY <1>1, TopOf
  <1>3. stack[1].fmt \in Seq(Used)
    BY <1>2, FrameHas DEF Fmts
  <1>4. Item \in Used
    BY <1>1, <1>2, <1>3 DEF Item
  <1>5. QED
    BY <1>1, <1>2, <1>4

\* Any conversion that prints its pieces and nothing else.
LEMMA PrintsIs ==
  ASSUME IInv, NEW kind, Reads(kind), NEW pieces \in Seq(Seq(Char)),
         Prints(State, pieces) \/ Prints(Placed(State), pieces), UNCHANGED <<room, call, ret>>
  PROVE  IInv'
  <1> DEFINE y == EmitAll(State, pieces)
             g == Next1(y.f)
             z == <<g>> \o Tail(stack)
  <1>1. stack # <<>> /\ stack[1].fmt # <<>> /\ stack[1].dump = NoDump
    BY ReadsIs
  <1>2. /\ State = Seen(mem, stream, faults, stack[1]) /\ Placed(State) = State /\ stack[1] \in Frames
    BY <1>1, TopOf
  <1>3. Prints(State, pieces)
    BY <1>2
  <1>4. mem' = y.mem /\ stream' = y.stream /\ faults' = y.faults /\ stack' = z
    <2> DEFINE u == [y EXCEPT !.f = Next1(@)]
    <2>1. Becomes(u, Tail(stack))
      BY <1>3, Zenon DEF Prints
    <2>2. y \in States
      <3>1. Holds(State, room) /\ room \in Int
        BY <1>1, <1>2, TopHolds DEF IInv, Good, Seen
      <3>2. Holds(y, room)
        BY <3>1, EmitAllIs
      <3>3. QED
        BY <3>2 DEF Holds
    <2> HIDE DEF y
    <2>3. u.mem = y.mem /\ u.stream = y.stream /\ u.faults = y.faults /\ u.f = Next1(y.f)
      BY <2>2 DEF States
    <2> HIDE DEF u
    <2>4. QED
      BY <2>1, <2>3 DEF Becomes
  <1>5. /\ y.f \in Frames /\ y.f = [stack[1] EXCEPT !.len = y.f.len, !.outpos = y.f.outpos]
        /\ \A h \in Frames : Beside(h, y.f) /\ Dumping(h) =>
             Good(y.mem, room, y.stream, <<h>> \o Tail(stack), call, ret, y.faults)
    <2>1. Good(mem, room, stream, stack, call, ret, faults)
      BY DEF IInv
    <2>2. GoesOn(y, room, stack, call, ret)
      BY <1>1, <1>2, <2>1, PrintIs
    <2> HIDE DEF y
    <2>3. QED
      BY <2>2 DEF GoesOn
  <1> HIDE DEF y
  <1>6. y.f.fmt = stack[1].fmt /\ y.f.dump = NoDump
    BY <1>1, <1>2, <1>5 DEF Frames
  <1>7. g \in Frames /\ g = [y.f EXCEPT !.fmt = Tail(y.f.fmt)]
    BY <1>1, <1>5, <1>6, NextIs
  <1> HIDE DEF g
  <1>8. Beside(g, y.f) /\ Dumping(g)
    BY <1>5, <1>6, <1>7 DEF Beside, Dumping, Frames
  <1>9. Good(y.mem, room, y.stream, z, call, ret, y.faults)
    BY <1>5, <1>7, <1>8
  <1> HIDE DEF z
  <1>10. QED
    BY <1>4, <1>9 DEF IInv

--------------------------------------------------------------------------------
(***************************************************************************)
(* The steps.                                                              *)
(***************************************************************************)
LEMMA LiteralIs ==
  ASSUME IInv, Literal
  PROVE  IInv'
  <1>1. Reads("lit") /\ Prints(State, <<Item.text>>) /\ UNCHANGED <<room, call, ret>>
    BY DEF Literal
  <1>2. Item.text \in Seq(Char)
    BY <1>1, ReadsIs, KindIs
  <1>3. <<Item.text>> \in Seq(Seq(Char))
    BY <1>2
  <1>4. QED
    BY <1>1, <1>3, PrintsIs

LEMMA TextIs ==
  ASSUME IInv, Text
  PROVE  IInv'
  <1>1. Reads("str") /\ Prints(Placed(State), TextPieces(Item)) /\ UNCHANGED <<room, call, ret>>
    BY DEF Text
  <1>2. Item \in StrItems
    BY <1>1, ReadsIs, KindIs
  <1>3. TextPieces(Item) \in Seq(Seq(Char))
    BY <1>2, TextPiecesText
  <1>4. QED
    BY <1>1, <1>3, PrintsIs

LEMMA NumericIs ==
  ASSUME IInv, Numeric
  PROVE  IInv'
  <1>1. Reads("num") /\ Prints(Placed(State), NumberPieces(Head(stack).cfg, Item)) /\ UNCHANGED <<room, call, ret>>
    BY DEF Numeric
  <1>2. Item \in IntItems \cup FloatItems /\ stack # <<>>
    BY <1>1, ReadsIs, KindIs
  <1>3. Head(stack).cfg \in Cfgs
    BY <1>2, TopOf, FrameHas DEF DumpCfgs
  <1>4. NumberPieces(Head(stack).cfg, Item) \in Seq(Seq(Char))
    BY <1>2, <1>3, NumberPiecesText
  <1>5. QED
    BY <1>1, <1>4, PrintsIs

LEMMA RepeatIs ==
  ASSUME IInv, Repeat
  PROVE  IInv'
  <1> DEFINE n == IF Item.width < 0 THEN 0 ELSE Item.width
             pieces == [i \in 1 .. n |-> Item.text]
  <1>1. Reads("n") /\ Prints(Placed(State), [i \in 1 .. Item.width |-> Item.text]) /\ UNCHANGED <<room, call, ret>>
    BY DEF Repeat
  <1>2. Item.text \in Seq(Char) /\ Item.width \in Int
    BY <1>1, ReadsIs, KindIs
  <1>3. n \in Nat /\ 1 .. n = 1 .. Item.width
    BY <1>2
  <1>4. pieces = [i \in 1 .. Item.width |-> Item.text]
    BY <1>3, Zenon
  <1> HIDE DEF n
  <1>5. pieces \in Seq(Seq(Char))
    BY <1>2, <1>3
  <1> HIDE DEF pieces
  <1>6. Prints(Placed(State), pieces)
    BY <1>1, <1>4
  <1>7. QED
    BY <1>1, <1>5, <1>6, PrintsIs

\* A setting prints nothing.
LEMMA SettingIs ==
  ASSUME IInv, Setting
  PROVE  IInv'
  <1> DEFINE f == stack[1]
             cfg == Set(f.cfg, Item)
             g == [Next1(f) EXCEPT !.cfg = cfg]
             y == EmitAll(Seen(mem, stream, faults, f), <<>>)
             allowed == Item.conv = "v" => AddressAllowed(Item)
             fl == IF allowed THEN faults ELSE faults \cup {"adcol_width"}
  <1>1. Reads("set")
    BY DEF Setting
  <1>2. stack # <<>> /\ Item \in SetItems /\ f.fmt # <<>> /\ f.dump = NoDump
    BY <1>1, ReadsIs, KindIs
  <1>3. Head(stack) = f /\ f \in Frames /\ State = Seen(mem, stream, faults, f) /\ Placed(State) = State
    BY <1>2, TopOf
  <1>4. cfg \in DumpCfgs
    BY <1>2, <1>3, SetIs, FrameHas
  <1>5. Next1(f) \in Frames /\ Next1(f) = [f EXCEPT !.fmt = Tail(f.fmt)]
    BY <1>2, <1>3, NextIs
  <1>6. /\ mem' = mem /\ stream' = stream /\ faults' = fl /\ stack' = <<g>> \o Tail(stack)
        /\ UNCHANGED <<room, call, ret>>
    <2> DEFINE h == [Next1(State.f) EXCEPT !.cfg = Set(State.f.cfg, Item)]
               u == [State EXCEPT !.f = h,
                                  !.faults = IF allowed THEN @ ELSE @ \cup {"adcol_width"}]
    <2>1. Becomes(u, Tail(stack)) /\ UNCHANGED <<room, call, ret>>
      BY <1>3, Zenon DEF Setting
    <2>2. State = [mem |-> mem, stream |-> stream, faults |-> faults, f |-> f]
      BY <1>3 DEF Seen
    <2>3. State.f = f
      BY <2>2
    <2>4. h = g
      BY <2>3, Zenon
    <2> HIDE DEF h, g, allowed
    <2>5. u.mem = mem /\ u.stream = stream /\ u.faults = fl /\ u.f = h
      BY <2>2
    <2> HIDE DEF u
    <2>6. QED
      BY <2>1, <2>4, <2>5 DEF Becomes
  <1> HIDE DEF cfg, allowed
  <1>7. g \in Frames /\ Beside(g, f) /\ Dumping(g)
    BY <1>2, <1>3, <1>4, <1>5 DEF Frames, Beside, Dumping
  <1>8. GoesOn(y, room, stack, call, ret)
    <2>1. <<>> \in Seq(Seq(Char))
      BY EmptySeq
    <2>2. QED
      BY <1>2, <2>1, PrintIs DEF IInv
  <1>9. y = Seen(mem, stream, faults, f)
    <2> DEFINE x == Seen(mem, stream, faults, f)
    <2>1. PICK e : Emits(e, 0, x, <<>>)
      BY EmitsExist
    <2>2. \E h : Emits(h, Len(<<>>), x, <<>>)
      BY <2>1
    <2> DEFINE h0 == CHOOSE h1 : Emits(h1, Len(<<>>), x, <<>>)
    <2>3. Emits(h0, Len(<<>>), x, <<>>)
      BY <2>2, Zenon
    <2>4. y = h0[Len(<<>>)]
      BY Zenon DEF EmitAll, Emits
    <2> HIDE DEF h0
    <2>5. Len(<<>>) = 0 /\ 0 \in 0 .. 0
      OBVIOUS
    <2>6. h0 = [i \in 0 .. 0 |-> IF i = 0 THEN x ELSE Emit(h0[i - 1], <<>>[i])]
      BY <2>3, <2>5, Zenon DEF Emits
    <2>7. h0[0] = x
      BY <2>5, <2>6, Zenon
    <2>8. QED
      BY <2>4, <2>5, <2>7, Zenon
  <1> HIDE DEF y, g
  <1>10. y.f = f /\ y.mem = mem /\ y.stream = stream /\ y.faults = faults
    BY <1>9 DEF Seen
  <1>11. Good(mem, room, stream, <<g>> \o Tail(stack), call, ret, fl)
    BY <1>7, <1>8, <1>10 DEF GoesOn
  <1>12. QED
    BY <1>6, <1>11 DEF IInv

\* The innermost call goes on as g, and has put a NUL into the memory at most.
LEMMA MarkIs ==
  ASSUME NEW m, NEW r, NEW s, NEW st, NEW c, NEW a, NEW fl, Good(m, r, s, st, c, a, fl), st # <<>>,
         NEW m1 \in Mems, Prefix0(m1, s, r), st[1].base >= r => m1 = m,
         NEW g \in Frames, Beside(g, st[1]), Dumping(g)
  PROVE  /\ Good(m1, r, s, <<g>> \o Tail(st), c, a, fl)
         /\ (<<g>> \o Tail(st))[1] = g /\ <<g>> \o Tail(st) # <<>>
  <1> DEFINE f == st[1]
             z == <<g>> \o Tail(st)
             n == Len(s)
  <1>1. Sound(m, r, s, st, c, fl) /\ a = Pending
    BY DEF Good
  <1>2. f \in Frames /\ Lies(f, r) /\ f.stock + f.len = n /\ r \in Int
    <2>1. LET x == Seen(m, s, fl, f) IN Holds(x, r) /\ x.f = f /\ x.stream = s /\ f \in Frames /\ r \in Int
      BY <1>1, TopHolds DEF Seen
    <2>2. QED
      BY <2>1 DEF Holds
  <1>3. /\ g.base = f.base /\ g.max = f.max /\ g.stock = f.stock /\ g.outpos = g.len /\ g.owner = f.owner
        /\ g.rest = f.rest /\ g.stock + g.len = n /\ (f.base >= r => m1 = m)
    BY <1>2 DEF Beside, Lies
  <1>4. Stacked(st, n, m, r, c) /\ n \in Int
    BY <1>1 DEF Sound
  <1> HIDE DEF n
  <1>5. Stacked(z, n, m1, r, c) /\ z[1] = g /\ Len(z) = Len(st)
    BY <1>2, <1>3, <1>4, TopIs
  <1>6. z # <<>>
    BY <1>5 DEF Stacked
  <1> HIDE DEF z
  <1>7. Sound(m1, r, s, z, c, fl)
    BY <1>1, <1>5 DEF Sound, n
  <1>8. QED
    BY <1>1, <1>5, <1>6, <1>7 DEF Good, z

LEMMA BeginDumpIs ==
  ASSUME IInv, BeginDump
  PROVE  IInv'
  <1> DEFINE f == stack[1]
             s == State
             d == DumpOf(f.cfg, Item)
             pieces == RulerPieces(f.cfg, d)
             y == EmitAll(s, pieces)
  <1>1. Reads("m") /\ UNCHANGED <<room, call, ret>>
    BY DEF BeginDump
  <1>2. stack # <<>> /\ Item \in DumpItems /\ f.fmt # <<>> /\ f.dump = NoDump
    BY <1>1, ReadsIs, KindIs
  <1>3. f \in Frames /\ State = Seen(mem, stream, faults, f) /\ Placed(State) = State
    BY <1>2, TopOf
  <1>4. Good(mem, room, stream, stack, call, ret, faults)
    BY DEF IInv
  <1>5. /\ s.mem = mem /\ s.stream = stream /\ s.faults = faults /\ s.f = f
        /\ s = [mem |-> mem, stream |-> stream, faults |-> faults, f |-> f]
    BY <1>3 DEF Seen
  <1>6. CASE Item.n <= 0
    <2> DEFINE at == f.base + f.len
               n == Fits(f, 1)
               w == Written(mem, at, n, <<NUL>>)
               done == [s EXCEPT !.mem = Written(@, at, n, <<NUL>>)]
               g == AfterDump(f)
               u == [done EXCEPT !.f = AfterDump(@)]
               x == f.max - f.len
    <2>1. Becomes(u, Tail(stack))
      <3>1. LET t == Placed(State)
                at0 == t.f.base + t.f.len
                done0 == [t EXCEPT !.mem = Written(@, at0, Fits(t.f, 1), <<NUL>>)]
            IN Becomes([done0 EXCEPT !.f = AfterDump(@)], Tail(stack))
        BY <1>6, Zenon DEF BeginDump
      <3>2. QED
        BY <1>3, <1>5, <3>1, Zenon
    <2>2. u.mem = w /\ u.stream = stream /\ u.faults = faults /\ u.f = g
      <3>1. done = [s EXCEPT !.mem = w]
        BY <1>5, Zenon
      <3> HIDE DEF w, at, n
      <3>2. done.mem = w /\ done.stream = stream /\ done.faults = faults /\ done.f = f
              /\ done = [mem |-> w, stream |-> stream, faults |-> faults, f |-> f]
        BY <1>5, <3>1
      <3>3. u = [done EXCEPT !.f = g]
        BY <3>2, Zenon
      <3> HIDE DEF g, done, u
      <3>4. QED
        BY <3>2, <3>3
    <2>3. /\ g \in Frames /\ g.dump = NoDump /\ Beside(g, f)
      BY <1>2, <1>3, AfterDumpIs DEF Beside
    <2>4. Dumping(g)
      BY <2>3 DEF Dumping
    <2>5. /\ mem \in Mems /\ stream \in Seq(Char) /\ Prefix0(mem, stream, room) /\ room \in Int
          /\ Lies(f, room) /\ f.stock + f.len = Len(stream)
      <3>1. Sound(mem, room, stream, stack, call, faults)
        BY <1>4 DEF Good
      <3>2. Holds(s, room) /\ room \in Int
        BY <1>2, <1>5, <3>1, TopHolds
      <3>3. QED
        BY <1>5, <3>1, <3>2 DEF Holds, Sound
    <2>6. f.base \in Nat /\ f.max \in Int /\ f.len \in Nat /\ f.stock \in Nat /\ Len(stream) \in Nat
      BY <1>3, <2>5, FrameHas
    <2> HIDE DEF f
    <2>7. at \in Int /\ at = Len(stream) /\ x \in Int /\ x = room - Len(stream)
      BY <2>5, <2>6 DEF Lies
    <2>8. n \in Int /\ n = IF 1 <= x THEN 1 ELSE x
      <3>1. n = Min({1, x})
        BY DEF Fits
      <3> DEFINE one == 1
      <3>2. one \in Int /\ n = Min({one, x})
        BY <3>1
      <3> HIDE DEF one, n, x
      <3>3. n = IF one <= x THEN one ELSE x
        BY <2>7, <3>2, SmallerIs
      <3>4. QED
        BY <2>7, <3>2, <3>3 DEF one
    <2> HIDE DEF at, n, x
    <2>9. n <= 1 /\ (n = 1 => at >= 0 /\ at < room /\ (at >= Len(stream) \/ at = room - 1))
      BY <2>5, <2>6, <2>7, <2>8
    <2>10. w \in Mems /\ Prefix0(w, stream, room) /\ (n <= 0 => w = mem)
      BY <2>5, <2>7, <2>8, <2>9, NulIs
    <2>11. f.base >= room => w = mem
      <3>1. f.base >= room => n <= 0
        BY <2>5, <2>6, <2>7, <2>8 DEF Lies
      <3>2. QED
        BY <2>10, <3>1
    <2> HIDE DEF w, g
    <2>12. Good(w, room, stream, <<g>> \o Tail(stack), call, ret, faults)
      BY <1>2, <1>4, <2>3, <2>4, <2>10, <2>11, MarkIs DEF f
    <2> HIDE DEF u
    <2>13. mem' = w /\ stream' = stream /\ faults' = faults /\ stack' = <<g>> \o Tail(stack)
      BY <2>1, <2>2 DEF Becomes
    <2>14. QED
      BY <1>1, <2>12, <2>13 DEF IInv
  <1>7. CASE ~ (Item.n <= 0)
    <2> DEFINE g == [y.f EXCEPT !.dump = d]
               fl == IF d.col.ok THEN y.faults ELSE y.faults \cup {"adcol_width"}
               u == [y EXCEPT !.f.dump = d, !.faults = IF d.col.ok THEN @ ELSE @ \cup {"adcol_width"}]
    <2>1. Becomes(u, Tail(stack))
      <3>1. LET t == Placed(State)
                d0 == DumpOf(t.f.cfg, Item)
                done0 == EmitAll(t, RulerPieces(t.f.cfg, d0))
            IN Becomes([done0 EXCEPT !.f.dump = d0,
                                     !.faults = IF d0.col.ok THEN @ ELSE @ \cup {"adcol_width"}],
                       Tail(stack))
        BY <1>7, Zenon DEF BeginDump
      <3>2. QED
        BY <1>3, <1>5, <3>1, Zenon
    <2>2. Item.n > 0 /\ f.cfg \in DumpCfgs
      BY <1>2, <1>3, <1>7, FrameHas DEF DumpItems
    <2>3. d \in Dumps /\ d.consumed < d.n
      BY <1>2, <2>2, DumpOfIs
    <2>4. pieces \in Seq(Seq(Char))
      BY <2>2, <2>3, RulerText DEF DumpCfgs
    <2> HIDE DEF d, pieces
    <2>5. GoesOn(y, room, stack, call, ret) /\ y \in States
      <3>1. Holds(s, room) /\ room \in Int
        BY <1>2, <1>4, <1>5, TopHolds DEF Good
      <3>2. Holds(y, room)
        BY <2>4, <3>1, EmitAllIs
      <3>3. GoesOn(y, room, stack, call, ret)
        BY <1>2, <1>3, <1>4, <2>4, PrintIs
      <3>4. QED
        BY <3>2, <3>3 DEF Holds
    <2> HIDE DEF y
    <2>6. u.mem = y.mem /\ u.stream = y.stream /\ u.faults = fl /\ u.f = g
      BY <2>5 DEF States
    <2>7. y.f \in Frames /\ y.f = [f EXCEPT !.len = y.f.len, !.outpos = y.f.outpos]
      BY <2>5 DEF GoesOn
    <2>8. g \in Frames /\ Beside(g, y.f) /\ g.dump = d /\ g.fmt = f.fmt
      BY <1>3, <2>3, <2>7 DEF Frames, Beside
    <2>9. Dumping(g)
      BY <1>2, <2>3, <2>8 DEF Dumping
    <2> HIDE DEF g, u
    <2>10. Good(y.mem, room, y.stream, <<g>> \o Tail(stack), call, ret, fl)
      BY <2>5, <2>8, <2>9 DEF GoesOn
    <2> HIDE DEF fl
    <2>11. mem' = y.mem /\ stream' = y.stream /\ faults' = fl /\ stack' = <<g>> \o Tail(stack)
      BY <2>1, <2>6 DEF Becomes
    <2>12. QED
      BY <1>1, <2>10, <2>11 DEF IInv
  <1>8. QED
    BY <1>6, <1>7

\* A line of a dump: there are more, of which the next takes bytes or skips fewer columns,
\* or the dump is done.
LEMMA DumpLineIs ==
  ASSUME IInv, DumpLine
  PROVE  /\ IInv'
         /\ stack'[1].dump # NoDump =>
              \/ stack'[1].dump.consumed > stack[1].dump.consumed
              \/ /\ stack'[1].dump.consumed = stack[1].dump.consumed
                 /\ stack'[1].dump.skip < stack[1].dump.skip
         /\ Head(stack') = stack'[1]
  <1> DEFINE f == stack[1]
             d == f.dump
             all == d.consumed + Consumes(d)
             ending == IF all = d.n THEN <<>> ELSE <<Newline>>
             pieces == LinePieces(f.cfg, d) \o ending
             y == EmitAll(State, pieces)
             e == [d EXCEPT !.consumed = all, !.skip = NextSkip(d), !.addr = (@ + d.columns) % AddrEnd]
             goes == [y.f EXCEPT !.dump = e]
             g == IF all = d.n THEN AfterDump(y.f) ELSE goes
             u == [y EXCEPT !.f = IF all = d.n THEN AfterDump(@) ELSE goes]
  <1>1. stack # <<>> /\ Head(stack).dump # NoDump /\ UNCHANGED <<room, call, ret>>
    BY DEF DumpLine
  <1>2. /\ Head(stack) = f /\ f \in Frames /\ State = Seen(mem, stream, faults, f) /\ Dumping(f)
    BY <1>1, TopOf
  <1>3. d \in Dumps /\ d.consumed < d.n /\ f.fmt # <<>> /\ f.cfg \in Cfgs
    BY <1>1, <1>2, FrameHas DEF Dumping, DumpCfgs
  <1>4. Good(mem, room, stream, stack, call, ret, faults)
    BY DEF IInv
  <1>5. Becomes(u, Tail(stack))
    <2>1. LET f0 == Head(stack)
              d0 == f0.dump
              all0 == d0.consumed + Consumes(d0)
              s0 == EmitAll(State, LinePieces(f0.cfg, d0) \o (IF all0 = d0.n THEN <<>> ELSE <<Newline>>))
              goes0 == [s0.f EXCEPT !.dump = [d0 EXCEPT !.consumed = all0, !.skip = NextSkip(d0),
                                                        !.addr = (@ + d0.columns) % AddrEnd]]
          IN Becomes([s0 EXCEPT !.f = IF all0 = d0.n THEN AfterDump(@) ELSE goes0], Tail(stack))
      BY Zenon DEF DumpLine
    <2>2. QED
      BY <1>2, <2>1, Zenon
  <1>6. /\ all # d.n => /\ e \in Dumps /\ e.consumed < e.n
                        /\ \/ e.consumed > d.consumed
                           \/ e.consumed = d.consumed /\ e.skip < d.skip
    BY <1>3, NextLine
  <1> HIDE DEF d, all, e
  <1>7. pieces \in Seq(Seq(Char))
    <2>1. /\ LinePieces(f.cfg, d) \in Seq(Seq(Char))
          /\ LinePieces(f.cfg, d) \o <<Newline>> \in Seq(Seq(Char))
      BY <1>3, LineText
    <2>2. LinePieces(f.cfg, d) \o <<>> = LinePieces(f.cfg, d)
      BY <2>1, ConcatEmptySeq
    <2>3. QED
      BY <2>1, <2>2
  <1> HIDE DEF pieces
  <1>8. GoesOn(y, room, stack, call, ret) /\ y \in States
    <2>1. Holds(State, room) /\ room \in Int
      BY <1>1, <1>2, <1>4, TopHolds DEF Good, Seen
    <2>2. Holds(y, room)
      BY <1>7, <2>1, EmitAllIs
    <2>3. GoesOn(y, room, stack, call, ret)
      BY <1>1, <1>2, <1>4, <1>7, PrintIs
    <2>4. QED
      BY <2>2, <2>3 DEF Holds
  <1> HIDE DEF y
  <1>9. u.mem = y.mem /\ u.stream = y.stream /\ u.faults = y.faults /\ u.f = g
    <2>1. u = [y EXCEPT !.f = g]
      BY Zenon
    <2> HIDE DEF g, u
    <2>2. QED
      BY <1>8, <2>1 DEF States
  <1>10. y.f \in Frames /\ y.f = [f EXCEPT !.len = y.f.len, !.outpos = y.f.outpos]
    BY <1>8 DEF GoesOn
  <1>11. g \in Frames /\ Beside(g, y.f) /\ Dumping(g)
           /\ (g.dump # NoDump => all # d.n /\ g.dump = e)
    <2>1. y.f.fmt = f.fmt
      BY <1>2, <1>10 DEF Frames
    <2>2. CASE all = d.n
      <3>1. g = AfterDump(y.f)
        BY <2>2
      <3> HIDE DEF g
      <3>2. QED
        BY <1>3, <1>10, <2>1, <3>1, AfterDumpIs DEF Beside, Dumping
    <2>3. CASE all # d.n
      <3>1. g = [y.f EXCEPT !.dump = e] /\ e \in Dumps /\ e.consumed < e.n
        BY <1>6, <2>3
      <3> HIDE DEF g, goes
      <3>2. g \in Frames /\ g.dump = e /\ g.fmt = f.fmt /\ Beside(g, y.f)
        BY <1>10, <2>1, <3>1 DEF Frames, Beside
      <3>3. QED
        BY <1>3, <2>3, <3>1, <3>2 DEF Dumping
    <2>4. QED
      BY <2>2, <2>3
  <1> HIDE DEF g, u
  <1> DEFINE z == <<g>> \o Tail(stack)
  <1>12. Good(y.mem, room, y.stream, z, call, ret, y.faults)
    BY <1>8, <1>11 DEF GoesOn
  <1>13. mem' = y.mem /\ stream' = y.stream /\ faults' = y.faults /\ stack' = z
    BY <1>5, <1>9 DEF Becomes
  <1>14. z[1] = g /\ Head(z) = g
    <2>1. Tail(stack) \in Seq(Frames)
      BY <1>1, TopOf
    <2>2. QED
      BY <1>11, <2>1
  <1> HIDE DEF z
  <1>15. stack'[1] = g /\ Head(stack') = g
    BY <1>13, <1>14
  <1>16. IInv'
    BY <1>1, <1>12, <1>13 DEF IInv
  <1>17. QED
    BY <1>6, <1>11, <1>15, <1>16 DEF d

\* One in front of another.
LEMMA Pair ==
  ASSUME NEW S, NEW g \in S, NEW f \in S
  PROVE  <<g>> \o <<f>> = <<g, f>>
  <1> DEFINE x == <<g>>
             y == <<f>>
             p == <<g, f>>
  <1>1. x \in Seq(S) /\ Len(x) = 1 /\ x[1] = g
    OBVIOUS
  <1>2. y \in Seq(S) /\ Len(y) = 1 /\ y[1] = f
    OBVIOUS
  <1>3. p \in Seq(S) /\ Len(p) = 2 /\ p[1] = g /\ p[2] = f
    OBVIOUS
  <1> HIDE DEF x, y, p
  <1>4. x \o y \in Seq(S) /\ Len(x \o y) = 2 /\ \A i \in 1 .. 2 : (x \o y)[i] = IF i <= 1 THEN x[i] ELSE y[i - 1]
    BY <1>1, <1>2, ConcatProperties
  <1>5. \A i \in 1 .. 2 : (x \o y)[i] = p[i]
    BY <1>1, <1>2, <1>3, <1>4
  <1>6. x \o y = p
    BY <1>3, <1>4, <1>5, SeqEqual
  <1>7. QED
    BY <1>6 DEF x, y, p

\* A call that begins where f has got to.
LEMMA BehindIs ==
  ASSUME NEW f \in Frames, NEW r \in Int, Lies(f, r), NEW fmt \in Fmts, NEW owner \in Owners,
         NEW rest \in Seq(Fmts) \cup Seq(Nat)
  PROVE  LET g == Frame(fmt, f.base + f.len, f.max - f.len, f.stock + f.len, owner, rest)
         IN  /\ g \in Frames /\ Lies(g, r) /\ g.len = 0 /\ g.stock = f.stock + f.len
             /\ g.base = f.base + f.len /\ g.dump = NoDump /\ g.owner = owner /\ g.rest = rest
             /\ g.fmt = fmt
  <1> DEFINE base == f.base + f.len
             max == f.max - f.len
             stock == f.stock + f.len
             g == Frame(fmt, base, max, stock, owner, rest)
  <1>1. f.base \in Nat /\ f.max \in Int /\ f.len \in Nat /\ f.stock \in Nat
    BY FrameHas
  <1>2. base \in Nat /\ max \in Int /\ stock \in Nat /\ base = stock /\ base + max = r
    BY <1>1 DEF Lies
  <1> HIDE DEF base, max, stock
  <1>3. /\ g \in Frames
        /\ g.base = base /\ g.max = max /\ g.len = 0 /\ g.stock = stock /\ g.outpos = 0
        /\ g.dump = NoDump /\ g.owner = owner /\ g.rest = rest /\ g.fmt = fmt
    BY <1>2, FrameIs
  <1> HIDE DEF g
  <1>4. Lies(g, r)
    BY <1>2, <1>3 DEF Lies
  <1>5. QED
    BY <1>3, <1>4 DEF g, base, max, stock

\* The innermost call makes another, or goes on behind its item.
LEMMA CallIs ==
  ASSUME NEW m, NEW r, NEW s, NEW st, NEW c, NEW a, NEW fl, Good(m, r, s, st, c, a, fl), st # <<>>,
         NEW m1 \in Mems, Prefix0(m1, s, r), st[1].base >= r => m1 = m,
         st[1].fmt # <<>>, st[1].dump = NoDump,
         NEW fmt \in Fmts, NEW owner \in Inner, NEW rest \in Seq(Fmts)
  PROVE  LET f == Next1(st[1])
             g == Frame(fmt, f.base + f.len, f.max - f.len, f.stock + f.len, owner, rest)
         IN  Good(m1, r, s, <<g, f>> \o Tail(st), c, a, fl)
  <1> DEFINE f == Next1(st[1])
             z == <<f>> \o Tail(st)
             g == Frame(fmt, f.base + f.len, f.max - f.len, f.stock + f.len, owner, rest)
             n == Len(s)
  <1>1. Sound(m, r, s, st, c, fl) /\ a = Pending
    BY DEF Good
  <1>2. st[1] \in Frames /\ r \in Int /\ n \in Int
    <2>1. LET x == [mem |-> m, stream |-> s, faults |-> fl, f |-> st[1]]
          IN  st[1] \in Frames /\ r \in Int
      BY <1>1, TopHolds
    <2>2. s \in Seq(Char)
      BY <1>1 DEF Sound
    <2>3. QED
      BY <2>1, <2>2
  <1>3. f \in Frames /\ f = [st[1] EXCEPT !.fmt = Tail(st[1].fmt)]
    BY <1>2, NextIs
  <1> HIDE DEF f
  <1>4. Beside(f, st[1]) /\ f.dump = NoDump /\ Dumping(f)
    BY <1>2, <1>3 DEF Beside, Dumping, Frames
  <1>5. Good(m1, r, s, z, c, a, fl) /\ z[1] = f /\ z # <<>>
    <2>1. f \in Frames
      BY <1>3
    <2>2. QED
      BY <1>4, <2>1, MarkIs
  <1> HIDE DEF n
  <1>6. Stacked(z, n, m1, r, c) /\ Len(z) \in Nat /\ z \in Seq(Frames)
    BY <1>5 DEF Good, Sound, n, Stacked
  <1>7. Lies(f, r) /\ f.stock + f.len = n
    <2>1. 1 \in 1 .. Len(z)
      BY <1>5, <1>6
    <2> HIDE DEF z
    <2>2. QED
      BY <1>5, <1>6, <2>1 DEF Stacked, Sits
  <1>8. /\ g \in Frames /\ Lies(g, r) /\ g.len = 0 /\ g.stock = n /\ g.dump = NoDump
        /\ g.owner \in Inner /\ g.rest \in Seq(Fmts)
    <2>1. owner \in Owners /\ rest \in Seq(Fmts) \cup Seq(Nat)
      BY DEF Inner, Owners
    <2>2. f \in Frames
      BY <1>3
    <2>3. /\ g \in Frames /\ Lies(g, r) /\ g.len = 0 /\ g.stock = f.stock + f.len /\ g.dump = NoDump
          /\ g.owner = owner /\ g.rest = rest
      BY <1>2, <1>7, <2>1, <2>2, BehindIs
    <2> HIDE DEF g
    <2>4. QED
      BY <1>7, <2>3
  <1> HIDE DEF g
  <1>9. <<g>> \o z = <<g, f>> \o Tail(st)
    <2>1. Tail(st) \in Seq(Frames)
      BY <1>1 DEF Sound, Stacked
    <2> DEFINE t == Tail(st)
    <2> HIDE DEF t
    <2>2. t \in Seq(Frames)
      BY <2>1 DEF t
    <2>6. <<g>> \in Seq(Frames) /\ <<f>> \in Seq(Frames)
      <3>1. f \in Frames /\ g \in Frames
        BY <1>3, <1>8
      <3>2. QED
        BY <3>1
    <2>3. <<g>> \o (<<f>> \o t) = (<<g>> \o <<f>>) \o t
      BY <2>2, <2>6, ConcatAssociative
    <2>4. <<g>> \o <<f>> = <<g, f>>
      BY <1>3, <1>8, Pair
    <2>5. QED
      BY <2>3, <2>4 DEF t
  <1>10. Stacked(<<g>> \o z, n, m1, r, c)
    <2> HIDE DEF z
    <2>1. QED
      BY <1>2, <1>4, <1>5, <1>6, <1>8, PushIs
  <1> DEFINE w == <<g>> \o z
  <1>11. w # <<>>
    <2>1. z \in Seq(Frames)
      BY <1>6
    <2> HIDE DEF z
    <2>2. Len(w) = 1 + Len(z) /\ Len(z) \in Nat
      BY <2>1
    <2> HIDE DEF w
    <2>3. QED
      BY <2>2
  <1> HIDE DEF w
  <1>12. Sound(m1, r, s, w, c, fl)
    BY <1>5, <1>10 DEF Good, Sound, n, w
  <1>13. Good(m1, r, s, w, c, a, fl)
    BY <1>1, <1>11, <1>12 DEF Good
  <1>14. QED
    BY <1>9, <1>13 DEF w, g, f

\* A format with wrong numbers is a format.
LEMMA MisreadIs ==
  ASSUME NEW fmt \in Fmts, NEW g \in Garbage
  PROVE  Misread(fmt, g) \in Fmts
  <1> DEFINE item(i) == IF fmt[i].kind = "num" THEN [fmt[i] EXCEPT !.value = g] ELSE fmt[i]
  <1>1. g \in Nat
    BY SnprintfAssumption
  <1>2. ASSUME NEW i \in 1 .. Len(fmt) PROVE item(i) \in Used
    <2>1. fmt[i] \in Used
      BY DEF Fmts
    <2> DEFINE x == fmt[i]
    <2> HIDE DEF x
    <2>2. CASE x.kind = "num" /\ x \in IntItems
      <3>1. [x EXCEPT !.value = g] \in IntItems
        BY <1>1, <2>2 DEF IntItems
      <3>2. QED
        BY <2>2, <3>1 DEF Used, x
    <2>3. CASE x.kind = "num" /\ x \in FloatItems
      <3>1. [x EXCEPT !.value = g] \in FloatItems
        BY <1>1, <2>3 DEF FloatItems
      <3>2. QED
        BY <2>3, <3>1 DEF Used, x
    <2>4. CASE x.kind # "num"
      BY <2>1, <2>4 DEF x
    <2>5. x.kind = "num" => x \in IntItems \cup FloatItems
      BY <2>1, KindIs DEF x
    <2>6. QED
      BY <2>2, <2>3, <2>4, <2>5
  <1> DEFINE z == [i \in 1 .. Len(fmt) |-> item(i)]
  <1>3. Misread(fmt, g) = z
    <2>1. DOMAIN fmt = 1 .. Len(fmt)
      BY DEF Fmts
    <2>2. QED
      BY <2>1, Zenon DEF Misread
  <1> HIDE DEF item
  <1>4. z \in Seq(Used)
    <2>1. Len(fmt) \in Nat
      BY DEF Fmts
    <2>2. QED
      BY <1>2, <2>1
  <1>5. QED
    BY <1>3, <1>4 DEF Fmts

\* %w runs the formatter again.
LEMMA NestIs ==
  ASSUME IInv, Nest
  PROVE  IInv'
  <1> DEFINE f == Next1(stack[1])
             inner(fmt) == Frame(fmt, f.base + f.len, f.max - f.len, f.stock + f.len, "w", <<>>)
  <1>1. Reads("w") /\ UNCHANGED <<mem, room, stream, call, ret, faults>>
    BY DEF Nest
  <1>2. stack # <<>> /\ Item.fmt \in Fmts /\ stack[1].fmt # <<>> /\ stack[1].dump = NoDump
    BY <1>1, ReadsIs, KindIs
  <1>3. Placed(State).f = stack[1]
    <2>1. Placed(State) = Seen(mem, stream, faults, stack[1])
      BY <1>2, TopOf
    <2>2. QED
      BY <2>1 DEF Seen
  <1>4. \E fmt \in Fmts : stack' = <<inner(fmt), f>> \o Tail(stack)
    <2>1. IF Item.id \in spent
          THEN \E g \in Garbage : stack' = <<inner(Misread(Item.fmt, g)), f>> \o Tail(stack)
          ELSE stack' = <<inner(Item.fmt), f>> \o Tail(stack)
      BY <1>3, Zenon DEF Nest
    <2> HIDE DEF inner, f
    <2>2. CASE Item.id \in spent
      <3>1. PICK g \in Garbage : stack' = <<inner(Misread(Item.fmt, g)), f>> \o Tail(stack)
        BY <2>1, <2>2
      <3>2. Misread(Item.fmt, g) \in Fmts
        BY <1>2, MisreadIs
      <3>3. QED
        BY <3>1, <3>2
    <2>3. CASE Item.id \notin spent
      BY <1>2, <2>1, <2>3
    <2>4. QED
      BY <2>2, <2>3
  <1>5. PICK fmt \in Fmts : stack' = <<inner(fmt), f>> \o Tail(stack)
    BY <1>4
  <1>6. Good(mem, room, stream, stack, call, ret, faults) /\ mem \in Mems /\ Prefix0(mem, stream, room)
    BY DEF IInv, Good, Sound
  <1>7. "w" \in Inner /\ <<>> \in Seq(Fmts)
    BY EmptySeq DEF Inner
  <1> HIDE DEF inner, f
  <1>8. Good(mem, room, stream, <<inner(fmt), f>> \o Tail(stack), call, ret, faults)
    BY <1>2, <1>6, <1>7, CallIs DEF inner, f
  <1>9. QED
    BY <1>1, <1>5, <1>8 DEF IInv

\* %F lets the client print: it finds the text so far a string.
LEMMA InjectIs ==
  ASSUME IInv, Inject
  PROVE  IInv'
  <1> DEFINE top == stack[1]
             f == Next1(top)
             at == IF f.max > f.len THEN f.base + f.len ELSE f.base + f.max - 1
             m1 == IF f.max > 0 THEN Written(mem, at, 1, <<NUL>>) ELSE mem
             fmts == Item.fmts
             g == Frame(Head(fmts), f.base + f.len, f.max - f.len, f.stock + f.len, "F", Tail(fmts))
  <1>1. Reads("F") /\ UNCHANGED <<room, stream, call, ret, faults>>
    BY DEF Inject
  <1>2. stack # <<>> /\ fmts \in Seq(Fmts) /\ top.fmt # <<>> /\ top.dump = NoDump
    BY <1>1, ReadsIs, KindIs
  <1>3. Placed(State).f = top /\ top \in Frames
    <2>1. Placed(State) = Seen(mem, stream, faults, top) /\ top \in Frames
      BY <1>2, TopOf
    <2>2. QED
      BY <2>1 DEF Seen
  <1>4. Good(mem, room, stream, stack, call, ret, faults)
    BY DEF IInv
  <1>5. IF fmts = <<>> THEN stack' = <<f>> \o Tail(stack) /\ mem' = mem
                       ELSE mem' = m1 /\ stack' = <<g, f>> \o Tail(stack)
    BY <1>3, Zenon DEF Inject
  <1>6. f \in Frames /\ f = [top EXCEPT !.fmt = Tail(top.fmt)]
    BY <1>2, <1>3, NextIs
  <1>7. Sound(mem, room, stream, stack, call, faults) /\ mem \in Mems /\ Prefix0(mem, stream, room)
           /\ stream \in Seq(Char)
    BY <1>4 DEF Good, Sound
  <1> HIDE DEF f, g
  <1>8. Beside(f, top) /\ Dumping(f)
    BY <1>2, <1>3, <1>6 DEF Beside, Dumping, Frames
  <1>9. CASE fmts = <<>>
    <2>1. Good(mem, room, stream, <<f>> \o Tail(stack), call, ret, faults)
      BY <1>2, <1>4, <1>6, <1>7, <1>8, MarkIs
    <2>2. QED
      BY <1>1, <1>5, <1>9, <2>1 DEF IInv
  <1>10. CASE fmts # <<>>
    <2>1. /\ Lies(top, room) /\ top.stock + top.len = Len(stream) /\ room \in Int
      <3>1. LET x == Seen(mem, stream, faults, top) IN Holds(x, room) /\ x.f = top /\ x.stream = stream /\ room \in Int
        BY <1>2, <1>7, TopHolds DEF Seen
      <3>2. QED
        BY <3>1 DEF Holds
    <2>2. /\ f.base \in Nat /\ f.max \in Int /\ f.len \in Nat /\ f.stock \in Nat /\ Len(stream) \in Nat
          /\ f.base = f.stock /\ f.base + f.max = room /\ f.stock + f.len = Len(stream) /\ f.base = top.base
      <3>1. f.base \in Nat /\ f.max \in Int /\ f.len \in Nat /\ f.stock \in Nat
        BY <1>6, FrameHas
      <3>2. f.base = top.base /\ f.max = top.max /\ f.len = top.len /\ f.stock = top.stock
        BY <1>8 DEF Beside
      <3>3. top.base = top.stock /\ top.base + top.max = room
        BY <2>1 DEF Lies
      <3>4. Len(stream) \in Nat
        BY <1>7
      <3> HIDE DEF top
      <3>5. QED
        BY <2>1, <3>1, <3>2, <3>3, <3>4
    <2> DEFINE one == 1
               w == Written(mem, at, one, <<NUL>>)
    <2>3. f.max > 0 => at \in Int /\ at >= 0 /\ at < room /\ (at >= Len(stream) \/ at = room - 1)
      <3> DEFINE n == Len(stream)
                 p == f.base + f.len
                 q == f.base + f.max - 1
      <3>1. p = n /\ q = room - 1 /\ p \in Int /\ n \in Nat /\ room \in Int /\ (f.max > 0 => room > 0)
        BY <2>1, <2>2
      <3>2. f.max > f.len => p < room
        BY <2>2
      <3>3. at = IF f.max > f.len THEN p ELSE q
        OBVIOUS
      <3> HIDE DEF n, p, q, at
      <3>4. QED
        BY <3>1, <3>2, <3>3 DEF n
    <2>4. one \in Int /\ one <= 1
      OBVIOUS
    <2> HIDE DEF at
    <2>5. m1 = IF f.max > 0 THEN w ELSE mem
      OBVIOUS
    <2> HIDE DEF one, w, m1
    <2>6. m1 \in Mems /\ Prefix0(m1, stream, room)
      <3>1. CASE f.max > 0
        <4>1. w \in Mems /\ Prefix0(w, stream, room)
          BY <1>7, <2>1, <2>3, <2>4, <3>1, NulIs DEF w
        <4>2. QED
          BY <2>5, <3>1, <4>1
      <3>2. CASE ~ (f.max > 0)
        BY <1>7, <2>5, <3>2
      <3>3. QED
        BY <3>1, <3>2
    <2>7. top.base >= room => m1 = mem
      <3>1. top.base >= room => ~ (f.max > 0)
        BY <2>1, <2>2
      <3>2. QED
        BY <2>5, <3>1
    <2>8. Head(fmts) \in Fmts /\ Tail(fmts) \in Seq(Fmts) /\ "F" \in Inner
      BY <1>2, <1>10 DEF Inner
    <2>9. Good(m1, room, stream, <<g, f>> \o Tail(stack), call, ret, faults)
      BY <1>2, <1>4, <2>6, <2>7, <2>8, CallIs DEF g, f
    <2>10. QED
      BY <1>1, <1>5, <1>10, <2>9 DEF IInv
  <1>11. QED
    BY <1>9, <1>10

\* A call that ends has a string behind it.
LEMMA EndsIs ==
  ASSUME IInv, NEW owners, FormatEnds(owners)
  PROVE  /\ stack # <<>> /\ Head(stack) = stack[1] /\ stack[1].owner \in owners /\ stack[1] \in Frames
         /\ Sits(stack[1], room, call) /\ stack[1].stock + stack[1].len = Len(stream)
         /\ Sound(mem', room, stream, stack, call, faults) /\ ret = Pending
         /\ stack[1].base >= room => mem' = mem
         /\ stack[1].owner \notin Inner /\ room > 0 => mem'[Min({Len(stream), room - 1})] = NUL
  <1> DEFINE f == stack[1]
             w == Ended(mem, f)
  <1>1. stack # <<>> /\ Head(stack).owner \in owners /\ mem' = Ended(mem, Head(stack))
    BY DEF FormatEnds
  <1>2. Sound(mem, room, stream, stack, call, faults)
    BY DEF IInv, Good
  <1>3. Head(stack) = f /\ f \in Frames /\ ret = Pending
    BY <1>1, TopOf
  <1>4. 1 \in 1 .. Len(stack) /\ Len(stack) \in Nat
    BY <1>1, <1>2 DEF Sound, Stacked
  <1>5. Sits(f, room, call) /\ f.stock + f.len = Len(stream) /\ (1 < Len(stack) <=> f.owner \in Inner)
    BY <1>2, <1>4 DEF Sound, Stacked
  <1>6. /\ w \in Mems /\ Prefix0(w, stream, room) /\ Stacked(stack, Len(stream), w, room, call)
        /\ f.base >= room => w = mem
        /\ room > 0 /\ Len(stack) = 1 => w[Min({Len(stream), room - 1})] = NUL
    BY <1>1, <1>2, EndIs DEF Sound
  <1>7. mem' = w
    BY <1>1, <1>3
  <1> HIDE DEF w
  <1>8. Sound(w, room, stream, stack, call, faults)
    BY <1>2, <1>6 DEF Sound
  <1>9. f.owner \notin Inner => Len(stack) = 1
    <2> DEFINE l == Len(stack)
               nested == f.owner \in Inner
    <2>1. l \in Nat /\ 1 \in 1 .. l /\ (1 < l <=> nested)
      BY <1>4, <1>5
    <2> HIDE DEF l, nested
    <2>2. ~nested => l = 1
      BY <2>1
    <2>3. QED
      BY <2>2 DEF l, nested
  <1>10. QED
    BY <1>1, <1>3, <1>5, <1>6, <1>7, <1>8, <1>9

\* What %w or %F made counts for the call it was made in; %F may have more to print.
LEMMA NestedEndsIs ==
  ASSUME IInv, NestedEnds
  PROVE  IInv'
  <1> DEFINE f == stack[1]
             t == Tail(stack)
             e == stack[2]
             g == Counted(e, f.len)
             below == <<g>> \o Tail(t)
             n == Len(stream)
             m1 == mem'
  <1>1. FormatEnds({"w", "F"}) /\ UNCHANGED <<room, stream, call, ret, faults>>
    BY DEF NestedEnds
  <1>2. /\ stack # <<>> /\ Head(stack) = f /\ f.owner \in Inner /\ f \in Frames
        /\ Sits(f, room, call) /\ f.stock + f.len = n
        /\ Sound(m1, room, stream, stack, call, faults) /\ ret = Pending
    BY <1>1, EndsIs DEF Inner
  <1>3. stack' = IF f.owner = "w" \/ f.rest = <<>> THEN below ELSE <<Continued(f)>> \o below
    BY <1>2, Zenon DEF NestedEnds
  <1>4. Stacked(stack, n, m1, room, call) /\ room \in Int /\ n \in Int
    BY <1>2, SnprintfAssumption DEF Sound
  <1> HIDE DEF n, m1
  <1>5. /\ Stacked(t, f.stock, m1, room, call) /\ t # <<>>
        /\ e \in Frames /\ t[1] = e /\ e.dump = NoDump /\ e.stock + e.len = f.stock
    BY <1>2, <1>4, PopIs
  <1>6. f.stock \in Int /\ f.len \in Nat /\ f.stock \in Nat
    BY <1>2, FrameHas
  <1>7. e.len \in Nat /\ e.outpos \in Nat /\ e.stock \in Nat
    BY <1>5, FrameHas
  <1>8. Lies(e, room)
    <2>1. 1 \in 1 .. Len(t)
      BY <1>5 DEF Stacked
    <2> HIDE DEF t
    <2>2. QED
      BY <1>5, <2>1 DEF Stacked, Sits
  <1> HIDE DEF f, t, e
  <1>9. /\ g \in Frames /\ g.base = e.base /\ g.max = e.max /\ g.stock = e.stock /\ g.owner = e.owner
        /\ g.rest = e.rest /\ g.dump = NoDump /\ g.len = e.len + f.len /\ g.outpos = g.len
    <2> DEFINE a == e.len + f.len
               b == e.outpos + f.len
    <2>1. a \in Nat /\ b \in Nat /\ a = b
      BY <1>6, <1>7, <1>8 DEF Lies
    <2>2. g = [e EXCEPT !.len = a, !.outpos = b]
      BY Zenon DEF Counted
    <2> HIDE DEF a, b, g
    <2>3. /\ g \in Frames /\ g.base = e.base /\ g.max = e.max /\ g.stock = e.stock /\ g.owner = e.owner
          /\ g.rest = e.rest /\ g.dump = NoDump /\ g.len = a /\ g.outpos = b
      BY <1>5, <2>1, <2>2 DEF Frames
    <2>4. QED
      BY <2>1, <2>3 DEF a
  <1> HIDE DEF g
  <1>10. g.stock + g.len = n /\ Dumping(g)
    BY <1>2, <1>5, <1>6, <1>7, <1>9 DEF Dumping
  <1>11. Stacked(below, n, m1, room, call) /\ below[1] = g
    BY <1>4, <1>5, <1>6, <1>9, <1>10, TopIs
  <1>12. below # <<>>
    <2>1. Len(below) = Len(t) /\ t \in Seq(Frames)
      BY <1>4, <1>5, <1>6, <1>9, <1>10, TopIs DEF Stacked
    <2> HIDE DEF below
    <2>2. Len(below) # 0
      BY <1>5, <2>1
    <2>3. QED
      BY <2>2
  <1> HIDE DEF below
  <1>13. CASE f.owner = "w" \/ f.rest = <<>>
    <2>1. Sound(m1, room, stream, below, call, faults)
      BY <1>2, <1>11 DEF Sound, n
    <2>2. QED
      BY <1>1, <1>2, <1>3, <1>12, <1>13, <2>1 DEF IInv, Good, m1
  <1>14. CASE ~ (f.owner = "w" \/ f.rest = <<>>)
    <2> DEFINE h == Continued(f)
               z == <<h>> \o below
    <2>1. Head(f.rest) \in Fmts /\ Tail(f.rest) \in Seq(Fmts) /\ f.owner \in Inner
      <3>1. f.rest \in Seq(Fmts)
        BY <1>2 DEF Sits, Rested, Inner
      <3>2. QED
        BY <1>2, <1>14, <3>1
    <2>2. Lies(f, room) /\ f.owner \in Owners /\ Tail(f.rest) \in Seq(Fmts) \cup Seq(Nat)
      BY <1>2, <2>1, FrameHas DEF Sits
    <2>3. /\ h \in Frames /\ Lies(h, room) /\ h.len = 0 /\ h.stock = f.stock + f.len /\ h.dump = NoDump
          /\ h.owner = f.owner /\ h.rest = Tail(f.rest)
      <3> DEFINE first == Head(f.rest)
                 rest == Tail(f.rest)
                 own == f.owner
      <3>1. first \in Fmts /\ own \in Owners /\ rest \in Seq(Fmts) \cup Seq(Nat)
        BY <2>1, <2>2
      <3>2. h = Frame(first, f.base + f.len, f.max - f.len, f.stock + f.len, own, rest)
        BY DEF Continued
      <3> HIDE DEF first, rest, own, h
      <3>3. /\ h \in Frames /\ Lies(h, room) /\ h.len = 0 /\ h.stock = f.stock + f.len /\ h.dump = NoDump
            /\ h.owner = own /\ h.rest = rest
        BY <1>2, <1>4, <2>2, <3>1, <3>2, BehindIs
      <3>4. QED
        BY <3>3 DEF own, rest
    <2> HIDE DEF h
    <2>4. h.stock = n /\ h.owner \in Inner /\ h.rest \in Seq(Fmts)
      BY <1>2, <2>1, <2>3
    <2>5. Stacked(z, n, m1, room, call)
      BY <1>4, <1>9, <1>11, <1>12, <2>3, <2>4, PushIs
    <2>6. z # <<>>
      <3>1. below \in Seq(Frames)
        BY <1>11 DEF Stacked
      <3>2. QED
        BY <3>1
    <2> HIDE DEF z
    <2>7. Sound(m1, room, stream, z, call, faults)
      BY <1>2, <2>5 DEF Sound, n
    <2>8. stack' = z
      BY <1>3, <1>14 DEF z, h
    <2>9. QED
      BY <1>1, <1>2, <2>6, <2>7, <2>8 DEF IInv, Good, m1
  <1>15. QED
    BY <1>13, <1>14

\* No call is under way any more.
LEMMA NoneIs ==
  ASSUME NEW m, NEW r \in Int, NEW s, NEW c, NEW n
  PROVE  Stacked(<<>>, n, m, r, c)
  <1>1. <<>> \in Seq(Frames) /\ Len(<<>>) = 0
    BY EmptySeq
  <1>2. QED
    BY <1>1 DEF Stacked

\* The client's call has its answer, or goes on with its next format.
LEMMA ClientEndsIs ==
  ASSUME IInv, ClientEnds
  PROVE  IInv'
  <1> DEFINE f == stack[1]
             n == Len(stream)
             m1 == mem'
  <1>1. FormatEnds({"client"}) /\ UNCHANGED <<room, stream, call, faults>>
    BY DEF ClientEnds
  <1>2. /\ stack # <<>> /\ Head(stack) = f /\ f.owner = "client" /\ f \in Frames
        /\ Sits(f, room, call) /\ f.stock + f.len = n
        /\ Sound(m1, room, stream, stack, call, faults) /\ ret = Pending
        /\ (f.owner \notin Inner /\ room > 0 => m1[Min({n, room - 1})] = NUL)
    <2>1. /\ stack # <<>> /\ Head(stack) = f /\ f.owner \in {"client"} /\ f \in Frames
          /\ Sits(f, room, call) /\ f.stock + f.len = n
          /\ Sound(m1, room, stream, stack, call, faults) /\ ret = Pending
      BY <1>1, EndsIs
    <2>2. f.owner \notin Inner /\ room > 0 => m1[Min({n, room - 1})] = NUL
      BY <1>1, EndsIs, Zenon
    <2> HIDE DEF f, n, m1
    <2>3. QED
      BY <2>1, <2>2
  <1>3. IF f.rest = <<>> THEN stack' = <<>> /\ ret' = f.stock + f.len
                         ELSE stack' = <<Continued(f)>> /\ ret' = ret
    BY <1>2, Zenon DEF ClientEnds
  <1>4. f.owner \notin Inner /\ f.owner \in Owners /\ f.rest \in Seq(Fmts) /\ Lies(f, room)
    BY <1>2 DEF Inner, Owners, Sits, Rested
  <1>5. room \in Int /\ n \in Nat
    BY <1>2, SnprintfAssumption DEF Sound
  <1> HIDE DEF f, n, m1
  <1>6. CASE f.rest = <<>>
    <2>1. Stacked(<<>>, n, m1, room, call)
      BY <1>5, NoneIs
    <2>2. Sound(m1, room, stream, <<>>, call, faults)
      BY <1>2, <2>1 DEF Sound, n
    <2>3. ret' = n /\ stack' = <<>>
      BY <1>2, <1>3, <1>6
    <2>4. Answered(m1, room, stream, n, faults)
      BY <1>2, <1>4, <1>5 DEF Answered, n
    <2>5. Good(m1, room, stream, <<>>, call, n, faults)
      BY <2>2, <2>4 DEF Good
    <2>6. QED
      BY <1>1, <2>3, <2>5 DEF IInv, m1
  <1>7. CASE f.rest # <<>>
    <2> DEFINE first == Head(f.rest)
               rest == Tail(f.rest)
               own == f.owner
               h == Continued(f)
               z == <<h>>
    <2>1. first \in Fmts /\ own \in Owners /\ rest \in Seq(Fmts) /\ own = "client"
      BY <1>2, <1>4, <1>7
    <2>2. h = Frame(first, f.base + f.len, f.max - f.len, f.stock + f.len, own, rest)
      BY DEF Continued
    <2> HIDE DEF first, rest, own, h
    <2>3. /\ h \in Frames /\ Lies(h, room) /\ h.len = 0 /\ h.stock = f.stock + f.len /\ h.dump = NoDump
          /\ h.owner = own /\ h.rest = rest
      BY <1>2, <1>4, <1>5, <2>1, <2>2, BehindIs
    <2>4. Sits(h, room, call) /\ h.owner \notin Inner
      <3>1. Rested(h, room)
        BY <2>1, <2>3 DEF Rested
      <3>2. QED
        BY <2>1, <2>3, <3>1 DEF Sits, Inner
    <2>5. h.stock + h.len = n /\ h.base = n
      BY <1>2, <1>5, <2>3 DEF Lies
    <2>6. h.base >= room /\ room > 0 => m1[room - 1] = NUL
      <3> HAVE h.base >= room /\ room > 0
      <3> DEFINE y == room - 1
      <3>1. y \in Int /\ ~ (n <= y)
        BY <1>5, <2>5
      <3> HIDE DEF y
      <3>2. Min({n, y}) = y
        BY <1>5, <3>1, SmallerIs
      <3>3. m1[Min({n, y})] = NUL
        BY <1>2, <1>4 DEF y
      <3>4. QED
        BY <3>2, <3>3 DEF y
    <2>7. Stacked(z, n, m1, room, call)
      BY <1>5, <2>3, <2>4, <2>5, <2>6, OneIs
    <2>8. z # <<>>
      OBVIOUS
    <2> HIDE DEF z
    <2>9. Sound(m1, room, stream, z, call, faults)
      BY <1>2, <2>7 DEF Sound, n
    <2>10. stack' = z /\ ret' = Pending
      BY <1>2, <1>3, <1>7 DEF z, h
    <2>11. Good(m1, room, stream, z, call, Pending, faults)
      BY <2>8, <2>9 DEF Good
    <2>12. QED
      BY <1>1, <2>10, <2>11 DEF IInv, m1
  <1>8. QED
    BY <1>6, <1>7

\* The text has been measured: there is no memory for it, none is asked for, or it is printed there.
LEMMA MeasureEndsIs ==
  ASSUME IInv, MeasureEnds
  PROVE  IInv'
  <1> DEFINE f == stack[1]
             n == Len(stream)
             m1 == mem'
  <1>1. FormatEnds({"measure"}) /\ UNCHANGED <<call, faults>>
    BY DEF MeasureEnds
  <1>2. /\ stack # <<>> /\ Head(stack) = f /\ f.owner = "measure" /\ f \in Frames
        /\ Sits(f, room, call) /\ f.stock + f.len = n
        /\ Sound(m1, room, stream, stack, call, faults) /\ ret = Pending
    BY <1>1, EndsIs
  <1>3. \/ stack' = <<>> /\ ret' = -1 /\ UNCHANGED <<room, stream>>
        \/ stack' = <<>> /\ ret' = f.len /\ UNCHANGED <<room, stream>>
        \/ /\ Allocation \in 1 .. MemSize - 1
           /\ stack' = <<Frame(Head(call.fmts), 0, Allocation, 0, "fill", <<f.len>>)>>
           /\ room' = Allocation /\ stream' = <<>> /\ ret' = ret
    BY <1>2, Zenon DEF MeasureEnds
  <1>4. room = 0 /\ f.stock = 0 /\ ~Plain(call) /\ f.len \in Nat
    BY <1>2, FrameHas DEF Sits, Rested
  <1>5. n \in Nat /\ f.len = n
    BY <1>2, <1>4 DEF Sound
  <1> HIDE DEF f, n, m1
  <1>6. ASSUME NEW a \in {-1, n}, stack' = <<>>, ret' = a, UNCHANGED <<room, stream>>
        PROVE  IInv'
    <2>1. Stacked(<<>>, n, m1, room, call)
      BY <1>4, NoneIs
    <2>2. Sound(m1, room, stream, <<>>, call, faults)
      BY <1>2, <2>1 DEF Sound, n
    <2>3. Answered(m1, room, stream, a, faults)
      BY <1>4, <1>5, <1>6 DEF Answered, n
    <2>4. Good(m1, room, stream, <<>>, call, a, faults)
      BY <2>2, <2>3 DEF Good
    <2>5. QED
      BY <1>1, <1>6, <2>4 DEF IInv, m1
  <1>7. CASE stack' = <<>> /\ ret' = -1 /\ UNCHANGED <<room, stream>>
    BY <1>6, <1>7
  <1>8. CASE stack' = <<>> /\ ret' = f.len /\ UNCHANGED <<room, stream>>
    BY <1>5, <1>6, <1>8
  <1>9. CASE /\ Allocation \in 1 .. MemSize - 1
             /\ stack' = <<Frame(Head(call.fmts), 0, Allocation, 0, "fill", <<f.len>>)>>
             /\ room' = Allocation /\ stream' = <<>> /\ ret' = ret
    <2> DEFINE size == Allocation
               first == Head(call.fmts)
               rest == <<f.len>>
               h == Frame(first, 0, size, 0, "fill", rest)
               z == <<h>>
    <2>1. size \in 1 .. MemSize - 1 /\ size \in Int /\ size > 0 /\ size \in 0 .. MemSize - 1
      <3> HIDE DEF size
      <3>1. Allocation = size
        BY DEF size
      <3>2. QED
        BY <1>9, <3>1, SnprintfAssumption
    <2>2. first \in Fmts
      <3>1. call \in Calls
        BY <1>2 DEF Sound
      <3>2. call.fmts \in Seq(Seq(Items)) /\ call.fmts # <<>>
        BY <3>1, CallsAssumption
      <3>3. first \in Seq(Items)
        BY <3>2
      <3>4. QED
        BY <3>3 DEF Fmts, Used
    <2>3. rest \in Seq(Nat) /\ rest # <<>> /\ "fill" \in Owners
      BY <1>4 DEF Owners
    <2> HIDE DEF size, first, rest
    <2> DEFINE zero == 0
               own == "fill"
    <2>4. zero \in Nat /\ own \in Owners /\ zero = 0 /\ own = "fill" /\ h = Frame(first, zero, size, zero, own, rest)
      BY <2>3
    <2> HIDE DEF zero, own, h
    <2>5. /\ h \in Frames /\ h.base = zero /\ h.max = size /\ h.len = 0 /\ h.stock = zero /\ h.outpos = 0
          /\ h.dump = NoDump /\ h.owner = own /\ h.rest = rest
      BY <2>1, <2>2, <2>3, <2>4, FrameIs
    <2>6. Sits(h, size, call) /\ h.owner \notin Inner /\ h.stock + h.len = 0 /\ ~ (h.base >= size)
      <3>1. Lies(h, size)
        BY <2>1, <2>4, <2>5 DEF Lies
      <3>2. Rested(h, size)
        BY <2>3, <2>4, <2>5 DEF Rested
      <3>3. QED
        BY <1>4, <2>1, <2>4, <2>5, <3>1, <3>2 DEF Sits, Inner
    <2>7. Stacked(z, zero, m1, size, call)
      BY <2>1, <2>4, <2>5, <2>6, OneIs
    <2>8. z # <<>>
      OBVIOUS
    <2> HIDE DEF z
    <2>9. Prefix0(m1, <<>>, size)
      <3>1. Prefix0(m1, stream, 0) /\ MemSize \in Nat
        BY <1>2, <1>4, SnprintfAssumption DEF Sound
      <3>2. \A i \in 0 .. MemSize - 1 : m1[i] = Untouched /\ ~ (i < 0)
        BY <3>1 DEF Prefix0
      <3>3. Len(<<>>) = 0
        OBVIOUS
      <3>4. QED
        BY <3>2, <3>3 DEF Prefix0
    <2>10. Sound(m1, size, <<>>, z, call, faults)
      <3>1. <<>> \in Seq(Char) /\ Len(<<>>) = zero
        BY <2>4, EmptySeq
      <3>2. QED
        BY <1>2, <2>1, <2>7, <2>9, <3>1 DEF Sound
    <2>11. Good(m1, size, <<>>, z, call, Pending, faults)
      BY <2>8, <2>10 DEF Good
    <2>12. stack' = z /\ room' = size /\ stream' = <<>> /\ ret' = Pending
      BY <1>2, <1>9, <2>4 DEF z, size, first, rest, h, zero, own
    <2>13. QED
      BY <1>1, <2>11, <2>12 DEF IInv, m1
  <1>10. QED
    BY <1>3, <1>7, <1>8, <1>9

\* The text has been printed where there is memory for it.
LEMMA FillEndsIs ==
  ASSUME IInv, FillEnds
  PROVE  IInv'
  <1> DEFINE f == stack[1]
             n == Len(stream)
             m1 == mem'
             a == Head(f.rest)
             fl == IF f.len # a THEN faults \cup {"str_l2"} ELSE faults
  <1>1. FormatEnds({"fill"}) /\ UNCHANGED <<room, stream, call>> /\ stack' = <<>>
    BY DEF FillEnds
  <1>2. /\ stack # <<>> /\ Head(stack) = f /\ f.owner = "fill" /\ f \in Frames
        /\ Sits(f, room, call) /\ f.stock + f.len = n
        /\ Sound(m1, room, stream, stack, call, faults) /\ ret = Pending
        /\ (f.owner \notin Inner /\ room > 0 => m1[Min({n, room - 1})] = NUL)
    <2>1. /\ stack # <<>> /\ Head(stack) = f /\ f.owner \in {"fill"} /\ f \in Frames
          /\ Sits(f, room, call) /\ f.stock + f.len = n
          /\ Sound(m1, room, stream, stack, call, faults) /\ ret = Pending
      BY <1>1, EndsIs
    <2>2. f.owner \notin Inner /\ room > 0 => m1[Min({n, room - 1})] = NUL
      BY <1>1, EndsIs, Zenon
    <2> HIDE DEF f, n, m1
    <2>3. QED
      BY <2>1, <2>2
  <1>3. ret' = a /\ faults' = fl
    BY <1>2, Zenon DEF FillEnds
  <1>4. f.stock = 0 /\ ~Plain(call) /\ f.len \in Nat /\ f.owner \notin Inner /\ a \in Int
    <2>1. f.rest \in Seq(Nat) /\ f.rest # <<>>
      BY <1>2 DEF Sits, Rested
    <2>2. a \in Nat
      BY <2>1
    <2>3. QED
      BY <1>2, <2>2, FrameHas DEF Sits, Rested, Inner
  <1>5. n \in Nat /\ f.len = n /\ room \in Int
    BY <1>2, <1>4, SnprintfAssumption DEF Sound
  <1> HIDE DEF f, n, m1, a
  <1>6. fl \in SUBSET Faults /\ "misplaced" \notin fl /\ (a = n \/ "str_l2" \in fl)
    BY <1>2, <1>5 DEF Sound, Faults
  <1> HIDE DEF fl
  <1>7. Stacked(<<>>, n, m1, room, call)
    BY <1>5, NoneIs
  <1>8. Sound(m1, room, stream, <<>>, call, fl)
    BY <1>2, <1>4, <1>6, <1>7 DEF Sound, n
  <1>9. Answered(m1, room, stream, a, fl)
    BY <1>2, <1>4, <1>6 DEF Answered, n
  <1>10. Good(m1, room, stream, <<>>, call, a, fl)
    BY <1>8, <1>9 DEF Good
  <1>11. QED
    BY <1>1, <1>3, <1>10 DEF IInv, m1

--------------------------------------------------------------------------------
(***************************************************************************)
(* The beginning, and every step.                                          *)
(***************************************************************************)
LEMMA StartIs ==
  ASSUME NEW c \in Calls, NEW r \in 0 .. MemSize - 1, NEW fmt \in Fmts, NEW owner \in {"client", "measure"},
         NEW rest \in Seq(Fmts), owner = "measure" => r = 0 /\ ~Plain(c),
         NEW m \in Mems, \A i \in 0 .. MemSize - 1 : i >= r => m[i] = Untouched
  PROVE  Good(m, r, <<>>, <<Frame(fmt, 0, r, 0, owner, rest)>>, c, Pending, {})
  <1> DEFINE zero == 0
             h == Frame(fmt, zero, r, zero, owner, rest)
             z == <<h>>
  <1>1. zero \in Nat /\ zero = 0 /\ r \in Int /\ r >= 0 /\ owner \in Owners /\ MemSize \in Nat
    BY SnprintfAssumption DEF Owners
  <1> HIDE DEF zero, h
  <1>2. /\ h \in Frames /\ h.base = zero /\ h.max = r /\ h.len = 0 /\ h.stock = zero /\ h.outpos = 0
        /\ h.dump = NoDump /\ h.owner = owner /\ h.rest = rest
    BY <1>1, FrameIs DEF h
  <1>3. Sits(h, r, c) /\ h.owner \notin Inner /\ h.stock + h.len = zero
    <2>1. Lies(h, r)
      BY <1>1, <1>2 DEF Lies
    <2>2. Rested(h, r)
      BY <1>1, <1>2 DEF Rested
    <2>3. QED
      BY <1>1, <1>2, <2>1, <2>2 DEF Sits, Inner
  <1>4. h.base >= r /\ r > 0 => m[r - 1] = NUL
    BY <1>1, <1>2
  <1>5. Stacked(z, zero, m, r, c)
    BY <1>1, <1>2, <1>3, <1>4, OneIs
  <1>6. z # <<>> /\ <<>> \in Seq(Char) /\ Len(<<>>) = zero
    BY <1>1, EmptySeq
  <1> HIDE DEF z
  <1>7. Prefix0(m, <<>>, r)
    <2>1. \A i \in 0 .. MemSize - 1 : ~ (i < Len(<<>>))
      BY <1>1, <1>6
    <2>2. QED
      BY <2>1 DEF Prefix0
  <1>8. Sound(m, r, <<>>, z, c, {})
    BY <1>5, <1>6, <1>7 DEF Sound
  <1>9. Good(m, r, <<>>, z, c, Pending, {})
    BY <1>6, <1>8 DEF Good
  <1>10. QED
    BY <1>1, <1>9 DEF z, h

\* mm_Strcat()'s own format.
LEMMA AppendingIs ==
  ASSUME NEW c \in Calls, c.api = "Strcat"
  PROVE  Appending(c) \in Fmts
  <1>1. c.dest \in Seq(Char) /\ c.fmts \in Seq(Seq(Items)) /\ c.fmts # <<>>
    BY CallsAssumption
  <1> DEFINE a == [kind |-> "str", text |-> c.dest, prec |-> NoPrec, width |-> 0, left |-> FALSE, zero |-> FALSE]
             b == [kind |-> "w", id |-> "mm_Strcat", fmt |-> Head(c.fmts)]
  <1>2. a \in StrItems
    BY <1>1 DEF StrItems, Precs
  <1>3. b \in Appends
    BY <1>1 DEF Appends
  <1> HIDE DEF a, b
  <1>4. a \in Used /\ b \in Used
    BY <1>2, <1>3 DEF Used
  <1>5. <<a, b>> \in Seq(Used)
    BY <1>4
  <1>6. Appending(c) = <<a, b>>
    BY Zenon DEF Appending, a, b
  <1>7. QED
    BY <1>5, <1>6 DEF Fmts

\* The client's call has just been made.
LEMMA InitIInv == Init => IInv
  <1> SUFFICES ASSUME Init PROVE IInv
    OBVIOUS
  <1> DEFINE clear == [i \in 0 .. MemSize - 1 |-> Untouched]
             size == call.size
             fmts == call.fmts
             dest == call.dest
  <1>1. call \in Calls /\ stream = <<>> /\ ret = Pending /\ faults = {} /\ stack = <<FirstFrame(call)>>
    BY DEF Init
  <1>2. room = IF call.api \in {"asprintf", "asnprintf"} THEN 0 ELSE size
    BY DEF Init
  <1>3. mem = IF call.api = "Strcat" THEN Written(clear, 0, Len(dest) + 1, dest \o <<NUL>>) ELSE clear
    BY Zenon DEF Init
  <1>4. /\ call.api \in {"snprintf", "Strcat", "asprintf", "asnprintf"} /\ size \in Nat /\ size < MemSize
        /\ MemSize \in Nat
        /\ fmts \in Seq(Seq(Items)) /\ fmts # <<>>
        /\ call.api = "Strcat" => dest \in Seq(Char) /\ Len(dest) < size
    BY <1>1, CallsAssumption, SnprintfAssumption
  <1>5. clear \in Mems /\ \A i \in 0 .. MemSize - 1 : clear[i] = Untouched
    BY DEF Mems, Cells
  <1>6. Head(fmts) \in Fmts /\ Tail(fmts) \in Seq(Fmts) /\ <<>> \in Seq(Fmts)
    <2>1. Seq(Items) \subseteq Fmts
      BY DEF Fmts, Used
    <2>2. Head(fmts) \in Seq(Items) /\ Tail(fmts) \in Seq(Seq(Items))
      BY <1>4
    <2>3. \A S, T : S \subseteq T => Seq(S) \subseteq Seq(T)
      OBVIOUS
    <2>4. QED
      BY <2>1, <2>2, <2>3, EmptySeq
  <1> HIDE DEF clear, size, fmts, dest
  <1>7. CASE call.api = "snprintf"
    <2> DEFINE own == "client"
               rest == Tail(fmts)
               first == Head(fmts)
    <2>1. FirstFrame(call) = Frame(first, 0, room, 0, own, rest)
      BY <1>2, <1>7 DEF FirstFrame, fmts, size
    <2>2. /\ room \in 0 .. MemSize - 1 /\ own \in {"client", "measure"} /\ (own = "measure" => FALSE)
          /\ first \in Fmts /\ rest \in Seq(Fmts)
          /\ mem = clear
      BY <1>2, <1>3, <1>4, <1>6, <1>7
    <2> HIDE DEF own, rest, first
    <2>3. QED
      BY <1>1, <1>5, <2>1, <2>2, StartIs DEF IInv
  <1>8. CASE call.api = "Strcat"
    <2> DEFINE own == "client"
               rest == <<>>
               first == Appending(call)
               k == Len(dest) + 1
               text == dest \o <<NUL>>
               at(i) == IF 0 <= i /\ i < 0 + k THEN text[i - 0 + 1] ELSE clear[i]
    <2>1. FirstFrame(call) = Frame(first, 0, room, 0, own, rest)
      BY <1>2, <1>8 DEF FirstFrame, size
    <2>2. /\ room \in 0 .. MemSize - 1 /\ room = size /\ own \in {"client", "measure"} /\ (own = "measure" => FALSE)
          /\ first \in Fmts /\ rest \in Seq(Fmts)
      BY <1>1, <1>2, <1>4, <1>6, <1>8, AppendingIs
    <2>3. dest \in Seq(Cells) /\ Len(dest) \in Nat /\ Len(dest) < size
      <3>1. Char \subseteq Cells
        BY Zenon DEF Cells
      <3>2. QED
        BY <1>4, <1>8, <3>1
    <2>4. text \in Seq(Cells) /\ Len(text) = k /\ k \in Nat /\ k <= size
      <3>1. <<NUL>> \in Seq(Cells) /\ Len(<<NUL>>) = 1
        <4>1. NUL \in Cells
          BY Zenon DEF Cells
        <4>2. QED
          BY <4>1
      <3>2. text \in Seq(Cells) /\ Len(text) = Len(dest) + Len(<<NUL>>)
        BY <2>3, <3>1, ConcatProperties
      <3> HIDE DEF text
      <3>3. QED
        BY <1>4, <2>3, <3>1, <3>2
    <2>5. mem = [i \in 0 .. MemSize - 1 |-> at(i)]
      <3>1. mem = Written(clear, 0, k, text)
        BY <1>3, <1>8
      <3>2. DOMAIN clear = 0 .. MemSize - 1
        BY <1>5 DEF Mems
      <3>3. QED
        BY <3>1, <3>2, Zenon DEF Written
    <2> HIDE DEF own, rest, first, k, text
    <2>6. \A i \in 0 .. MemSize - 1 : at(i) \in Cells /\ (i >= room => at(i) = Untouched)
      <3> SUFFICES ASSUME NEW i \in 0 .. MemSize - 1
                   PROVE  at(i) \in Cells /\ (i >= room => at(i) = Untouched)
        OBVIOUS
      <3>1. clear[i] = Untouched /\ Untouched \in Cells /\ i \in Nat
        BY <1>4, <1>5 DEF Cells
      <3>2. CASE i < k
        <4>1. i - 0 + 1 \in 1 .. k
          BY <2>4, <3>1, <3>2
        <4>2. text[i - 0 + 1] \in Cells /\ ~ (i >= room)
          BY <1>4, <2>2, <2>4, <3>1, <3>2, <4>1
        <4>3. at(i) = text[i - 0 + 1]
          BY <2>4, <3>1, <3>2
        <4>4. QED
          BY <4>2, <4>3
      <3>3. CASE ~ (i < k)
        <4>1. at(i) = clear[i]
          BY <2>4, <3>1, <3>3
        <4>2. QED
          BY <3>1, <4>1
      <3>4. QED
        BY <3>2, <3>3
    <2> HIDE DEF at
    <2>7. mem \in Mems /\ \A i \in 0 .. MemSize - 1 : i >= room => mem[i] = Untouched
      BY <2>5, <2>6 DEF Mems
    <2>8. QED
      BY <1>1, <2>1, <2>2, <2>7, StartIs DEF IInv
  <1>9. CASE call.api \in {"asprintf", "asnprintf"}
    <2> DEFINE own == "measure"
               rest == <<>>
               first == Head(fmts)
    <2>1. FirstFrame(call) = Frame(first, 0, room, 0, own, rest)
      BY <1>2, <1>9 DEF FirstFrame, fmts
    <2>2. /\ room \in 0 .. MemSize - 1 /\ own \in {"client", "measure"} /\ room = 0 /\ ~Plain(call)
          /\ first \in Fmts /\ rest \in Seq(Fmts)
          /\ mem = clear
      BY <1>2, <1>3, <1>4, <1>6, <1>9 DEF Plain
    <2> HIDE DEF own, rest, first
    <2>3. QED
      BY <1>1, <1>5, <2>1, <2>2, StartIs DEF IInv
  <1>10. QED
    BY <1>4, <1>7, <1>8, <1>9

LEMMA NextIInv == IInv /\ [Next]_vars => IInv'
  <1> SUFFICES ASSUME IInv, [Next]_vars PROVE IInv'
    OBVIOUS
  <1>1. CASE Literal
    BY <1>1, LiteralIs
  <1>2. CASE Text
    BY <1>2, TextIs
  <1>3. CASE Numeric
    BY <1>3, NumericIs
  <1>4. CASE Setting
    BY <1>4, SettingIs
  <1>5. CASE Repeat
    BY <1>5, RepeatIs
  <1>6. CASE BeginDump
    BY <1>6, BeginDumpIs
  <1>7. CASE DumpLine
    BY <1>7, DumpLineIs
  <1>8. CASE Nest
    BY <1>8, NestIs
  <1>9. CASE Inject
    BY <1>9, InjectIs
  <1>10. CASE NestedEnds
    BY <1>10, NestedEndsIs
  <1>11. CASE ClientEnds
    BY <1>11, ClientEndsIs
  <1>12. CASE MeasureEnds
    BY <1>12, MeasureEndsIs
  <1>13. CASE FillEnds
    BY <1>13, FillEndsIs
  <1>14. CASE UNCHANGED vars
    BY <1>14, Zenon DEF vars, IInv
  <1>15. QED
    BY <1>1, <1>2, <1>3, <1>4, <1>5, <1>6, <1>7, <1>8, <1>9, <1>10, <1>11, <1>12, <1>13, <1>14
       DEF Next, Step, Done

--------------------------------------------------------------------------------
(***************************************************************************)
(* What has been proved.                                                   *)
(***************************************************************************)
\* The invariant says what the buffer holds, of any call that was as long as it was measured.
LEMMA IInvHolds ==
  ASSUME IInv
  PROVE  /\ "misplaced" \notin faults
         /\ "str_l2" \notin faults => BufferHoldsText
         /\ stack # <<>> \/ Plain(call) => "str_l2" \notin faults
         /\ call \in Calls
  <1> DEFINE n == Len(stream)
  <1>1. /\ call \in Calls /\ mem \in Mems /\ room \in 0 .. MemSize - 1 /\ stream \in Seq(Char)
        /\ Prefix0(mem, stream, room) /\ Stacked(stack, n, mem, room, call)
        /\ "misplaced" \notin faults /\ (stack # <<>> \/ Plain(call) => "str_l2" \notin faults)
    BY DEF IInv, Good, Sound
  <1>2. (stack # <<>> => ret = Pending) /\ (stack = <<>> => Answered(mem, room, stream, ret, faults))
    BY DEF IInv, Good
  <1>3. DOMAIN mem = 0 .. MemSize - 1 /\ MemSize \in Nat /\ n \in Nat /\ room \in Int
    BY <1>1, SnprintfAssumption DEF Mems
  <1> HIDE DEF n
  <1>4. ret # Pending => Answered(mem, room, stream, ret, faults)
    BY <1>2
  <1>5. \A k \in DOMAIN stack :
          /\ stack[k].len >= 0 /\ stack[k].outpos >= 0 /\ stack[k].base >= 0
          /\ stack[k].base + stack[k].max <= room
          /\ stack[k].stock + stack[k].len = IF k = 1 THEN n ELSE stack[k - 1].stock
    <2> SUFFICES ASSUME NEW k \in DOMAIN stack
                 PROVE  /\ stack[k].len >= 0 /\ stack[k].outpos >= 0 /\ stack[k].base >= 0
                        /\ stack[k].base + stack[k].max <= room
                        /\ stack[k].stock + stack[k].len = IF k = 1 THEN n ELSE stack[k - 1].stock
      OBVIOUS
    <2>1. stack \in Seq(Frames)
      BY <1>1 DEF Stacked
    <2>2. k \in 1 .. Len(stack)
      BY <2>1
    <2>3. /\ Lies(stack[k], room)
          /\ stack[k].stock + stack[k].len = IF k = 1 THEN n ELSE stack[k - 1].stock
      BY <1>1, <2>2 DEF Stacked, Sits
    <2>4. stack[k] \in Frames
      BY <2>1, <2>2
    <2>5. stack[k].len \in Nat /\ stack[k].outpos \in Nat /\ stack[k].base \in Nat
      BY <2>4, FrameHas
    <2>6. stack[k].base + stack[k].max = room
      BY <2>3 DEF Lies
    <2>7. QED
      BY <1>3, <2>3, <2>5, <2>6
  <1>6. TypeOK
    <2>1. \A i \in DOMAIN mem : mem[i] \in Char \cup {NUL, Untouched}
      BY <1>1 DEF Mems, Cells
    <2>2. ret \in Int \cup {Pending}
      BY <1>4 DEF Answered
    <2>3. room \in 0 .. MemSize
      BY <1>1, <1>3
    <2>4. QED
      BY <1>1, <1>5, <2>1, <2>2, <2>3 DEF TypeOK
  <1>7. \A i \in DOMAIN mem : i >= room => mem[i] = Untouched
    BY <1>1, <1>3 DEF Prefix0
  <1>8. \A i \in 0 .. Min({n, room}) - 1 : mem[i] = stream[i + 1] \/ (i = room - 1 /\ mem[i] = NUL)
    <2> SUFFICES ASSUME NEW i \in 0 .. Min({n, room}) - 1
                 PROVE  mem[i] = stream[i + 1] \/ (i = room - 1 /\ mem[i] = NUL)
      OBVIOUS
    <2> DEFINE least == Min({n, room})
    <2>1. least = IF n <= room THEN n ELSE room
      BY <1>3, SmallerIs
    <2>2. i \in 0 .. least - 1
      OBVIOUS
    <2> HIDE DEF least
    <2>3. i \in 0 .. MemSize - 1 /\ i < n /\ i < room
      BY <1>1, <1>3, <2>1, <2>2
    <2>4. QED
      BY <1>1, <2>3 DEF Prefix0, n
  <1>9. ret # Pending /\ room > 0 => mem[Min({n, room - 1})] = NUL
    BY <1>4 DEF Answered, n
  <1>10. "str_l2" \notin faults => (ret # Pending => ret \in {-1, n})
    BY <1>4 DEF Answered, n
  <1>11. "str_l2" \notin faults => BufferHoldsText
    <2> HAVE "str_l2" \notin faults
    <2>1. \A k \in DOMAIN stack :
            stack[k].stock + stack[k].len = IF k = 1 THEN n ELSE stack[k - 1].stock
      BY <1>5
    <2>2. QED
      BY <1>6, <1>7, <1>8, <1>9, <1>10, <2>1, Zenon DEF BufferHoldsText, n
  <1>12. QED
    BY <1>1, <1>11

LEMMA Always == Spec => []IInv
  <1>1. Init => IInv
    BY InitIInv
  <1>2. IInv /\ [Next]_vars => IInv'
    BY NextIInv
  <1>3. QED
    BY <1>1, <1>2, PTL DEF Spec

\* BufferHolds.  Whatever formats are nested how, in whatever buffer, and whatever a client
\* who passes a va_list on twice makes it read: the buffer holds the beginning of the text and
\* a NUL, no cell behind it is written, and nested calls count from the length of the text so
\* far; and so long as a text is printed as long as it was measured, its length is returned.
THEOREM BufferHolds == Spec => []("str_l2" \notin faults => BufferHoldsText)
  <1>1. IInv => ("str_l2" \notin faults => BufferHoldsText)
    BY IInvHolds
  <1>2. QED
    BY <1>1, Always, PTL

\* BufferHoldsPlain.  Calls that print into the client's own buffer, mm_snprintf_v7() and
\* mm_Strcat() with all they nest, have nothing measured before, and need no such premise.
THEOREM BufferHoldsPlain ==
  ASSUME \A c \in Calls : Plain(c)
  PROVE  Spec => []BufferHoldsText
  <1>1. IInv => BufferHoldsText
    BY IInvHolds
  <1>2. QED
    BY <1>1, Always, PTL

\* PlacesTold.  The callback is told of every piece where in the text it goes: the length so
\* far that ctipack_output() is given never differs from that of the pieces put out before.
THEOREM PlacesTold == Spec => []("misplaced" \notin faults)
  <1>1. IInv => "misplaced" \notin faults
    BY IInvHolds
  <1>2. QED
    BY <1>1, Always, PTL

\* DumpsEnd.  Each line of a dump takes bytes, or skips fewer columns than the line before:
\* whatever the groups, the columns, the skipped columns and the bytes, it does not go on for ever.
THEOREM DumpsEnd == Spec => DumpsAdvance
  <1> DEFINE dumping(s) == s # <<>> /\ Head(s).dump # NoDump
             d(s) == Head(s).dump
             Advance == dumping(stack) /\ dumping(stack') =>
                          \/ d(stack').consumed > d(stack).consumed
                          \/ d(stack').consumed = d(stack).consumed /\ d(stack').skip < d(stack).skip
  <1>1. IInv /\ [Next]_vars => [Advance]_vars
    <2> SUFFICES ASSUME IInv, Next, dumping(stack), dumping(stack'), vars' # vars
                 PROVE  \/ d(stack').consumed > d(stack).consumed
                        \/ d(stack').consumed = d(stack).consumed /\ d(stack').skip < d(stack).skip
      OBVIOUS
    <2>1. Head(stack) = stack[1] /\ stack[1].fmt # <<>>
      BY TopOf DEF Dumping
    <2>2. \A kind : ~Reads(kind)
      BY DEF Reads
    <2>3. \A owners : ~FormatEnds(owners)
      BY <2>1 DEF FormatEnds
    <2>4. DumpLine
      BY <2>2, <2>3 DEF Next, Step, Done, Literal, Text, Numeric, Setting, Repeat, BeginDump, Nest, Inject,
                        NestedEnds, ClientEnds, MeasureEnds, FillEnds
    <2>5. QED
      BY <2>1, <2>4, DumpLineIs
  <1>2. Spec => [][Advance]_vars
    <2> HIDE DEF Advance
    <2>1. QED
      BY <1>1, Always, PTL DEF Spec
  <1>3. QED
    BY <1>2 DEF DumpsAdvance

--------------------------------------------------------------------------------
(***************************************************************************)
(* Measured and printed.  What a call prints does not depend on the buffer *)
(* it prints into: of the frames under way, `Shape' keeps what does not,   *)
(* and each step leads from shapes to shapes in one way only (`Turns').    *)
(* The call that measured a text went through a sequence of shapes; the    *)
(* call that prints it for good is somewhere in the same sequence, and     *)
(* can end only where the first one ended, with the same length.  That     *)
(* takes formats whose arguments are there when they are read again.       *)
(***************************************************************************)
\* Formats made of these items read the same arguments twice: no %w among them uses up
\* a va_list it needs.
ReadTwice(S) ==
  \A item \in S :
    /\ item.kind = "w" => /\ item.fmt \in Seq(S)
                          /\ VaListIsArray => \A i \in DOMAIN item.fmt : item.fmt[i].kind # "num"
    /\ item.kind = "F" => item.fmts \in Seq(Seq(S))
Repeats(c) == \E S \in SUBSET Items : ReadTwice(S) /\ c.fmts \in Seq(Seq(S))

\* How many characters pieces have, wherever they are printed.
Size(pieces) ==
  CHOOSE n \in Nat : \A r \in Int : \A s : Holds(s, r) => EmitAll(s, pieces).f.len = s.f.len + n

Form(fmt, len, cfg, dump, owner, rest) ==
  [fmt |-> fmt, len |-> len, cfg |-> cfg, dump |-> dump, owner |-> owner, rest |-> rest]
Shape(f) == IF f.owner \in Inner THEN Form(f.fmt, f.len, f.cfg, f.dump, f.owner, f.rest)
            ELSE Form(f.fmt, f.len, f.cfg, f.dump, "client", <<>>)
Shapes(st) == [k \in 1 .. Len(st) |-> Shape(st[k])]

\* A sequence with one more in front, or with one less.
On(x, s) == <<x>> \o s
Rest(s) == Tail(s)

\* A shape's next one, in the same call.
Onto(f, fmt, len, cfg, dump) == Form(fmt, len, cfg, dump, f.owner, f.rest)
Top(p, fmt, len, cfg, dump) == On(Onto(p[1], fmt, len, cfg, dump), Rest(p))
Cleared(cfg) == [cfg EXCEPT !.addr = 0, !.iso = FALSE]
WholeLine(f) ==
  LinePieces(f.cfg, f.dump)
    \o (IF f.dump.consumed + Consumes(f.dump) = f.dump.n THEN <<>> ELSE <<Newline>>)
LineTaken(d) ==
  [d EXCEPT !.consumed = d.consumed + Consumes(d), !.skip = NextSkip(d),
            !.addr = (@ + d.columns) % AddrEnd]

PrintTurn(p, pieces) ==
  Top(p, Tail(p[1].fmt), p[1].len + Size(pieces), p[1].cfg, NoDump)
SetTurn(p, cfg) == Top(p, Tail(p[1].fmt), p[1].len, cfg, NoDump)
DumpTurn(p, d) == Top(p, p[1].fmt, p[1].len + Size(RulerPieces(p[1].cfg, d)), p[1].cfg, d)
LineTurn(p) ==
  LET f == p[1]
      len == f.len + Size(WholeLine(f))
  IN IF f.dump.consumed + Consumes(f.dump) = f.dump.n
     THEN Top(p, Tail(f.fmt), len, Cleared(f.cfg), NoDump)
     ELSE Top(p, f.fmt, len, f.cfg, LineTaken(f.dump))
CallTurn(p, fmt, owner, rest) ==
  On(Form(fmt, 0, InitialCfg, NoDump, owner, rest), SetTurn(p, p[1].cfg))
EndTurn(p) ==
  LET f == p[1]
      t == Rest(p)
      below == Top(t, t[1].fmt, t[1].len + f.len, t[1].cfg, NoDump)
  IN IF f.owner = "w" \/ f.rest = <<>> THEN below
     ELSE On(Form(Head(f.rest), 0, InitialCfg, NoDump, f.owner, Tail(f.rest)), below)

\* What an item makes of the calls under way.
ItemTurns(p, q, item) ==
  LET f == p[1] IN
  \/ item.kind = "lit" /\ q = PrintTurn(p, <<item.text>>)
  \/ item.kind = "str" /\ q = PrintTurn(p, TextPieces(item))
  \/ item.kind = "num" /\ q = PrintTurn(p, NumberPieces(f.cfg, item))
  \/ item.kind = "n" /\ q = PrintTurn(p, [i \in 1 .. item.width |-> item.text])
  \/ item.kind = "set" /\ q = SetTurn(p, Set(f.cfg, item))
  \/ item.kind = "m" /\ q = IF item.n <= 0 THEN SetTurn(p, Cleared(f.cfg))
                            ELSE DumpTurn(p, DumpOf(f.cfg, item))
  \/ item.kind = "w" /\ q = CallTurn(p, item.fmt, "w", <<>>)
  \/ item.kind = "F" /\ q = IF item.fmts = <<>> THEN SetTurn(p, f.cfg)
                            ELSE CallTurn(p, Head(item.fmts), "F", Tail(item.fmts))

Turns(p, q) ==
  LET f == p[1] IN
  \/ f.dump # NoDump /\ q = LineTurn(p)
  \/ f.dump = NoDump /\ f.fmt = <<>> /\ f.owner \in Inner /\ q = EndTurn(p)
  \/ f.dump = NoDump /\ f.fmt # <<>> /\ ItemTurns(p, q, Head(f.fmt))

\* From shapes there is one way on, and none from where the client's call ends.
Stops(p) == p[1].dump = NoDump /\ p[1].fmt = <<>> /\ p[1].owner \notin Inner

LEMMA OneWay ==
  ASSUME NEW p, NEW q, NEW r, Turns(p, q), Turns(p, r)
  PROVE  q = r /\ ~Stops(p)
  <1>1. ~Stops(p)
    BY DEF Turns, Stops
  <1> DEFINE f == p[1]
  <1>2. CASE f.dump # NoDump
    BY <1>1, <1>2 DEF Turns
  <1>3. CASE f.dump = NoDump /\ f.fmt = <<>>
    BY <1>1, <1>3 DEF Turns
  <1>4. CASE f.dump = NoDump /\ f.fmt # <<>>
    <2> DEFINE item == Head(f.fmt)
    <2>1. ItemTurns(p, q, item) /\ ItemTurns(p, r, item)
      BY <1>4 DEF Turns
    <2> HIDE DEF item
    <2>2. QED
      BY <1>1, <2>1 DEF ItemTurns
  <1>5. QED
    BY <1>2, <1>3, <1>4

\* A piece has its length, wherever it goes.
LEMMA EmitLength ==
  ASSUME NEW r \in Int, NEW s, Holds(s, r), NEW piece \in Seq(Char)
  PROVE  Holds(Emit(s, piece), r) /\ Emit(s, piece).f.len = s.f.len + Len(piece)
  <1> DEFINE t == Emit(s, piece)
             a == s.f
             b == t.f
  <1>1. Holds(t, r) /\ Grown(s, t, r) /\ t.stream = s.stream \o piece
    BY EmitIs
  <1> HIDE DEF t
  <1>2. a \in Frames /\ b \in Frames /\ s.stream \in Seq(Char) /\ t.stream \in Seq(Char)
    BY <1>1 DEF Holds, States
  <1>3. a.stock + a.len = Len(s.stream) /\ b.stock + b.len = Len(t.stream)
    BY <1>1 DEF Holds
  <1>4. Len(t.stream) = Len(s.stream) + Len(piece)
    BY <1>1, <1>2, ConcatProperties
  <1>5. b = [a EXCEPT !.len = b.len, !.outpos = b.outpos]
    BY <1>1 DEF Grown
  <1> HIDE DEF a, b
  <1>6. b.stock = a.stock
    BY <1>2, <1>5 DEF Frames
  <1>7. a.stock \in Nat /\ a.len \in Nat /\ b.len \in Nat /\ Len(piece) \in Nat
    BY <1>2, FrameHas
  <1>8. b.len = a.len + Len(piece)
    <2> DEFINE k == Len(piece)
               u == Len(s.stream)
               v == Len(t.stream)
    <2>1. a.stock + a.len = u /\ a.stock + b.len = v /\ v = u + k /\ k \in Nat
      BY <1>3, <1>4, <1>6, <1>7
    <2> HIDE DEF k, u, v
    <2>2. b.len = a.len + k
      BY <1>7, <2>1
    <2>3. QED
      BY <2>2 DEF k
  <1>9. QED
    BY <1>1, <1>8 DEF t, a, b

LEMMA SizeIs ==
  ASSUME NEW pieces \in Seq(Seq(Char))
  PROVE  /\ Size(pieces) \in Nat
         /\ \A r \in Int : \A s : Holds(s, r) => EmitAll(s, pieces).f.len = s.f.len + Size(pieces)
  <1> DEFINE n == Len(pieces)
             Adds(k, a) == \A r \in Int : \A s, g :
               Holds(s, r) /\ Emits(g, n, s, pieces) => Holds(g[k], r) /\ g[k].f.len = s.f.len + a
             T == {k \in Nat : k <= n => \E a \in Nat : Adds(k, a)}
  <1>1. n \in Nat
    OBVIOUS
  <1>2. ASSUME NEW s, NEW g, Emits(g, n, s, pieces)
        PROVE  /\ g[0] = s
               /\ \A k \in Nat : k + 1 <= n => g[k + 1] = Emit(g[k], pieces[k + 1])
    <2> HIDE DEF n
    <2>1. g = [i \in 0 .. n |-> IF i = 0 THEN s ELSE Emit(g[i - 1], pieces[i])]
      BY <1>2, Zenon DEF Emits
    <2>2. 0 \in 0 .. n
      BY <1>1
    <2>3. g[0] = s
      BY <2>1, <2>2, Zenon
    <2>4. \A i \in 0 .. n : i # 0 => g[i] = Emit(g[i - 1], pieces[i])
      BY <2>1, Zenon
    <2>5. ASSUME NEW k \in Nat, k + 1 <= n
          PROVE  g[k + 1] = Emit(g[k], pieces[k + 1])
      <3>1. k + 1 \in 0 .. n /\ k + 1 # 0 /\ k + 1 - 1 = k
        BY <1>1, <2>5
      <3>2. ASSUME NEW m \in 0 .. n, m # 0, m - 1 = k
            PROVE  g[m] = Emit(g[k], pieces[m])
        BY <2>4, <3>2, Zenon
      <3>3. QED
        BY <3>1, <3>2
    <2>6. QED
      BY <2>3, <2>5
  <1>3. 0 \in T
    <2>1. ASSUME NEW r \in Int, NEW s, NEW g, Holds(s, r), Emits(g, n, s, pieces)
          PROVE  Holds(g[0], r) /\ g[0].f.len = s.f.len + 0
      <3>1. g[0] = s
        BY <1>2, <2>1
      <3>2. s.f.len \in Nat
        BY <2>1, FrameHas DEF Holds, States
      <3>3. QED
        BY <2>1, <3>1, <3>2
    <2>2. Adds(0, 0)
      BY <2>1
    <2> HIDE DEF Adds
    <2>3. QED
      BY <2>2
  <1>4. ASSUME NEW k \in Nat, k \in T
        PROVE  k + 1 \in T
    <2> SUFFICES ASSUME k + 1 <= n
                 PROVE  \E a \in Nat : Adds(k + 1, a)
      OBVIOUS
    <2>1. k <= n /\ k + 1 \in 1 .. n
      BY <1>1
    <2>2. PICK a \in Nat : Adds(k, a)
      <3> HIDE DEF Adds
      <3>1. QED
        BY <1>4, <2>1
    <2>3. pieces[k + 1] \in Seq(Char)
      BY <2>1
    <2> DEFINE l == Len(pieces[k + 1])
    <2>4. l \in Nat
      BY <2>3
    <2>5. ASSUME NEW r \in Int, NEW s, NEW g, Holds(s, r), Emits(g, n, s, pieces)
          PROVE  Holds(g[k + 1], r) /\ g[k + 1].f.len = s.f.len + (a + l)
      <3> HIDE DEF n
      <3>1. Holds(g[k], r) /\ g[k].f.len = s.f.len + a
        BY <2>2, <2>5
      <3>2. g[k + 1] = Emit(g[k], pieces[k + 1])
        BY <1>2, <2>5
      <3>3. Holds(g[k + 1], r) /\ g[k + 1].f.len = g[k].f.len + l
        BY <2>3, <3>1, <3>2, EmitLength
      <3>4. s.f.len \in Nat
        BY <2>5, FrameHas DEF Holds, States
      <3> HIDE DEF l
      <3>5. g[k + 1].f.len = (s.f.len + a) + l
        BY <3>1, <3>3
      <3>6. (s.f.len + a) + l = s.f.len + (a + l)
        BY <2>4, <3>4
      <3>7. QED
        BY <3>3, <3>5, <3>6
    <2>6. Adds(k + 1, a + l)
      BY <2>5
    <2> HIDE DEF Adds, l
    <2>7. QED
      BY <2>4, <2>6
  <1>5. n \in T
    <2> HIDE DEF T
    <2>1. QED
      BY <1>1, <1>3, <1>4, Induction
  <1>6. PICK a \in Nat : Adds(n, a)
    <2> HIDE DEF Adds
    <2>1. QED
      BY <1>1, <1>5
  <1>7. ASSUME NEW r \in Int, NEW s, Holds(s, r)
        PROVE  EmitAll(s, pieces).f.len = s.f.len + a
    <2> DEFINE g == CHOOSE h : Emits(h, n, s, pieces)
    <2>1. Emits(g, n, s, pieces)
      BY <1>1, EmitsExist, Zenon
    <2>2. EmitAll(s, pieces) = g[n]
      BY Zenon DEF EmitAll, Emits
    <2> HIDE DEF g, n
    <2>3. QED
      BY <1>6, <1>7, <2>1, <2>2
  <1>8. \E m \in Nat : \A r \in Int : \A s : Holds(s, r) => EmitAll(s, pieces).f.len = s.f.len + m
    BY <1>7
  <1>9. QED
    BY <1>8, Zenon DEF Size

\* The calls under way make what is made of S, and the first of them is owner's.
Tame(f, S) == f.fmt \in Seq(S) /\ (f.owner \in Inner => f.rest \in Seq(Seq(S)))
Runs(st, S, owner, rest) ==
  /\ st \in Seq(Frames) /\ st # <<>>
  /\ \A k \in 1 .. Len(st) : Tame(st[k], S)
  /\ st[Len(st)].owner = owner /\ st[Len(st)].rest = rest

LEMMA ShapeHas ==
  ASSUME NEW f
  PROVE  /\ Shape(f).fmt = f.fmt /\ Shape(f).len = f.len /\ Shape(f).cfg = f.cfg /\ Shape(f).dump = f.dump
         /\ Shape(f).owner \in Inner <=> f.owner \in Inner
         /\ f.owner \in Inner => Shape(f).owner = f.owner /\ Shape(f).rest = f.rest
         /\ f.owner \in Inner => Shape(f) = Form(f.fmt, f.len, f.cfg, f.dump, f.owner, f.rest)
  BY DEF Shape, Form, Inner

LEMMA ShapesAre ==
  ASSUME NEW st \in Seq(Frames)
  PROVE  /\ Shapes(st) \in Seq({Shape(f) : f \in Frames}) /\ Len(Shapes(st)) = Len(st)
         /\ \A k \in 1 .. Len(st) : Shapes(st)[k] = Shape(st[k])
         /\ st # <<>> => Shapes(st)[1] = Shape(st[1])
  <1> DEFINE n == Len(st)
             z == [k \in 1 .. n |-> Shape(st[k])]
             V == {Shape(f) : f \in Frames}
  <1>1. n \in Nat /\ \A k \in 1 .. n : st[k] \in Frames
    OBVIOUS
  <1>2. \A k \in 1 .. n : Shape(st[k]) \in V
    BY <1>1
  <1>3. z \in Seq(V) /\ Len(z) = n /\ \A k \in 1 .. n : z[k] = Shape(st[k])
    <2> HIDE DEF V, n
    <2>1. QED
      BY <1>1, <1>2
  <1>4. Shapes(st) = z
    BY Zenon DEF Shapes
  <1>5. st # <<>> => 1 \in 1 .. n
    BY <1>1
  <1> HIDE DEF z, V
  <1>6. QED
    BY <1>3, <1>4, <1>5 DEF V

\* Two sequences of shapes are the same when their elements are.
LEMMA SameShapes ==
  ASSUME NEW V, NEW a \in Seq(V), NEW b \in Seq(V), Len(a) = Len(b), \A k \in 1 .. Len(a) : a[k] = b[k]
  PROVE  a = b
  BY SeqEqual

\* One in front of others.
LEMMA InFront ==
  ASSUME NEW V, NEW x \in V, NEW b \in Seq(V), NEW n \in Nat, Len(b) = n
  PROVE  /\ <<x>> \o b \in Seq(V) /\ Len(<<x>> \o b) = 1 + n
         /\ \A k \in 1 .. 1 + n : (<<x>> \o b)[k] = IF k = 1 THEN x ELSE b[k - 1]
  <1> DEFINE a == <<x>>
             z == a \o b
  <1>1. a \in Seq(V) /\ Len(a) = 1 /\ a[1] = x
    OBVIOUS
  <1> HIDE DEF a
  <1>2. /\ z \in Seq(V) /\ Len(z) = 1 + n
        /\ \A k \in 1 .. 1 + n : z[k] = IF k <= Len(a) THEN a[k] ELSE b[k - Len(a)]
    <2>1. z \in Seq(V) /\ Len(z) = Len(a) + Len(b)
      BY <1>1, ConcatProperties
    <2>2. \A k \in 1 .. Len(a) + Len(b) : z[k] = IF k <= Len(a) THEN a[k] ELSE b[k - Len(a)]
      BY <1>1, ConcatProperties
    <2> HIDE DEF z
    <2>3. QED
      BY <1>1, <2>1, <2>2
  <1> HIDE DEF z
  <1>3. ASSUME NEW k \in 1 .. 1 + n PROVE z[k] = IF k = 1 THEN x ELSE b[k - 1]
    <2>1. CASE k = 1
      BY <1>1, <1>2, <2>1
    <2>2. CASE k # 1
      <3>1. ~ (k <= Len(a)) /\ Len(a) = 1
        BY <1>1, <2>2
      <3>2. QED
        BY <1>2, <2>2, <3>1
    <2>3. QED
      BY <2>1, <2>2
  <1>4. QED
    BY <1>2, <1>3 DEF z, a

\* A call on top.
LEMMA PushShape ==
  ASSUME NEW S, NEW owner, NEW rest, NEW st, Runs(st, S, owner, rest),
         NEW g \in Frames, Tame(g, S), g.owner \in Inner
  PROVE  /\ Runs(On(g, st), S, owner, rest)
         /\ Shapes(On(g, st)) = On(Form(g.fmt, g.len, g.cfg, g.dump, g.owner, g.rest), Shapes(st))
  <1> DEFINE z == On(g, st)
             V == {Shape(f) : f \in Frames}
             n == Len(st)
             p == On(Shape(g), Shapes(st))
  <1>1. st \in Seq(Frames) /\ st # <<>> /\ n \in Nat /\ n > 0
    BY DEF Runs
  <1>3. z \in Seq(Frames) /\ Len(z) = 1 + n /\ \A k \in 1 .. 1 + n : z[k] = IF k = 1 THEN g ELSE st[k - 1]
    BY <1>1, InFront DEF On
  <1>4. Shapes(z) \in Seq(V) /\ Len(Shapes(z)) = Len(z) /\ \A k \in 1 .. Len(z) : Shapes(z)[k] = Shape(z[k])
    <2> HIDE DEF z
    <2>1. QED
      BY <1>3, ShapesAre
  <1>5. Shapes(st) \in Seq(V) /\ Len(Shapes(st)) = n /\ \A k \in 1 .. n : Shapes(st)[k] = Shape(st[k])
    BY <1>1, ShapesAre
  <1>6. Shape(g) \in V
    OBVIOUS
  <1> HIDE DEF V, z, n
  <1>7. p \in Seq(V) /\ Len(p) = 1 + n
          /\ \A k \in 1 .. 1 + n : p[k] = IF k = 1 THEN Shape(g) ELSE Shapes(st)[k - 1]
    BY <1>1, <1>5, <1>6, InFront DEF On
  <1> HIDE DEF p
  <1>8. Shapes(z) = p
    <2>1. ASSUME NEW k \in 1 .. 1 + n PROVE Shapes(z)[k] = p[k]
      <3>1. CASE k = 1
        BY <1>3, <1>4, <1>7, <3>1
      <3>2. CASE k # 1
        <4>1. k - 1 \in 1 .. n
          BY <1>1, <3>2
        <4>2. QED
          BY <1>3, <1>4, <1>5, <1>7, <3>2, <4>1
      <3>3. QED
        BY <3>1, <3>2
    <2>2. Len(Shapes(z)) = 1 + n
      BY <1>3, <1>4
    <2>3. QED
      BY <1>4, <1>7, <2>1, <2>2, SameShapes
  <1>9. Runs(z, S, owner, rest)
    <2>1. z # <<>>
      BY <1>1, <1>3
    <2>2. ASSUME NEW k \in 1 .. Len(z) PROVE Tame(z[k], S)
      <3>1. CASE k = 1
        BY <1>3, <3>1
      <3>2. CASE k # 1
        <4>1. k - 1 \in 1 .. n
          BY <1>1, <1>3, <3>2
        <4>2. QED
          BY <1>3, <3>2, <4>1 DEF Runs, n
      <3>3. QED
        BY <3>1, <3>2
    <2>3. z[Len(z)] = st[n]
      BY <1>1, <1>3
    <2>4. QED
      BY <1>3, <2>1, <2>2, <2>3 DEF Runs, n
  <1>10. Shape(g) = Form(g.fmt, g.len, g.cfg, g.dump, g.owner, g.rest)
    BY ShapeHas
  <1>11. QED
    BY <1>8, <1>9, <1>10 DEF z, p

\* A call less.
LEMMA PopShape ==
  ASSUME NEW S, NEW owner, NEW rest, NEW st, Runs(st, S, owner, rest), Len(st) > 1
  PROVE  /\ Runs(Rest(st), S, owner, rest)
         /\ Shapes(Rest(st)) = Rest(Shapes(st))
         /\ Rest(st)[1] = st[2]
  <1> DEFINE t == Rest(st)
             V == {Shape(f) : f \in Frames}
             n == Len(st)
             p == Rest(Shapes(st))
  <1>1. st \in Seq(Frames) /\ st # <<>> /\ n \in Nat /\ n > 1
    BY DEF Runs
  <1>2. t \in Seq(Frames) /\ Len(t) = n - 1 /\ \A k \in 1 .. n - 1 : t[k] = st[k + 1]
    BY <1>1 DEF Rest
  <1>3. Shapes(st) \in Seq(V) /\ Len(Shapes(st)) = n /\ \A k \in 1 .. n : Shapes(st)[k] = Shape(st[k])
    BY <1>1, ShapesAre
  <1> HIDE DEF t
  <1>4. Shapes(t) \in Seq(V) /\ Len(Shapes(t)) = n - 1 /\ \A k \in 1 .. n - 1 : Shapes(t)[k] = Shape(t[k])
    BY <1>2, ShapesAre
  <1> HIDE DEF V, n
  <1>5. p \in Seq(V) /\ Len(p) = n - 1 /\ \A k \in 1 .. n - 1 : p[k] = Shapes(st)[k + 1]
    <2> DEFINE a == Shapes(st)
    <2>1. a \in Seq(V) /\ Len(a) = n /\ a # <<>>
      BY <1>1, <1>3
    <2> HIDE DEF a
    <2>2. Tail(a) \in Seq(V) /\ Len(Tail(a)) = n - 1 /\ \A k \in 1 .. n - 1 : Tail(a)[k] = a[k + 1]
      BY <1>1, <2>1
    <2>3. QED
      BY <2>2 DEF a, Rest
  <1> HIDE DEF p
  <1>6. \A k \in 1 .. n - 1 : k + 1 \in 1 .. n
    BY <1>1
  <1>7. Shapes(t) = p
    <2>1. \A k \in 1 .. Len(Shapes(t)) : Shapes(t)[k] = p[k]
      BY <1>2, <1>3, <1>4, <1>5, <1>6
    <2>2. QED
      BY <1>4, <1>5, <2>1, SameShapes
  <1>8. Runs(t, S, owner, rest)
    <2>1. t # <<>>
      BY <1>1, <1>2
    <2>2. \A k \in 1 .. Len(t) : Tame(t[k], S)
      BY <1>2, <1>6 DEF Runs, n
    <2>3. t[Len(t)] = st[n]
      BY <1>1, <1>2
    <2>4. QED
      BY <1>2, <2>1, <2>2, <2>3 DEF Runs, n
  <1>9. t[1] = st[2]
    BY <1>1, <1>2
  <1>10. QED
    BY <1>7, <1>8, <1>9 DEF t, p

\* The innermost call has got on.
LEMMA TopShape ==
  ASSUME NEW S, NEW owner, NEW rest, NEW st, Runs(st, S, owner, rest),
         NEW g \in Frames, g.fmt \in Seq(S), g.owner = st[1].owner, g.rest = st[1].rest
  PROVE  /\ Runs(On(g, Rest(st)), S, owner, rest)
         /\ Shapes(On(g, Rest(st))) = Top(Shapes(st), g.fmt, g.len, g.cfg, g.dump)
         /\ (On(g, Rest(st)))[1] = g
  <1> DEFINE n == Len(st)
             t == Rest(st)
             f == st[1]
  <1>1. st \in Seq(Frames) /\ st # <<>> /\ n \in Nat /\ n > 0 /\ f \in Frames
    BY DEF Runs
  <1>2. Shapes(st)[1] = Shape(f) /\ Len(Shapes(st)) = n
          /\ Shapes(st) \in Seq({Shape(h) : h \in Frames})
    BY <1>1, ShapesAre
  <1>3. Onto(Shape(f), g.fmt, g.len, g.cfg, g.dump) = Shape(g)
    BY DEF Onto, Shape, Form
  <1>4. t \in Seq(Frames) /\ Len(t) = n - 1 /\ \A k \in 1 .. n - 1 : t[k] = st[k + 1]
    BY <1>1 DEF Rest
  <1> DEFINE z == On(g, t)
             V == {Shape(h) : h \in Frames}
             b == Rest(Shapes(st))
             p == On(Shape(g), b)
  <1>5. z \in Seq(Frames) /\ Len(z) = n /\ \A k \in 1 .. n : z[k] = IF k = 1 THEN g ELSE st[k]
    <2> HIDE DEF t
    <2> DEFINE l == n - 1
    <2>1. l \in Nat /\ Len(t) = l /\ 1 + l = n
      BY <1>1, <1>4
    <2> HIDE DEF l, n
    <2>2. z \in Seq(Frames) /\ Len(z) = 1 + l /\ \A k \in 1 .. 1 + l : z[k] = IF k = 1 THEN g ELSE t[k - 1]
      BY <1>4, <2>1, InFront DEF On
    <2> HIDE DEF z
    <2>3. ASSUME NEW k \in 1 .. n, k # 1 PROVE t[k - 1] = st[k]
      <3>1. k - 1 \in 1 .. n - 1 /\ (k - 1) + 1 = k
        BY <1>1, <2>3
      <3>2. QED
        BY <1>4, <3>1
    <2>4. QED
      BY <2>1, <2>2, <2>3
  <1> HIDE DEF z, t
  <1>6. Shapes(z) \in Seq(V) /\ Len(Shapes(z)) = n /\ \A k \in 1 .. n : Shapes(z)[k] = Shape(z[k])
    BY <1>5, ShapesAre
  <1>7. \A k \in 1 .. n : Shapes(st)[k] = Shape(st[k])
    BY <1>1, ShapesAre
  <1>8. Shape(g) \in V
    OBVIOUS
  <1>9. b \in Seq(V) /\ Len(b) = n - 1 /\ \A k \in 1 .. n - 1 : b[k] = Shapes(st)[k + 1]
    <2> DEFINE y == Shapes(st)
    <2>1. y \in Seq(V) /\ Len(y) = n /\ y # <<>>
      BY <1>1, <1>2
    <2> HIDE DEF y, V
    <2>2. Tail(y) \in Seq(V) /\ Len(Tail(y)) = n - 1 /\ \A k \in 1 .. n - 1 : Tail(y)[k] = y[k + 1]
      BY <1>1, <2>1
    <2>3. QED
      BY <2>2 DEF y, Rest
  <1> HIDE DEF b, V, n
  <1>10. p \in Seq(V) /\ Len(p) = n /\ \A k \in 1 .. n : p[k] = IF k = 1 THEN Shape(g) ELSE b[k - 1]
    <2> DEFINE l == n - 1
    <2>1. l \in Nat /\ Len(b) = l /\ 1 + l = n
      BY <1>1, <1>9
    <2> HIDE DEF l
    <2>2. p \in Seq(V) /\ Len(p) = 1 + l /\ \A k \in 1 .. 1 + l : p[k] = IF k = 1 THEN Shape(g) ELSE b[k - 1]
      BY <1>8, <1>9, <2>1, InFront DEF On
    <2>3. QED
      BY <2>1, <2>2
  <1> HIDE DEF p
  <1>11. Shapes(z) = p
    <2>1. ASSUME NEW k \in 1 .. n PROVE Shapes(z)[k] = p[k]
      <3>1. CASE k = 1
        BY <1>5, <1>6, <1>10, <3>1
      <3>2. CASE k # 1
        <4>1. k - 1 \in 1 .. n - 1 /\ (k - 1) + 1 = k
          BY <1>1, <3>2
        <4>2. b[k - 1] = Shapes(st)[k]
          BY <1>9, <4>1
        <4>3. p[k] = b[k - 1] /\ z[k] = st[k]
          BY <1>5, <1>10, <3>2
        <4>4. QED
          BY <1>6, <1>7, <4>2, <4>3
      <3>3. QED
        BY <3>1, <3>2
    <2>2. QED
      BY <1>6, <1>10, <2>1, SameShapes
  <1>12. Runs(z, S, owner, rest)
    <2>1. z # <<>>
      BY <1>1, <1>5
    <2>2. ASSUME NEW k \in 1 .. n PROVE Tame(z[k], S)
      <3>1. Tame(st[k], S) /\ Tame(f, S)
        BY <1>1 DEF Runs, n
      <3>2. QED
        BY <1>5, <3>1 DEF Tame
    <2>3. z[n].owner = st[n].owner /\ z[n].rest = st[n].rest
      BY <1>1, <1>5
    <2>4. QED
      BY <1>5, <2>1, <2>2, <2>3 DEF Runs, n
  <1>13. z[1] = g
    BY <1>1, <1>5
  <1>14. p = Top(Shapes(st), g.fmt, g.len, g.cfg, g.dump)
    BY <1>2, <1>3 DEF Top, p, b
  <1>15. QED
    BY <1>11, <1>12, <1>13, <1>14 DEF z, t

\* What pieces leave of the innermost call.
LEMMA ToldIs ==
  ASSUME IInv, stack # <<>>, NEW pieces \in Seq(Seq(Char))
  PROVE  LET y == EmitAll(State, pieces)
             f == stack[1]
         IN  /\ y \in States /\ y.f \in Frames
             /\ y.f.fmt = f.fmt /\ y.f.cfg = f.cfg /\ y.f.dump = f.dump
             /\ y.f.owner = f.owner /\ y.f.rest = f.rest
             /\ y.f.len = f.len + Size(pieces)
  <1> DEFINE y == EmitAll(State, pieces)
             f == stack[1]
  <1>1. State = Seen(mem, stream, faults, f) /\ f \in Frames
    BY TopOf
  <1>2. Holds(State, room) /\ State.f = f /\ room \in Int
    BY <1>1, TopHolds DEF IInv, Good, Seen
  <1> HIDE DEF f
  <1>3. Holds(y, room) /\ Grown(State, y, room)
    BY <1>2, EmitAllIs
  <1>4. y.f.len = f.len + Size(pieces)
    BY <1>2, SizeIs
  <1> HIDE DEF y
  <1>5. y \in States /\ y.f \in Frames
    BY <1>3 DEF Holds, States
  <1>6. y.f = [f EXCEPT !.len = y.f.len, !.outpos = y.f.outpos]
    BY <1>2, <1>3 DEF Grown
  <1>7. /\ y.f.fmt = f.fmt /\ y.f.cfg = f.cfg /\ y.f.dump = f.dump
        /\ y.f.owner = f.owner /\ y.f.rest = f.rest
    BY <1>1, <1>6 DEF Frames
  <1>8. QED
    BY <1>4, <1>5, <1>7 DEF y, f

Turned(S, owner, rest) == Runs(stack', S, owner, rest) /\ Turns(Shapes(stack), Shapes(stack'))

\* What an item turns the shapes into is what is to be shown.
LEMMA ReadShape ==
  ASSUME IInv, NEW kind, Reads(kind), NEW S, NEW owner, NEW rest, Runs(stack, S, owner, rest)
  PROVE  LET p == Shapes(stack)
             f == stack[1]
         IN  /\ p[1].fmt = f.fmt /\ p[1].len = f.len /\ p[1].cfg = f.cfg /\ p[1].dump = NoDump
             /\ Item \in S /\ Tail(f.fmt) \in Seq(S) /\ f.fmt # <<>> /\ f \in Frames /\ f.dump = NoDump
             /\ \A q : ItemTurns(p, q, Item) => Turns(p, q)
  <1> DEFINE p == Shapes(stack)
             f == stack[1]
  <1>1. stack # <<>> /\ Item.kind = kind /\ f.fmt # <<>> /\ f.dump = NoDump
    BY ReadsIs
  <1>2. stack \in Seq(Frames) /\ f \in Frames /\ Head(stack) = f
    BY <1>1, TopOf
  <1>3. p[1] = Shape(f)
    BY <1>1, <1>2, ShapesAre
  <1>4. p[1].fmt = f.fmt /\ p[1].len = f.len /\ p[1].cfg = f.cfg /\ p[1].dump = NoDump
    BY <1>1, <1>3, ShapeHas
  <1>5. f.fmt \in Seq(S)
    <2>1. 1 \in 1 .. Len(stack)
      BY <1>1, <1>2
    <2>2. QED
      BY <2>1 DEF Runs, Tame
  <1>6. Item = Head(f.fmt)
    BY <1>2 DEF Item
  <1> HIDE DEF p, f
  <1>7. Item \in S /\ Tail(f.fmt) \in Seq(S)
    BY <1>1, <1>5, <1>6
  <1>8. \A q : ItemTurns(p, q, Item) => Turns(p, q)
    BY <1>1, <1>4, <1>6, Zenon DEF Turns
  <1>9. QED
    BY <1>1, <1>2, <1>4, <1>7, <1>8 DEF p, f

\* A conversion that prints its pieces.
LEMMA PrintShape ==
  ASSUME IInv, NEW kind, Reads(kind), NEW pieces \in Seq(Seq(Char)),
         Prints(State, pieces) \/ Prints(Placed(State), pieces),
         NEW S, NEW owner, NEW rest, Runs(stack, S, owner, rest)
  PROVE  Runs(stack', S, owner, rest) /\ Shapes(stack') = PrintTurn(Shapes(stack), pieces)
  <1> DEFINE y == EmitAll(State, pieces)
             g == Next1(y.f)
             f == stack[1]
             p == Shapes(stack)
  <1>1. stack # <<>> /\ f.fmt # <<>> /\ f.dump = NoDump
    BY ReadsIs
  <1>2. Prints(State, pieces)
    BY <1>1, TopOf
  <1>3. /\ y \in States /\ y.f \in Frames /\ y.f.fmt = f.fmt /\ y.f.cfg = f.cfg /\ y.f.dump = f.dump
        /\ y.f.owner = f.owner /\ y.f.rest = f.rest /\ y.f.len = f.len + Size(pieces)
    BY <1>1, ToldIs
  <1>4. stack' = <<g>> \o Tail(stack)
    <2> DEFINE u == [y EXCEPT !.f = Next1(@)]
    <2>1. Becomes(u, Tail(stack))
      BY <1>2, Zenon DEF Prints
    <2> HIDE DEF y
    <2>2. u.f = Next1(y.f)
      BY <1>3 DEF States
    <2> HIDE DEF u
    <2>3. QED
      BY <2>1, <2>2 DEF Becomes
  <1>5. /\ p[1].fmt = f.fmt /\ p[1].len = f.len /\ p[1].cfg = f.cfg
        /\ Tail(f.fmt) \in Seq(S)
    BY ReadShape
  <1> HIDE DEF y, f, p
  <1>6. g \in Frames /\ g = [y.f EXCEPT !.fmt = Tail(y.f.fmt)]
    BY <1>1, <1>3, NextIs
  <1> HIDE DEF g
  <1>7. /\ g.fmt = Tail(f.fmt) /\ g.len = f.len + Size(pieces) /\ g.cfg = f.cfg /\ g.dump = NoDump
        /\ g.owner = f.owner /\ g.rest = f.rest
    BY <1>1, <1>3, <1>6 DEF Frames
  <1>8. g \in Frames /\ g.fmt \in Seq(S) /\ g.owner = stack[1].owner /\ g.rest = stack[1].rest
    BY <1>5, <1>6, <1>7 DEF f
  <1>9. Runs(stack', S, owner, rest) /\ Shapes(stack') = Top(p, g.fmt, g.len, g.cfg, g.dump)
    <2> DEFINE z == On(g, Rest(stack))
    <2>1. Runs(z, S, owner, rest) /\ Shapes(z) = Top(Shapes(stack), g.fmt, g.len, g.cfg, g.dump)
      BY <1>8, TopShape
    <2> HIDE DEF z
    <2>2. stack' = z
      BY <1>4, Zenon DEF z, On, Rest
    <2>3. QED
      BY <2>1, <2>2, Zenon DEF p
  <1>10. Top(p, g.fmt, g.len, g.cfg, g.dump) = PrintTurn(p, pieces)
    BY <1>5, <1>7 DEF PrintTurn
  <1>11. QED
    BY <1>9, <1>10 DEF p

LEMMA LiteralTurns ==
  ASSUME IInv, Literal, NEW S, NEW owner, NEW rest, Runs(stack, S, owner, rest)
  PROVE  Turned(S, owner, rest)
  <1>1. Reads("lit") /\ Prints(State, <<Item.text>>)
    BY DEF Literal
  <1>2. Item.text \in Seq(Char) /\ Item.kind = "lit"
    BY <1>1, ReadsIs, KindIs
  <1>3. <<Item.text>> \in Seq(Seq(Char))
    BY <1>2
  <1>4. Runs(stack', S, owner, rest) /\ Shapes(stack') = PrintTurn(Shapes(stack), <<Item.text>>)
    BY <1>1, <1>3, PrintShape
  <1>5. ItemTurns(Shapes(stack), Shapes(stack'), Item)
    BY <1>2, <1>4 DEF ItemTurns
  <1>6. QED
    BY <1>1, <1>4, <1>5, ReadShape DEF Turned

LEMMA TextTurns ==
  ASSUME IInv, Text, NEW S, NEW owner, NEW rest, Runs(stack, S, owner, rest)
  PROVE  Turned(S, owner, rest)
  <1>1. Reads("str") /\ Prints(Placed(State), TextPieces(Item))
    BY DEF Text
  <1>2. Item \in StrItems /\ Item.kind = "str"
    BY <1>1, ReadsIs, KindIs
  <1>3. TextPieces(Item) \in Seq(Seq(Char))
    BY <1>2, TextPiecesText
  <1>4. Runs(stack', S, owner, rest) /\ Shapes(stack') = PrintTurn(Shapes(stack), TextPieces(Item))
    BY <1>1, <1>3, PrintShape
  <1>5. ItemTurns(Shapes(stack), Shapes(stack'), Item)
    BY <1>2, <1>4 DEF ItemTurns
  <1>6. QED
    BY <1>1, <1>4, <1>5, ReadShape DEF Turned

LEMMA NumericTurns ==
  ASSUME IInv, Numeric, NEW S, NEW owner, NEW rest, Runs(stack, S, owner, rest)
  PROVE  Turned(S, owner, rest)
  <1> DEFINE pieces == NumberPieces(stack[1].cfg, Item)
  <1>1. Reads("num") /\ Prints(Placed(State), NumberPieces(Head(stack).cfg, Item))
    BY DEF Numeric
  <1>2. Item \in IntItems \cup FloatItems /\ stack # <<>> /\ Item.kind = "num"
    BY <1>1, ReadsIs, KindIs
  <1>3. Head(stack) = stack[1] /\ stack[1].cfg \in Cfgs
    BY <1>2, TopOf, FrameHas DEF DumpCfgs
  <1>4. pieces \in Seq(Seq(Char))
    BY <1>2, <1>3, NumberPiecesText
  <1>5. Prints(Placed(State), pieces)
    BY <1>1, <1>3
  <1>6. Shapes(stack)[1].cfg = stack[1].cfg
    BY <1>1, ReadShape
  <1> HIDE DEF pieces
  <1>7. Runs(stack', S, owner, rest) /\ Shapes(stack') = PrintTurn(Shapes(stack), pieces)
    BY <1>1, <1>4, <1>5, PrintShape
  <1>8. ItemTurns(Shapes(stack), Shapes(stack'), Item)
    BY <1>2, <1>6, <1>7 DEF ItemTurns, pieces
  <1>9. QED
    BY <1>1, <1>7, <1>8, ReadShape DEF Turned

LEMMA RepeatTurns ==
  ASSUME IInv, Repeat, NEW S, NEW owner, NEW rest, Runs(stack, S, owner, rest)
  PROVE  Turned(S, owner, rest)
  <1> DEFINE n == IF Item.width < 0 THEN 0 ELSE Item.width
             pieces == [i \in 1 .. Item.width |-> Item.text]
  <1>1. Reads("n") /\ Prints(Placed(State), pieces)
    BY DEF Repeat
  <1>2. Item.text \in Seq(Char) /\ Item.width \in Int /\ Item.kind = "n"
    BY <1>1, ReadsIs, KindIs
  <1>3. n \in Nat /\ 1 .. n = 1 .. Item.width
    BY <1>2
  <1>4. pieces = [i \in 1 .. n |-> Item.text]
    BY <1>3, Zenon
  <1> HIDE DEF n
  <1>5. pieces \in Seq(Seq(Char))
    <2>1. [i \in 1 .. n |-> Item.text] \in Seq(Seq(Char))
      BY <1>2, <1>3
    <2>2. QED
      BY <1>4, <2>1
  <1> HIDE DEF pieces
  <1>6. Runs(stack', S, owner, rest) /\ Shapes(stack') = PrintTurn(Shapes(stack), pieces)
    BY <1>1, <1>5, PrintShape
  <1>7. ItemTurns(Shapes(stack), Shapes(stack'), Item)
    BY <1>2, <1>6, Zenon DEF ItemTurns, pieces
  <1>8. QED
    BY <1>1, <1>6, <1>7, ReadShape DEF Turned

\* The innermost call has got on, in the state.
LEMMA OntoIs ==
  ASSUME NEW g \in Frames, stack' = <<g>> \o Tail(stack),
         NEW S, NEW owner, NEW rest, Runs(stack, S, owner, rest),
         g.fmt \in Seq(S), g.owner = stack[1].owner, g.rest = stack[1].rest
  PROVE  Runs(stack', S, owner, rest) /\ Shapes(stack') = Top(Shapes(stack), g.fmt, g.len, g.cfg, g.dump)
  <1> DEFINE z == On(g, Rest(stack))
  <1>1. Runs(z, S, owner, rest) /\ Shapes(z) = Top(Shapes(stack), g.fmt, g.len, g.cfg, g.dump)
    BY TopShape
  <1>2. stack' = z
    BY Zenon DEF On, Rest
  <1> HIDE DEF z
  <1>3. QED
    BY <1>1, <1>2, Zenon

LEMMA ClearedIs ==
  ASSUME NEW f \in Frames, f.fmt # <<>>
  PROVE  LET g == AfterDump(f)
         IN  /\ g \in Frames /\ g.fmt = Tail(f.fmt) /\ g.len = f.len /\ g.cfg = Cleared(f.cfg)
             /\ g.dump = NoDump /\ g.owner = f.owner /\ g.rest = f.rest
  <1> DEFINE h == Next1(f)
             g == AfterDump(f)
             cfg == Cleared(f.cfg)
  <1>1. h \in Frames /\ h = [f EXCEPT !.fmt = Tail(f.fmt)]
    BY NextIs
  <1>2. h.fmt = Tail(f.fmt) /\ h.len = f.len /\ h.cfg = f.cfg /\ h.owner = f.owner /\ h.rest = f.rest
    BY <1>1 DEF Frames
  <1>3. g = [h EXCEPT !.dump = NoDump, !.cfg = [@ EXCEPT !.addr = 0, !.iso = FALSE]]
    BY Zenon DEF AfterDump
  <1> HIDE DEF h
  <1>4. g = [h EXCEPT !.dump = NoDump, !.cfg = cfg]
    <2>1. [h.cfg EXCEPT !.addr = 0, !.iso = FALSE] = cfg
      BY <1>2, Zenon DEF Cleared
    <2> HIDE DEF g, cfg
    <2>2. QED
      BY <1>3, <2>1
  <1> HIDE DEF cfg
  <1>5. g \in Frames
    BY AfterDumpIs
  <1> HIDE DEF g
  <1>6. /\ g.fmt = h.fmt /\ g.len = h.len /\ g.cfg = cfg
        /\ g.dump = NoDump /\ g.owner = h.owner /\ g.rest = h.rest
    BY <1>1, <1>4 DEF Frames
  <1>7. QED
    BY <1>2, <1>5, <1>6 DEF g, cfg

LEMMA SettingTurns ==
  ASSUME IInv, Setting, NEW S, NEW owner, NEW rest, Runs(stack, S, owner, rest)
  PROVE  Turned(S, owner, rest)
  <1> DEFINE f == stack[1]
             cfg == Set(f.cfg, Item)
             h == Next1(f)
             g == [h EXCEPT !.cfg = cfg]
             p == Shapes(stack)
  <1>1. Reads("set")
    BY DEF Setting
  <1>2. stack # <<>> /\ Item \in SetItems /\ Item.kind = "set" /\ f.fmt # <<>> /\ f.dump = NoDump
    BY <1>1, ReadsIs, KindIs
  <1>3. Head(stack) = f /\ f \in Frames /\ State = Seen(mem, stream, faults, f) /\ Placed(State) = State
    BY <1>2, TopOf
  <1>4. cfg \in DumpCfgs
    BY <1>2, <1>3, SetIs, FrameHas
  <1>5. h \in Frames /\ h = [f EXCEPT !.fmt = Tail(f.fmt)]
    BY <1>2, <1>3, NextIs
  <1>6. stack' = <<g>> \o Tail(stack)
    <2> DEFINE x == [Next1(State.f) EXCEPT !.cfg = Set(State.f.cfg, Item)]
               allowed == Item.conv = "v" => AddressAllowed(Item)
               u == [State EXCEPT !.f = x,
                                  !.faults = IF allowed THEN @ ELSE @ \cup {"adcol_width"}]
    <2>1. Becomes(u, Tail(stack))
      BY <1>3, Zenon DEF Setting
    <2>2. State = [mem |-> mem, stream |-> stream, faults |-> faults, f |-> f]
      BY <1>3 DEF Seen
    <2>3. State.f = f
      BY <2>2
    <2>4. x = g
      BY <2>3, Zenon
    <2> HIDE DEF x, g, allowed
    <2>5. u.f = x
      BY <2>2
    <2> HIDE DEF u
    <2>6. QED
      BY <2>1, <2>4, <2>5 DEF Becomes
  <1>7. p[1].fmt = f.fmt /\ p[1].len = f.len /\ p[1].cfg = f.cfg /\ Tail(f.fmt) \in Seq(S)
    BY <1>1, ReadShape
  <1> HIDE DEF cfg, f, h, p
  <1>8. /\ g \in Frames /\ g.fmt = Tail(f.fmt) /\ g.len = f.len /\ g.cfg = cfg /\ g.dump = NoDump
        /\ g.owner = f.owner /\ g.rest = f.rest
    <2>1. /\ h.fmt = Tail(f.fmt) /\ h.len = f.len /\ h.dump = NoDump
          /\ h.owner = f.owner /\ h.rest = f.rest
      BY <1>2, <1>3, <1>5 DEF Frames
    <2>2. QED
      BY <1>4, <1>5, <2>1 DEF Frames
  <1> HIDE DEF g
  <1>9. Runs(stack', S, owner, rest) /\ Shapes(stack') = Top(Shapes(stack), g.fmt, g.len, g.cfg, g.dump)
    BY <1>6, <1>7, <1>8, OntoIs DEF f
  <1>10. Shapes(stack') = SetTurn(p, cfg)
    BY <1>7, <1>8, <1>9 DEF SetTurn, p
  <1>11. ItemTurns(p, Shapes(stack'), Item)
    BY <1>2, <1>7, <1>10 DEF ItemTurns, cfg
  <1>12. QED
    BY <1>1, <1>9, <1>11, ReadShape DEF Turned, p

LEMMA BeginDumpTurns ==
  ASSUME IInv, BeginDump, NEW S, NEW owner, NEW rest, Runs(stack, S, owner, rest)
  PROVE  Turned(S, owner, rest)
  <1> DEFINE f == stack[1]
             s == State
             p == Shapes(stack)
             d == DumpOf(f.cfg, Item)
             pieces == RulerPieces(f.cfg, d)
             y == EmitAll(s, pieces)
  <1>1. Reads("m")
    BY DEF BeginDump
  <1>2. stack # <<>> /\ Item \in DumpItems /\ Item.kind = "m" /\ f.fmt # <<>> /\ f.dump = NoDump
    BY <1>1, ReadsIs, KindIs
  <1>3. f \in Frames /\ State = Seen(mem, stream, faults, f) /\ Placed(State) = State
    BY <1>2, TopOf
  <1>4. s.f = f /\ s = [mem |-> mem, stream |-> stream, faults |-> faults, f |-> f]
    BY <1>3 DEF Seen
  <1>5. p[1].fmt = f.fmt /\ p[1].len = f.len /\ p[1].cfg = f.cfg /\ Tail(f.fmt) \in Seq(S)
    BY <1>1, ReadShape
  <1>6. CASE Item.n <= 0
    <2> DEFINE w == Written(s.mem, f.base + f.len, Fits(f, 1), <<NUL>>)
               done == [s EXCEPT !.mem = w]
               g == AfterDump(f)
               u == [done EXCEPT !.f = AfterDump(@)]
    <2>1. Becomes(u, Tail(stack))
      <3>1. LET t == Placed(State)
                at0 == t.f.base + t.f.len
                done0 == [t EXCEPT !.mem = Written(@, at0, Fits(t.f, 1), <<NUL>>)]
            IN Becomes([done0 EXCEPT !.f = AfterDump(@)], Tail(stack))
        BY <1>6, Zenon DEF BeginDump
      <3>2. QED
        BY <1>3, <1>4, <3>1, Zenon
    <2>2. stack' = <<g>> \o Tail(stack)
      <3> HIDE DEF w
      <3>1. done.f = f /\ done = [mem |-> w, stream |-> stream, faults |-> faults, f |-> f]
        BY <1>4
      <3>2. u = [done EXCEPT !.f = g]
        BY <3>1, Zenon
      <3> HIDE DEF g, done, u
      <3>3. u.f = g
        BY <3>1, <3>2
      <3>4. QED
        BY <2>1, <3>3 DEF Becomes
    <2> HIDE DEF f, p
    <2>3. /\ g \in Frames /\ g.fmt = Tail(f.fmt) /\ g.len = f.len /\ g.cfg = Cleared(f.cfg)
          /\ g.dump = NoDump /\ g.owner = f.owner /\ g.rest = f.rest
      BY <1>2, <1>3, ClearedIs
    <2> HIDE DEF g
    <2>4. Runs(stack', S, owner, rest) /\ Shapes(stack') = Top(Shapes(stack), g.fmt, g.len, g.cfg, g.dump)
      BY <1>5, <2>2, <2>3, OntoIs DEF f
    <2>5. Shapes(stack') = SetTurn(p, Cleared(p[1].cfg))
      BY <1>5, <2>3, <2>4 DEF SetTurn, p
    <2>6. ItemTurns(p, Shapes(stack'), Item)
      BY <1>2, <1>6, <2>5 DEF ItemTurns
    <2>7. QED
      BY <1>1, <2>4, <2>6, ReadShape DEF Turned, p
  <1>7. CASE ~ (Item.n <= 0)
    <2> DEFINE g == [y.f EXCEPT !.dump = d]
               u == [y EXCEPT !.f.dump = d, !.faults = IF d.col.ok THEN @ ELSE @ \cup {"adcol_width"}]
    <2>1. Becomes(u, Tail(stack))
      <3>1. LET t == Placed(State)
                d0 == DumpOf(t.f.cfg, Item)
                done0 == EmitAll(t, RulerPieces(t.f.cfg, d0))
            IN Becomes([done0 EXCEPT !.f.dump = d0,
                                     !.faults = IF d0.col.ok THEN @ ELSE @ \cup {"adcol_width"}],
                       Tail(stack))
        BY <1>7, Zenon DEF BeginDump
      <3>2. QED
        BY <1>3, <1>4, <3>1, Zenon
    <2>2. Item.n > 0 /\ f.cfg \in DumpCfgs
      BY <1>2, <1>3, <1>7, FrameHas DEF DumpItems
    <2>3. d \in Dumps
      BY <1>2, <2>2, DumpOfIs
    <2>4. pieces \in Seq(Seq(Char))
      BY <2>2, <2>3, RulerText DEF DumpCfgs
    <2> HIDE DEF d, pieces
    <2>5. /\ y \in States /\ y.f \in Frames /\ y.f.fmt = f.fmt /\ y.f.cfg = f.cfg
          /\ y.f.owner = f.owner /\ y.f.rest = f.rest /\ y.f.len = f.len + Size(pieces)
      BY <1>2, <2>4, ToldIs
    <2> HIDE DEF y, f, p
    <2>6. u.f = g
      BY <2>5 DEF States
    <2>7. /\ g \in Frames /\ g.fmt = f.fmt /\ g.len = f.len + Size(pieces) /\ g.cfg = f.cfg /\ g.dump = d
          /\ g.owner = f.owner /\ g.rest = f.rest
      BY <2>3, <2>5 DEF Frames
    <2> HIDE DEF g, u
    <2>8. stack' = <<g>> \o Tail(stack)
      BY <2>1, <2>6 DEF Becomes
    <2>9. f.fmt \in Seq(S)
      <3>1. 1 \in 1 .. Len(stack)
        BY <1>2 DEF Runs
      <3>2. QED
        BY <3>1 DEF Runs, Tame, f
    <2>10. Runs(stack', S, owner, rest) /\ Shapes(stack') = Top(Shapes(stack), g.fmt, g.len, g.cfg, g.dump)
      BY <2>7, <2>8, <2>9, OntoIs DEF f
    <2>11. Shapes(stack') = DumpTurn(p, DumpOf(p[1].cfg, Item))
      BY <1>5, <2>7, <2>10 DEF DumpTurn, p, d, pieces
    <2>12. ItemTurns(p, Shapes(stack'), Item)
      BY <1>2, <1>7, <2>11 DEF ItemTurns
    <2>13. QED
      BY <1>1, <2>10, <2>12, ReadShape DEF Turned, p
  <1>8. QED
    BY <1>6, <1>7

LEMMA DumpLineTurns ==
  ASSUME IInv, DumpLine, NEW S, NEW owner, NEW rest, Runs(stack, S, owner, rest)
  PROVE  Turned(S, owner, rest)
  <1> DEFINE f == stack[1]
             d == f.dump
             p == Shapes(stack)
             all == d.consumed + Consumes(d)
             pieces == WholeLine(f)
             y == EmitAll(State, pieces)
             e == LineTaken(d)
             goes == [y.f EXCEPT !.dump = e]
             g == IF all = d.n THEN AfterDump(y.f) ELSE goes
             u == [y EXCEPT !.f = IF all = d.n THEN AfterDump(@) ELSE goes]
  <1>1. stack # <<>> /\ Head(stack).dump # NoDump
    BY DEF DumpLine
  <1>2. Head(stack) = f /\ f \in Frames /\ Dumping(f) /\ stack \in Seq(Frames)
    BY <1>1, TopOf
  <1>3. d \in Dumps /\ d.consumed < d.n /\ f.fmt # <<>> /\ f.cfg \in Cfgs
    BY <1>1, <1>2, FrameHas DEF Dumping, DumpCfgs
  <1>4. Becomes(u, Tail(stack))
    <2>1. LET f0 == Head(stack)
              d0 == f0.dump
              all0 == d0.consumed + Consumes(d0)
              s0 == EmitAll(State, LinePieces(f0.cfg, d0) \o (IF all0 = d0.n THEN <<>> ELSE <<Newline>>))
              goes0 == [s0.f EXCEPT !.dump = [d0 EXCEPT !.consumed = all0, !.skip = NextSkip(d0),
                                                        !.addr = (@ + d0.columns) % AddrEnd]]
          IN Becomes([s0 EXCEPT !.f = IF all0 = d0.n THEN AfterDump(@) ELSE goes0], Tail(stack))
      BY Zenon DEF DumpLine
    <2>2. QED
      BY <1>2, <2>1, Zenon DEF WholeLine, LineTaken
  <1>5. all # d.n => e \in Dumps
    BY <1>3, NextLine DEF LineTaken
  <1>6. pieces \in Seq(Seq(Char))
    <2>1. /\ LinePieces(f.cfg, d) \in Seq(Seq(Char))
          /\ LinePieces(f.cfg, d) \o <<Newline>> \in Seq(Seq(Char))
      BY <1>3, LineText
    <2>2. LinePieces(f.cfg, d) \o <<>> = LinePieces(f.cfg, d)
      BY <2>1, ConcatEmptySeq
    <2>3. QED
      BY <2>1, <2>2 DEF WholeLine
  <1>7. p[1].fmt = f.fmt /\ p[1].len = f.len /\ p[1].cfg = f.cfg /\ p[1].dump = d
    BY <1>1, <1>2, ShapesAre, ShapeHas
  <1>8. f.fmt \in Seq(S)
    <2>1. 1 \in 1 .. Len(stack)
      BY <1>1, <1>2
    <2>2. QED
      BY <2>1 DEF Runs, Tame
  <1>9. WholeLine(p[1]) = pieces
    <2> HIDE DEF f, p, d
    <2>1. QED
      BY <1>7, Zenon DEF WholeLine, d
  <1> HIDE DEF pieces, all, e
  <1>10. /\ y \in States /\ y.f \in Frames /\ y.f.fmt = f.fmt /\ y.f.cfg = f.cfg
         /\ y.f.owner = f.owner /\ y.f.rest = f.rest /\ y.f.len = f.len + Size(pieces)
    BY <1>1, <1>6, ToldIs
  <1> HIDE DEF y
  <1>11. u.f = g
    <2>1. u = [y EXCEPT !.f = g]
      BY Zenon
    <2> HIDE DEF g, u
    <2>2. QED
      BY <1>10, <2>1 DEF States
  <1>12. stack' = <<g>> \o Tail(stack)
    <2> HIDE DEF u, g
    <2>1. QED
      BY <1>4, <1>11 DEF Becomes
  <1> HIDE DEF f, p, d, u
  <1>13. CASE all = d.n
    <2>1. g = AfterDump(y.f)
      BY <1>13
    <2> HIDE DEF g
    <2>2. /\ g \in Frames /\ g.fmt = Tail(f.fmt) /\ g.len = f.len + Size(pieces) /\ g.cfg = Cleared(f.cfg)
          /\ g.dump = NoDump /\ g.owner = f.owner /\ g.rest = f.rest
      BY <1>3, <1>10, <2>1, ClearedIs
    <2>3. g.fmt \in Seq(S)
      BY <1>3, <1>8, <2>2
    <2>4. Runs(stack', S, owner, rest) /\ Shapes(stack') = Top(Shapes(stack), g.fmt, g.len, g.cfg, g.dump)
      BY <1>12, <2>2, <2>3, OntoIs DEF f
    <2>5. Shapes(stack') = LineTurn(p)
      BY <1>7, <1>9, <1>13, <2>2, <2>4 DEF LineTurn, p, all
    <2>6. QED
      BY <1>1, <1>2, <1>7, <2>4, <2>5 DEF Turned, Turns, d, p
  <1>14. CASE all # d.n
    <2>1. g = goes
      BY <1>14
    <2> HIDE DEF g
    <2>2. /\ g \in Frames /\ g.fmt = f.fmt /\ g.len = f.len + Size(pieces) /\ g.cfg = f.cfg
          /\ g.dump = e /\ g.owner = f.owner /\ g.rest = f.rest
      BY <1>5, <1>10, <1>14, <2>1 DEF Frames
    <2>3. Runs(stack', S, owner, rest) /\ Shapes(stack') = Top(Shapes(stack), g.fmt, g.len, g.cfg, g.dump)
      BY <1>8, <1>12, <2>2, OntoIs DEF f
    <2>4. Shapes(stack') = LineTurn(p)
      BY <1>7, <1>9, <1>14, <2>2, <2>3 DEF LineTurn, p, all, e
    <2>5. QED
      BY <1>1, <1>2, <1>7, <2>3, <2>4 DEF Turned, Turns, d, p
  <1>15. QED
    BY <1>13, <1>14

\* A call made in the innermost one.
LEMMA TwoInFront ==
  ASSUME NEW g \in Frames, NEW f \in Frames, NEW t \in Seq(Frames)
  PROVE  <<g, f>> \o t = On(g, On(f, t))
  <1>1. <<g>> \in Seq(Frames) /\ <<f>> \in Seq(Frames)
    OBVIOUS
  <1>2. <<g>> \o (<<f>> \o t) = (<<g>> \o <<f>>) \o t
    BY <1>1, ConcatAssociative
  <1>3. <<g>> \o <<f>> = <<g, f>>
    BY Pair
  <1>4. QED
    BY <1>2, <1>3 DEF On

\* The innermost call goes on behind its item.
LEMMA GoesOnShape ==
  ASSUME IInv, NEW kind, Reads(kind), NEW S, NEW owner, NEW rest, Runs(stack, S, owner, rest)
  PROVE  LET f == Next1(stack[1])
             z == On(f, Rest(stack))
         IN  /\ f \in Frames /\ Runs(z, S, owner, rest)
             /\ Shapes(z) = SetTurn(Shapes(stack), Shapes(stack)[1].cfg)
  <1> DEFINE top == stack[1]
             f == Next1(top)
             z == On(f, Rest(stack))
             p == Shapes(stack)
  <1>1. stack # <<>> /\ top.fmt # <<>> /\ top.dump = NoDump /\ top \in Frames
    BY ReadsIs, TopOf
  <1>2. f \in Frames /\ f = [top EXCEPT !.fmt = Tail(top.fmt)]
    BY <1>1, NextIs
  <1>3. p[1].fmt = top.fmt /\ p[1].len = top.len /\ p[1].cfg = top.cfg /\ Tail(top.fmt) \in Seq(S)
    BY ReadShape
  <1> HIDE DEF f, p, top
  <1>4. /\ f.fmt = Tail(top.fmt) /\ f.len = top.len /\ f.cfg = top.cfg /\ f.dump = NoDump
        /\ f.owner = top.owner /\ f.rest = top.rest
    BY <1>1, <1>2 DEF Frames
  <1>5. Runs(z, S, owner, rest) /\ Shapes(z) = Top(Shapes(stack), f.fmt, f.len, f.cfg, f.dump)
    <2>1. f \in Frames /\ f.fmt \in Seq(S) /\ f.owner = stack[1].owner /\ f.rest = stack[1].rest
      BY <1>2, <1>3, <1>4 DEF top
    <2> HIDE DEF z
    <2>2. Runs(On(f, Rest(stack)), S, owner, rest)
            /\ Shapes(On(f, Rest(stack))) = Top(Shapes(stack), f.fmt, f.len, f.cfg, f.dump)
      BY <2>1, TopShape
    <2>3. QED
      BY <2>2, Zenon DEF z
  <1> HIDE DEF z
  <1>6. Shapes(z) = SetTurn(p, p[1].cfg)
    BY <1>3, <1>4, <1>5 DEF SetTurn, p
  <1>7. QED
    BY <1>2, <1>5, <1>6 DEF z, p, f, top

LEMMA CallShape ==
  ASSUME IInv, NEW kind, Reads(kind), NEW S, NEW owner, NEW rest, Runs(stack, S, owner, rest),
         NEW fmt \in Fmts, fmt \in Seq(S), NEW own \in Inner,
         NEW more \in Seq(Fmts), more \in Seq(Seq(S)),
         LET f == Next1(stack[1])
         IN  stack' = <<Frame(fmt, f.base + f.len, f.max - f.len, f.stock + f.len, own, more), f>> \o Tail(stack)
  PROVE  Runs(stack', S, owner, rest) /\ Shapes(stack') = CallTurn(Shapes(stack), fmt, own, more)
  <1> DEFINE f == Next1(stack[1])
             z == On(f, Rest(stack))
             base == f.base + f.len
             max == f.max - f.len
             stock == f.stock + f.len
             g == Frame(fmt, base, max, stock, own, more)
             p == Shapes(stack)
  <1>1. f \in Frames /\ Runs(z, S, owner, rest) /\ Shapes(z) = SetTurn(p, p[1].cfg)
    BY GoesOnShape
  <1>2. base \in Nat /\ max \in Int /\ stock \in Nat
    <2> HIDE DEF f
    <2>1. QED
      BY <1>1, FrameHas
  <1>3. stack' = <<g, f>> \o Tail(stack)
    OBVIOUS
  <1>4. Tail(stack) \in Seq(Frames)
    BY DEF Runs
  <1> HIDE DEF f, base, max, stock, p
  <1>5. own \in Owners /\ more \in Seq(Fmts) \cup Seq(Nat)
    BY DEF Inner, Owners
  <1>6. g \in Frames /\ g.fmt = fmt /\ g.len = 0 /\ g.dump = NoDump /\ g.owner = own /\ g.rest = more
    BY <1>2, <1>5, FrameIs
  <1>7. g.cfg = InitialCfg
    BY DEF Frame
  <1> HIDE DEF g
  <1>8. stack' = On(g, z)
    BY <1>1, <1>3, <1>4, <1>6, TwoInFront DEF Rest
  <1> HIDE DEF z
  <1>9. Tame(g, S)
    BY <1>6 DEF Tame
  <1> DEFINE w == On(g, z)
  <1>10. Runs(w, S, owner, rest)
           /\ Shapes(w) = On(Form(g.fmt, g.len, g.cfg, g.dump, g.owner, g.rest), Shapes(z))
    <2>1. g \in Frames /\ g.owner \in Inner
      BY <1>6
    <2>2. QED
      BY <1>1, <1>9, <2>1, PushShape
  <1>11. stack' = w
    BY <1>8
  <1> HIDE DEF w
  <1>12. Shapes(stack') = On(Form(fmt, 0, InitialCfg, NoDump, own, more), SetTurn(p, p[1].cfg))
    BY <1>1, <1>6, <1>7, <1>10, <1>11
  <1>13. QED
    BY <1>10, <1>11, <1>12, Zenon DEF CallTurn, p

\* %w reads what it read before, with a va_list that is not used up or with no number to read.
LEMMA NestTurns ==
  ASSUME IInv, Nest, NEW S, NEW owner, NEW rest, Runs(stack, S, owner, rest),
         ReadTwice(S), ~VaListIsArray => spent = {}
  PROVE  Turned(S, owner, rest)
  <1> DEFINE f == Next1(stack[1])
             inner(fmt) == Frame(fmt, f.base + f.len, f.max - f.len, f.stock + f.len, "w", <<>>)
             p == Shapes(stack)
  <1>1. Reads("w")
    BY DEF Nest
  <1>2. stack # <<>> /\ Item.fmt \in Fmts /\ Item.kind = "w" /\ stack[1].fmt # <<>> /\ stack[1].dump = NoDump
    BY <1>1, ReadsIs, KindIs
  <1>3. Placed(State).f = stack[1]
    <2>1. Placed(State) = Seen(mem, stream, faults, stack[1])
      BY <1>2, TopOf
    <2>2. QED
      BY <2>1 DEF Seen
  <1>4. IF Item.id \in spent
        THEN \E g \in Garbage : stack' = <<inner(Misread(Item.fmt, g)), f>> \o Tail(stack)
        ELSE stack' = <<inner(Item.fmt), f>> \o Tail(stack)
    BY <1>3, Zenon DEF Nest
  <1>5. Item \in S /\ Item.fmt \in Seq(S)
          /\ (VaListIsArray => \A i \in DOMAIN Item.fmt : Item.fmt[i].kind # "num")
    BY <1>1, <1>2, ReadShape DEF ReadTwice
  <1>6. Item.id \in spent => \A g : Misread(Item.fmt, g) = Item.fmt
    <2> HAVE Item.id \in spent
    <2>1. \A i \in DOMAIN Item.fmt : Item.fmt[i].kind # "num"
      BY <1>5
    <2> TAKE g
    <2> DEFINE a(i) == IF Item.fmt[i].kind = "num" THEN [Item.fmt[i] EXCEPT !.value = g] ELSE Item.fmt[i]
    <2>2. Misread(Item.fmt, g) = [i \in DOMAIN Item.fmt |-> a(i)]
      BY Zenon DEF Misread
    <2>3. \A i \in DOMAIN Item.fmt : a(i) = Item.fmt[i]
      BY <2>1, Zenon
    <2>4. Item.fmt = [i \in DOMAIN Item.fmt |-> Item.fmt[i]]
      BY <1>2 DEF Fmts
    <2> HIDE DEF a
    <2>5. [i \in DOMAIN Item.fmt |-> a(i)] = [i \in DOMAIN Item.fmt |-> Item.fmt[i]]
      BY <2>3, Zenon
    <2>6. QED
      BY <2>2, <2>4, <2>5, Zenon
  <1>7. stack' = <<inner(Item.fmt), f>> \o Tail(stack)
    <2> HIDE DEF inner, f
    <2>1. CASE Item.id \in spent
      <3>1. PICK g \in Garbage : stack' = <<inner(Misread(Item.fmt, g)), f>> \o Tail(stack)
        BY <1>4, <2>1
      <3>2. Misread(Item.fmt, g) = Item.fmt
        BY <1>6, <2>1
      <3>3. QED
        BY <3>1, <3>2
    <2>2. CASE Item.id \notin spent
      BY <1>4, <2>2
    <2>3. QED
      BY <2>1, <2>2
  <1>8. "w" \in Inner /\ <<>> \in Seq(Fmts) /\ <<>> \in Seq(Seq(S))
    BY EmptySeq DEF Inner
  <1>9. Runs(stack', S, owner, rest) /\ Shapes(stack') = CallTurn(p, Item.fmt, "w", <<>>)
    BY <1>1, <1>2, <1>5, <1>7, <1>8, CallShape
  <1> HIDE DEF p
  <1>10. ItemTurns(p, Shapes(stack'), Item)
    BY <1>2, <1>9 DEF ItemTurns
  <1>11. QED
    BY <1>1, <1>9, <1>10, ReadShape DEF Turned, p

LEMMA InjectTurns ==
  ASSUME IInv, Inject, NEW S, NEW owner, NEW rest, Runs(stack, S, owner, rest), ReadTwice(S)
  PROVE  Turned(S, owner, rest)
  <1> DEFINE f == Next1(stack[1])
             fmts == Item.fmts
             inner(fmt, more) == Frame(fmt, f.base + f.len, f.max - f.len, f.stock + f.len, "F", more)
             p == Shapes(stack)
  <1>1. Reads("F")
    BY DEF Inject
  <1>2. stack # <<>> /\ fmts \in Seq(Fmts) /\ Item.kind = "F" /\ stack[1].fmt # <<>> /\ stack[1].dump = NoDump
    BY <1>1, ReadsIs, KindIs
  <1>3. Placed(State).f = stack[1]
    <2>1. Placed(State) = Seen(mem, stream, faults, stack[1])
      BY <1>2, TopOf
    <2>2. QED
      BY <2>1 DEF Seen
  <1>4. IF fmts = <<>> THEN stack' = <<f>> \o Tail(stack)
                       ELSE stack' = <<inner(Head(fmts), Tail(fmts)), f>> \o Tail(stack)
    BY <1>3, Zenon DEF Inject
  <1>5. fmts \in Seq(Seq(S))
    BY <1>1, <1>2, ReadShape DEF ReadTwice
  <1>6. CASE fmts = <<>>
    <2> DEFINE z == On(f, Rest(stack))
    <2>1. Runs(z, S, owner, rest) /\ Shapes(z) = SetTurn(p, p[1].cfg)
      BY <1>1, GoesOnShape
    <2>2. stack' = z
      BY <1>4, <1>6 DEF On, Rest
    <2> HIDE DEF z, p, f
    <2>3. Shapes(stack') = SetTurn(p, p[1].cfg) /\ Runs(stack', S, owner, rest)
      BY <2>1, <2>2
    <2>4. ItemTurns(p, Shapes(stack'), Item)
      BY <1>2, <1>6, <2>3 DEF ItemTurns
    <2>5. QED
      BY <1>1, <2>3, <2>4, ReadShape DEF Turned, p
  <1>7. CASE fmts # <<>>
    <2> DEFINE fmt == Head(fmts)
               more == Tail(fmts)
    <2>1. stack' = <<inner(fmt, more), f>> \o Tail(stack)
      BY <1>4, <1>7
    <2> HIDE DEF p
    <2>2. fmt \in Fmts /\ fmt \in Seq(S) /\ more \in Seq(Fmts) /\ more \in Seq(Seq(S)) /\ "F" \in Inner
      <3> HIDE DEF fmts
      <3>1. QED
        BY <1>2, <1>5, <1>7 DEF Inner
    <2> HIDE DEF fmt, more
    <2>3. Runs(stack', S, owner, rest) /\ Shapes(stack') = CallTurn(p, fmt, "F", more)
      BY <1>1, <2>1, <2>2, CallShape DEF p
    <2>4. ItemTurns(p, Shapes(stack'), Item)
      BY <1>2, <1>7, <2>3 DEF ItemTurns, fmt, more
    <2>5. QED
      BY <1>1, <2>3, <2>4, ReadShape DEF Turned, p
  <1>8. QED
    BY <1>6, <1>7

LEMMA NestedEndsTurns ==
  ASSUME IInv, NestedEnds, NEW S, NEW owner, NEW rest, Runs(stack, S, owner, rest)
  PROVE  Turned(S, owner, rest)
  <1> DEFINE f == stack[1]
             t == Rest(stack)
             e == stack[2]
             g == Counted(e, f.len)
             below == On(g, Rest(t))
             p == Shapes(stack)
  <1>1. FormatEnds({"w", "F"})
    BY DEF NestedEnds
  <1>2. /\ stack # <<>> /\ Head(stack) = f /\ f.owner \in Inner /\ f \in Frames
        /\ Sits(f, room, call) /\ Sound(mem', room, stream, stack, call, faults)
    BY <1>1, EndsIs DEF Inner
  <1>3. f.fmt = <<>> /\ f.dump = NoDump
    BY <1>1, <1>2, TopOf DEF FormatEnds, Dumping
  <1>4. stack' = IF f.owner = "w" \/ f.rest = <<>> THEN below ELSE On(Continued(f), below)
    BY <1>2, Zenon DEF NestedEnds, On, Rest
  <1>5. Len(stack) > 1 /\ stack \in Seq(Frames)
    <2> DEFINE l == Len(stack)
    <2>1. stack \in Seq(Frames) /\ l \in Nat /\ 1 \in 1 .. l
      BY <1>2 DEF Runs
    <2>2. 1 < l <=> f.owner \in Inner
      BY <1>2, <2>1 DEF Sound, Stacked
    <2> HIDE DEF f, l
    <2>3. QED
      BY <1>2, <2>1, <2>2 DEF l
  <1>6. e \in Frames /\ e.dump = NoDump
    <2>1. 2 \in 1 .. Len(stack)
      BY <1>5
    <2>2. QED
      BY <1>2, <1>5, <2>1 DEF Sound, Stacked
  <1>7. p[1] = Shape(f)
    BY <1>2, <1>5, ShapesAre
  <1>8. p[1].len = f.len /\ p[1].fmt = <<>> /\ p[1].dump = NoDump /\ p[1].owner = f.owner /\ p[1].rest = f.rest
    BY <1>2, <1>3, <1>7, ShapeHas
  <1>9. Runs(t, S, owner, rest) /\ Shapes(t) = Rest(p) /\ t[1] = e
    BY <1>5, PopShape
  <1>10. Rest(p)[1] = Shape(e) /\ Tame(f, S) /\ Tame(e, S)
    <2>1. 1 \in 1 .. Len(stack) /\ 2 \in 1 .. Len(stack)
      BY <1>5
    <2>2. t \in Seq(Frames) /\ t # <<>>
      BY <1>9 DEF Runs
    <2> HIDE DEF t, p
    <2>3. Shapes(t)[1] = Shape(t[1])
      BY <2>2, ShapesAre
    <2>4. QED
      BY <1>9, <2>1, <2>3 DEF Runs
  <1>11. /\ g \in Frames /\ g.fmt = e.fmt /\ g.len = e.len + f.len /\ g.cfg = e.cfg /\ g.dump = NoDump
         /\ g.owner = e.owner /\ g.rest = e.rest
    <2> DEFINE a == e.len + f.len
               b == e.outpos + f.len
    <2>1. a \in Nat /\ b \in Nat
      BY <1>2, <1>6, FrameHas, SMTT(30)
    <2>2. g = [e EXCEPT !.len = a, !.outpos = b]
      BY Zenon DEF Counted
    <2> HIDE DEF a, b, g, e, f
    <2>3. /\ g \in Frames /\ g.fmt = e.fmt /\ g.len = a /\ g.cfg = e.cfg /\ g.dump = NoDump
          /\ g.owner = e.owner /\ g.rest = e.rest
      BY <1>6, <2>1, <2>2 DEF Frames
    <2>4. QED
      BY <2>3 DEF a
  <1> HIDE DEF f, t, e, g, p
  <1>12. g.fmt \in Seq(S)
    BY <1>10, <1>11 DEF Tame
  <1>13. Runs(below, S, owner, rest) /\ Shapes(below) = Top(Rest(p), g.fmt, g.len, g.cfg, g.dump)
    <2>1. g.owner = t[1].owner /\ g.rest = t[1].rest
      BY <1>9, <1>11
    <2>2. Runs(On(g, Rest(t)), S, owner, rest)
            /\ Shapes(On(g, Rest(t))) = Top(Shapes(t), g.fmt, g.len, g.cfg, g.dump)
      BY <1>9, <1>11, <1>12, <2>1, TopShape
    <2> HIDE DEF below
    <2>3. Shapes(t) = Rest(p)
      BY <1>9
    <2>4. QED
      BY <2>2, <2>3, Zenon DEF below
  <1>14. Rest(p)[1].fmt = e.fmt /\ Rest(p)[1].len = e.len /\ Rest(p)[1].cfg = e.cfg
    BY <1>10, ShapeHas
  <1> DEFINE q == Top(Rest(p), Rest(p)[1].fmt, Rest(p)[1].len + p[1].len, Rest(p)[1].cfg, NoDump)
  <1>15. Shapes(below) = q
    BY <1>8, <1>11, <1>13, <1>14
  <1> HIDE DEF below
  <1>16. Runs(stack', S, owner, rest) /\ Shapes(stack') = EndTurn(p)
    <2>1. CASE f.owner = "w" \/ f.rest = <<>>
      <3>1. stack' = below
        BY <1>4, <2>1
      <3>2. EndTurn(p) = q
        BY <1>8, <2>1 DEF EndTurn
      <3>3. QED
        BY <1>13, <1>15, <3>1, <3>2
    <2>2. CASE ~ (f.owner = "w" \/ f.rest = <<>>)
      <3> DEFINE first == Head(f.rest)
                 more == Tail(f.rest)
                 own == f.owner
                 base == f.base + f.len
                 max == f.max - f.len
                 stock == f.stock + f.len
                 h == Frame(first, base, max, stock, own, more)
                 z == On(h, below)
      <3>1. stack' = z
        BY <1>4, <2>2 DEF Continued
      <3>2. f.rest \in Seq(Fmts) /\ f.rest \in Seq(Seq(S)) /\ f.rest # <<>>
        <4>1. f.rest \in Seq(Fmts)
          BY <1>2 DEF Sits, Rested, Inner
        <4>2. f.rest \in Seq(Seq(S))
          BY <1>2, <1>10 DEF Tame
        <4>3. QED
          BY <2>2, <4>1, <4>2
      <3>3. /\ first \in Fmts /\ first \in Seq(S) /\ more \in Seq(Fmts) /\ more \in Seq(Seq(S))
        BY <3>2
      <3>4. own \in Inner /\ own \in Owners /\ more \in Seq(Fmts) \cup Seq(Nat)
        BY <1>2, <3>3 DEF Inner, Owners
      <3>5. base \in Nat /\ max \in Int /\ stock \in Nat
        BY <1>2, FrameHas
      <3> HIDE DEF first, more, own, base, max, stock
      <3>6. h \in Frames /\ h.fmt = first /\ h.len = 0 /\ h.dump = NoDump /\ h.owner = own /\ h.rest = more
        BY <3>3, <3>4, <3>5, FrameIs
      <3>7. h.cfg = InitialCfg
        BY DEF Frame
      <3> HIDE DEF h
      <3>8. Tame(h, S)
        BY <3>3, <3>6 DEF Tame
      <3>9. Runs(z, S, owner, rest)
              /\ Shapes(z) = On(Form(h.fmt, h.len, h.cfg, h.dump, h.owner, h.rest), Shapes(below))
        BY <1>13, <3>4, <3>6, <3>8, PushShape
      <3> HIDE DEF z, q
      <3>10. Shapes(z) = On(Form(first, 0, InitialCfg, NoDump, own, more), q)
        BY <1>15, <3>6, <3>7, <3>9
      <3>11. EndTurn(p) = On(Form(first, 0, InitialCfg, NoDump, own, more), q)
        BY <1>8, <2>2 DEF EndTurn, first, more, own, q
      <3>12. QED
        BY <3>1, <3>9, <3>10, <3>11
    <2>3. QED
      BY <2>1, <2>2
  <1>17. Turns(p, Shapes(stack'))
    BY <1>2, <1>8, <1>16 DEF Turns
  <1>18. QED
    BY <1>16, <1>17 DEF Turned, p

\* The way of n turns a call's text takes, from the shape the call begins with.
StartOf(fmt) == <<Form(fmt, 0, InitialCfg, NoDump, "client", <<>>)>>
Way(c, tr, n) ==
  /\ tr[0] = StartOf(Head(c.fmts))
  /\ \A i \in 0 .. n - 1 : Turns(tr[i], tr[i + 1])

\* The first call makes the way, the second is somewhere on it.
Measuring(st, S, tr, n) == Runs(st, S, "measure", <<>>) /\ tr[n] = Shapes(st)
Filling(st, S, tr, n) ==
  /\ Stops(tr[n])
  /\ Runs(st, S, "fill", <<tr[n][1].len>>)
  /\ \E k \in 0 .. n : tr[k] = Shapes(st)
Travels(st, c, S, tr, n) ==
  /\ ReadTwice(S) /\ c.fmts \in Seq(Seq(S))
  /\ Way(c, tr, n)
  /\ Measuring(st, S, tr, n) \/ Filling(st, S, tr, n)
OnWay(st, c) == \E S \in SUBSET Items, n \in Nat : \E tr : Travels(st, c, S, tr, n)

\* What is invariant of calls whose arguments are there twice.
MInv ==
  /\ IInv
  /\ ~VaListIsArray => spent = {}
  /\ stack # <<>> /\ ~Plain(call) => OnWay(stack, call)
  /\ stack = <<>> => "str_l2" \notin faults

LEMMA StartShape ==
  ASSUME NEW S, NEW fmt \in Fmts, fmt \in Seq(S), NEW max \in Int, NEW owner \in {"measure", "fill"},
         NEW rest \in Seq(Fmts) \cup Seq(Nat)
  PROVE  LET z == <<Frame(fmt, 0, max, 0, owner, rest)>>
         IN  Runs(z, S, owner, rest) /\ Shapes(z) = StartOf(fmt)
  <1> DEFINE zero == 0
             h == Frame(fmt, zero, max, zero, owner, rest)
             z == <<h>>
             V == {Shape(f) : f \in Frames}
  <1>1. zero \in Nat /\ zero = 0 /\ owner \in Owners /\ owner \notin Inner
    BY DEF Owners, Inner
  <1> HIDE DEF zero
  <1>2. /\ h \in Frames /\ h.len = 0 /\ h.dump = NoDump /\ h.owner = owner /\ h.rest = rest /\ h.fmt = fmt
    BY <1>1, FrameIs
  <1>3. h.cfg = InitialCfg
    BY DEF Frame
  <1> HIDE DEF h
  <1>4. z \in Seq(Frames) /\ Len(z) = 1 /\ z[1] = h /\ z # <<>>
    BY <1>2
  <1> HIDE DEF z
  <1>5. Runs(z, S, owner, rest)
    <2>1. ASSUME NEW k \in 1 .. Len(z) PROVE Tame(z[k], S)
      <3>1. z[k] = h
        BY <1>4
      <3>2. QED
        BY <1>1, <1>2, <3>1 DEF Tame
    <2>2. QED
      BY <1>2, <1>4, <2>1 DEF Runs
  <1>6. Shape(h) = Form(fmt, 0, InitialCfg, NoDump, "client", <<>>)
    BY <1>1, <1>2, <1>3 DEF Shape
  <1>7. Shape(h) \in V
    BY <1>2
  <1>8. Shapes(z) \in Seq(V) /\ Len(Shapes(z)) = 1 /\ Shapes(z)[1] = Shape(h)
    BY <1>4, ShapesAre
  <1> HIDE DEF V
  <1> DEFINE a == <<Shape(h)>>
  <1>9. a \in Seq(V) /\ Len(a) = 1 /\ a[1] = Shape(h)
    BY <1>7
  <1> HIDE DEF a
  <1>10. Shapes(z) = a
    <2>1. Len(Shapes(z)) = Len(a) /\ \A k \in 1 .. Len(Shapes(z)) : Shapes(z)[k] = a[k]
      BY <1>8, <1>9
    <2>2. QED
      BY <1>8, <1>9, <2>1, SameShapes
  <1>11. a = StartOf(fmt)
    BY <1>6, Zenon DEF StartOf, a
  <1>12. Runs(z, S, owner, rest) /\ Shapes(z) = StartOf(fmt)
    BY <1>5, <1>10, <1>11, Zenon
  <1>13. QED
    BY <1>1, <1>12 DEF z, h

\* The first call has made one turn more.
LEMMA WayGrows ==
  ASSUME NEW c, NEW S, NEW n \in Nat, NEW tr, Way(c, tr, n), NEW st, Measuring(st, S, tr, n),
         NEW st2, Runs(st2, S, "measure", <<>>), Turns(Shapes(st), Shapes(st2))
  PROVE  \E tr2 : Way(c, tr2, n + 1) /\ Measuring(st2, S, tr2, n + 1)
  <1> DEFINE q == Shapes(st2)
             w == [i \in 0 .. n + 1 |-> IF i <= n THEN tr[i] ELSE q]
  <1> HIDE DEF q
  <1>1. \A i \in 0 .. n : w[i] = tr[i]
    OBVIOUS
  <1>2. w[n + 1] = q
    OBVIOUS
  <1> HIDE DEF w
  <1>3. w[0] = StartOf(Head(c.fmts))
    <2>1. w[0] = tr[0]
      BY <1>1
    <2>2. QED
      BY <2>1, Zenon DEF Way
  <1>4. ASSUME NEW i \in 0 .. (n + 1) - 1 PROVE Turns(w[i], w[i + 1])
    <2>1. CASE i < n
      <3>1. i \in 0 .. n - 1 /\ i + 1 \in 0 .. n /\ i \in 0 .. n
        BY <2>1
      <3>2. Turns(tr[i], tr[i + 1])
        BY <3>1 DEF Way
      <3>3. QED
        BY <1>1, <3>1, <3>2
    <2>2. CASE ~ (i < n)
      <3>1. i = n /\ n \in 0 .. n
        BY <2>2
      <3>2. w[i] = Shapes(st)
        BY <1>1, <3>1 DEF Measuring
      <3>3. w[i + 1] = q
        BY <1>2, <3>1
      <3>4. QED
        BY <3>2, <3>3 DEF q
    <2>3. QED
      BY <2>1, <2>2
  <1>5. Way(c, w, n + 1)
    BY <1>3, <1>4 DEF Way
  <1>6. Measuring(st2, S, w, n + 1)
    BY <1>2, Zenon DEF Measuring, q
  <1>7. QED
    BY <1>5, <1>6

\* The second call has made the turn the first one made.
LEMMA WayFollowed ==
  ASSUME NEW c, NEW S, NEW n \in Nat, NEW tr, Way(c, tr, n), NEW st, Filling(st, S, tr, n),
         NEW st2, Runs(st2, S, "fill", <<tr[n][1].len>>), Turns(Shapes(st), Shapes(st2))
  PROVE  Filling(st2, S, tr, n)
  <1>1. PICK k \in 0 .. n : tr[k] = Shapes(st)
    BY DEF Filling
  <1>2. Turns(tr[k], Shapes(st2))
    BY <1>1
  <1>3. k # n
    BY <1>2, OneWay DEF Filling
  <1>4. k \in 0 .. n - 1 /\ k + 1 \in 0 .. n
    BY <1>3
  <1>5. Turns(tr[k], tr[k + 1])
    BY <1>4 DEF Way
  <1>6. tr[k + 1] = Shapes(st2)
    BY <1>2, <1>5, OneWay
  <1>7. QED
    BY <1>4, <1>6, Zenon DEF Filling

\* A call of the client's that ends is the only one under way.
LEMMA LastEnds ==
  ASSUME IInv, NEW owner, owner \notin Inner, FormatEnds({owner})
  PROVE  /\ Len(stack) = 1 /\ stack[1].owner = owner /\ stack[1] \in Frames /\ stack # <<>>
         /\ Head(stack) = stack[1]
         /\ stack[1].fmt = <<>> /\ stack[1].dump = NoDump
         /\ Shapes(stack)[1].len = stack[1].len
         /\ Stops(Shapes(stack))
         /\ Sits(stack[1], room, call)
  <1> DEFINE f == stack[1]
             n == Len(stack)
  <1>1. /\ stack # <<>> /\ Head(stack) = f /\ f.owner = owner /\ f \in Frames /\ Sits(f, room, call)
        /\ Sound(mem', room, stream, stack, call, faults)
    BY EndsIs
  <1>2. f.fmt = <<>> /\ f.dump = NoDump
    BY <1>1, TopOf DEF FormatEnds, Dumping
  <1>3. stack \in Seq(Frames) /\ n \in Nat /\ 1 \in 1 .. n
    BY <1>1 DEF Sound, Stacked
  <1>4. 1 < n <=> f.owner \in Inner
    BY <1>1, <1>3 DEF Sound, Stacked
  <1> HIDE DEF f, n
  <1>5. n = 1
    BY <1>1, <1>3, <1>4
  <1>6. Shapes(stack)[1] = Shape(f)
    BY <1>1, <1>3, ShapesAre DEF f
  <1>7. Shape(f).fmt = <<>> /\ Shape(f).dump = NoDump /\ Shape(f).owner \notin Inner /\ Shape(f).len = f.len
    BY <1>1, <1>2, ShapeHas
  <1>8. QED
    BY <1>1, <1>2, <1>5, <1>6, <1>7 DEF Stops, f, n

\* Between the beginning of such a call and its end, each step is a turn.
LEMMA InnerTurns ==
  ASSUME IInv, Step, ~MeasureEnds, ~FillEnds, NEW S, NEW owner \in {"measure", "fill"}, NEW rest,
         Runs(stack, S, owner, rest), ReadTwice(S), ~VaListIsArray => spent = {}
  PROVE  Turned(S, owner, rest)
  <1>1. CASE Literal
    BY <1>1, LiteralTurns
  <1>2. CASE Text
    BY <1>2, TextTurns
  <1>3. CASE Numeric
    BY <1>3, NumericTurns
  <1>4. CASE Setting
    BY <1>4, SettingTurns
  <1>5. CASE Repeat
    BY <1>5, RepeatTurns
  <1>6. CASE BeginDump
    BY <1>6, BeginDumpTurns
  <1>7. CASE DumpLine
    BY <1>7, DumpLineTurns
  <1>8. CASE Nest
    BY <1>8, NestTurns
  <1>9. CASE Inject
    BY <1>9, InjectTurns
  <1>10. CASE NestedEnds
    BY <1>10, NestedEndsTurns
  <1>11. ASSUME ClientEnds PROVE FALSE
    <2> DEFINE own == "client"
    <2>1. own \notin Inner /\ FormatEnds({own}) /\ own # owner
      BY <1>11 DEF ClientEnds, Inner
    <2> HIDE DEF own
    <2>2. Len(stack) = 1 /\ stack[1].owner = own
      BY <2>1, LastEnds
    <2>3. stack[Len(stack)].owner = owner
      BY DEF Runs
    <2>4. QED
      BY <2>1, <2>2, <2>3
  <1>12. QED
    BY <1>1, <1>2, <1>3, <1>4, <1>5, <1>6, <1>7, <1>8, <1>9, <1>10, <1>11 DEF Step

\* What the first format of a call is made of.
LEMMA FirstFormat ==
  ASSUME NEW c \in Calls, NEW S, c.fmts \in Seq(Seq(S))
  PROVE  Head(c.fmts) \in Fmts /\ Head(c.fmts) \in Seq(S)
  <1>1. c.fmts \in Seq(Seq(Items)) /\ c.fmts # <<>>
    BY CallsAssumption
  <1>2. Head(c.fmts) \in Seq(Items) /\ Head(c.fmts) \in Seq(S)
    BY <1>1
  <1>3. QED
    BY <1>2 DEF Fmts, Used

LEMMA InitMInv ==
  ASSUME \A c \in Calls : Plain(c) \/ Repeats(c), Init
  PROVE  MInv
  <1>1. IInv /\ call \in Calls /\ faults = {} /\ spent = {} /\ stack = <<FirstFrame(call)>>
    BY InitIInv DEF Init
  <1>2. ASSUME ~Plain(call) PROVE OnWay(stack, call)
    <2>1. PICK S \in SUBSET Items : ReadTwice(S) /\ call.fmts \in Seq(Seq(S))
      BY <1>1, <1>2 DEF Repeats
    <2> DEFINE fmt == Head(call.fmts)
               own == "measure"
               rest == <<>>
               zero == 0
    <2>2. fmt \in Fmts /\ fmt \in Seq(S)
      BY <1>1, <2>1, FirstFormat
    <2>3. call.api \in {"asprintf", "asnprintf"}
      BY <1>1, <1>2, CallsAssumption DEF Plain
    <2>4. stack = <<Frame(fmt, 0, zero, 0, own, rest)>>
      BY <1>1, <2>3 DEF FirstFrame
    <2>5. own \in {"measure", "fill"} /\ rest \in Seq(Fmts) \cup Seq(Nat) /\ zero \in Int
      BY EmptySeq
    <2> HIDE DEF fmt, zero, own, rest
    <2>6. Runs(stack, S, own, rest) /\ Shapes(stack) = StartOf(fmt)
      BY <2>2, <2>4, <2>5, StartShape
    <2> DEFINE n == 0
               tr == [i \in 0 .. 0 |-> Shapes(stack)]
    <2>7. n \in Nat /\ tr[n] = Shapes(stack) /\ \A i \in 0 .. n - 1 : FALSE
      OBVIOUS
    <2>8. Way(call, tr, n)
      BY <2>6, <2>7, Zenon DEF Way, fmt, n
    <2> HIDE DEF n, tr
    <2>9. Measuring(stack, S, tr, n)
      BY <2>6, <2>7, Zenon DEF Measuring, own, rest
    <2>10. Travels(stack, call, S, tr, n)
      BY <2>1, <2>8, <2>9, Zenon DEF Travels
    <2>11. QED
      BY <2>7, <2>10, Zenon DEF OnWay
  <1>3. QED
    BY <1>1, <1>2 DEF MInv

\* The call that measured has ended, and the one that prints begins where it began.
LEMMA MeasureEndsWay ==
  ASSUME MInv, MeasureEnds
  PROVE  MInv'
  <1> DEFINE f == stack[1]
             own == "measure"
  <1>1. IInv /\ FormatEnds({own}) /\ own \notin Inner /\ UNCHANGED <<call, spent, faults>>
    BY DEF MInv, MeasureEnds, Inner
  <1> HIDE DEF own
  <1>2. /\ Len(stack) = 1 /\ f.owner = own /\ f \in Frames /\ stack # <<>> /\ Head(stack) = f
        /\ Shapes(stack)[1].len = f.len /\ Stops(Shapes(stack)) /\ Sits(f, room, call)
    BY <1>1, LastEnds
  <1>3. ~Plain(call) /\ call \in Calls /\ "str_l2" \notin faults
    BY <1>1, <1>2, IInvHolds DEF Sits, own
  <1>4. IInv'
    BY <1>1, MeasureEndsIs
  <1>5. PICK S \in SUBSET Items, n \in Nat : \E x : Travels(stack, call, S, x, n)
    BY <1>2, <1>3 DEF MInv, OnWay
  <1>6. PICK tr : Travels(stack, call, S, tr, n)
    BY <1>5
  <1>7. Measuring(stack, S, tr, n)
    <2>1. stack[Len(stack)].owner # "fill"
      BY <1>2 DEF own
    <2>2. ~Filling(stack, S, tr, n)
      BY <2>1 DEF Filling, Runs
    <2>3. QED
      BY <1>6, <2>2 DEF Travels
  <1>8. tr[n] = Shapes(stack)
    BY <1>7 DEF Measuring
  <1>9. Stops(tr[n]) /\ tr[n][1].len = f.len
    BY <1>2, <1>8
  <1>10. \/ stack' = <<>>
         \/ /\ Allocation \in 1 .. MemSize - 1
            /\ stack' = <<Frame(Head(call.fmts), 0, Allocation, 0, "fill", <<f.len>>)>>
    BY <1>2, Zenon DEF MeasureEnds
  <1>11. (~VaListIsArray => spent = {})'
    BY <1>1 DEF MInv
  <1>12. CASE stack' = <<>>
    BY <1>1, <1>3, <1>4, <1>11, <1>12 DEF MInv
  <1>13. CASE /\ Allocation \in 1 .. MemSize - 1
              /\ stack' = <<Frame(Head(call.fmts), 0, Allocation, 0, "fill", <<f.len>>)>>
    <2> DEFINE size == Allocation
               fmt == Head(call.fmts)
               rest == <<f.len>>
               last0 == "fill"
    <2>1. size \in Int
      <3> HIDE DEF size
      <3>1. Allocation = size
        BY DEF size
      <3>2. QED
        BY <1>13, <3>1, SnprintfAssumption
    <2>2. fmt \in Fmts /\ fmt \in Seq(S)
      <3>1. call.fmts \in Seq(Seq(S))
        BY <1>6 DEF Travels
      <3>2. QED
        BY <1>3, <3>1, FirstFormat
    <2>3. rest \in Seq(Fmts) \cup Seq(Nat) /\ last0 \in {"measure", "fill"}
      BY <1>2, FrameHas
    <2>4. stack' = <<Frame(fmt, 0, size, 0, last0, rest)>>
      BY <1>13
    <2> HIDE DEF size, fmt, rest, last0, f
    <2>5. Runs(stack', S, last0, rest) /\ Shapes(stack') = StartOf(fmt)
      BY <2>1, <2>2, <2>3, <2>4, StartShape
    <2>6. tr[0] = StartOf(fmt)
      BY <1>6, Zenon DEF Travels, Way, fmt
    <2>7. 0 \in 0 .. n /\ tr[0] = Shapes(stack')
      BY <2>5, <2>6
    <2>8. Runs(stack', S, "fill", <<tr[n][1].len>>)
      BY <1>9, <2>5 DEF rest, last0
    <2>9. Filling(stack', S, tr, n)
      BY <1>9, <2>7, <2>8, Zenon DEF Filling
    <2>10. Travels(stack', call, S, tr, n)
      BY <1>6, <2>9, Zenon DEF Travels
    <2>11. OnWay(stack', call')
      BY <1>1, <2>10 DEF OnWay
    <2>12. stack' # <<>>
      BY <2>5 DEF Runs
    <2>13. QED
      BY <1>4, <1>11, <2>11, <2>12 DEF MInv
  <1>14. QED
    BY <1>10, <1>12, <1>13

\* The call that prints ends where the one that measured has ended, with its length.
LEMMA FillEndsWay ==
  ASSUME MInv, FillEnds
  PROVE  MInv'
  <1> DEFINE f == stack[1]
             own == "fill"
  <1>1. IInv /\ FormatEnds({own}) /\ own \notin Inner /\ UNCHANGED <<call, spent>> /\ stack' = <<>>
    BY DEF MInv, FillEnds, Inner
  <1> HIDE DEF own
  <1>2. /\ Len(stack) = 1 /\ f.owner = own /\ f \in Frames /\ stack # <<>> /\ Head(stack) = f
        /\ Shapes(stack)[1].len = f.len /\ Stops(Shapes(stack)) /\ Sits(f, room, call)
    BY <1>1, LastEnds
  <1>3. ~Plain(call) /\ "str_l2" \notin faults
    BY <1>1, <1>2, IInvHolds DEF Sits, own
  <1>4. IInv'
    BY <1>1, FillEndsIs
  <1>5. PICK S \in SUBSET Items, n \in Nat : \E x : Travels(stack, call, S, x, n)
    BY <1>2, <1>3 DEF MInv, OnWay
  <1>6. PICK tr : Travels(stack, call, S, tr, n)
    BY <1>5
  <1>7. Filling(stack, S, tr, n)
    <2>1. stack[Len(stack)].owner # "measure"
      BY <1>2 DEF own
    <2>2. ~Measuring(stack, S, tr, n)
      BY <2>1 DEF Measuring, Runs
    <2>3. QED
      BY <1>6, <2>2 DEF Travels
  <1>8. PICK k \in 0 .. n : tr[k] = Shapes(stack)
    BY <1>7 DEF Filling
  <1>9. k = n
    <2> SUFFICES ASSUME k # n PROVE FALSE
      OBVIOUS
    <2>1. k \in 0 .. n - 1
      OBVIOUS
    <2>2. Turns(tr[k], tr[k + 1])
      BY <1>6, <2>1 DEF Travels, Way
    <2>3. ~Stops(tr[k])
      BY <2>2, OneWay
    <2>4. QED
      BY <1>2, <1>8, <2>3
  <1>10. tr[n][1].len = f.len
    BY <1>2, <1>8, <1>9
  <1>11. f.rest = <<f.len>>
    <2>1. stack[Len(stack)].rest = <<tr[n][1].len>>
      BY <1>7 DEF Filling, Runs
    <2>2. QED
      BY <1>2, <1>10, <2>1
  <1>12. ret' = Head(f.rest) /\ faults' = IF f.len # ret' THEN faults \cup {"str_l2"} ELSE faults
    BY <1>2, Zenon DEF FillEnds
  <1>13. "str_l2" \notin faults'
    BY <1>3, <1>11, <1>12
  <1>14. QED
    BY <1>1, <1>4, <1>13 DEF MInv

LEMMA NextMInv == MInv /\ [Next]_vars => MInv'
  <1> SUFFICES ASSUME MInv, [Next]_vars PROVE MInv'
    OBVIOUS
  <1>1. IInv /\ IInv' /\ (~VaListIsArray => spent = {})
    BY NextIInv DEF MInv
  <1>2. CASE UNCHANGED vars
    BY <1>1, <1>2 DEF MInv, vars
  <1>3. CASE MeasureEnds
    BY <1>3, MeasureEndsWay
  <1>4. CASE FillEnds
    BY <1>4, FillEndsWay
  <1>5. CASE Step /\ ~MeasureEnds /\ ~FillEnds
    <2>1. stack # <<>> /\ call' = call
      BY <1>5, Zenon DEF Step, Literal, Text, Numeric, Setting, Repeat, BeginDump, DumpLine, Nest, Inject,
                  NestedEnds, ClientEnds, Reads, FormatEnds
    <2>2. (~VaListIsArray => spent = {})'
      BY <1>1, <1>5, Zenon DEF Step, Literal, Text, Numeric, Setting, Repeat, BeginDump, DumpLine, Nest, Inject,
                        NestedEnds, ClientEnds
    <2>3. CASE Plain(call)
      <3>1. Plain(call') => "str_l2" \notin faults'
        BY <1>1 DEF IInv, Good, Sound
      <3>2. QED
        BY <1>1, <2>1, <2>2, <2>3, <3>1 DEF MInv
    <2>4. CASE ~Plain(call)
      <3>1. PICK S \in SUBSET Items, n \in Nat : \E x : Travels(stack, call, S, x, n)
        BY <2>1, <2>4 DEF MInv, OnWay
      <3>2. PICK tr : Travels(stack, call, S, tr, n)
        BY <3>1
      <3>3. ReadTwice(S) /\ call.fmts \in Seq(Seq(S)) /\ Way(call, tr, n)
        BY <3>2 DEF Travels
      <3>4. /\ stack' # <<>>
            /\ \E m \in Nat : \E x : Travels(stack', call, S, x, m)
        <4>1. CASE Measuring(stack, S, tr, n)
          <5> DEFINE own == "measure"
                     rest == <<>>
          <5>1. own \in {"measure", "fill"} /\ Runs(stack, S, own, rest)
            BY <4>1 DEF Measuring
          <5> HIDE DEF own, rest
          <5>2. Turned(S, own, rest)
            BY <1>1, <1>5, <3>3, <5>1, InnerTurns
          <5>3. Runs(stack', S, "measure", <<>>) /\ Turns(Shapes(stack), Shapes(stack'))
            BY <5>2, Zenon DEF Turned, own, rest
          <5>4. \E x : Way(call, x, n + 1) /\ Measuring(stack', S, x, n + 1)
            BY <3>3, <4>1, <5>3, WayGrows
          <5>5. n + 1 \in Nat /\ stack' # <<>>
            BY <5>3 DEF Runs
          <5>6. \E x : Travels(stack', call, S, x, n + 1)
            BY <3>3, <5>4, Zenon DEF Travels
          <5>7. QED
            BY <5>5, <5>6
        <4>2. CASE Filling(stack, S, tr, n)
          <5> DEFINE own == "fill"
                     rest == <<tr[n][1].len>>
          <5>1. own \in {"measure", "fill"} /\ Runs(stack, S, own, rest)
            BY <4>2 DEF Filling
          <5> HIDE DEF own, rest
          <5>2. Turned(S, own, rest)
            BY <1>1, <1>5, <3>3, <5>1, InnerTurns
          <5>3. Runs(stack', S, "fill", <<tr[n][1].len>>) /\ Turns(Shapes(stack), Shapes(stack'))
            BY <5>2, Zenon DEF Turned, own, rest
          <5>4. Filling(stack', S, tr, n)
            BY <3>3, <4>2, <5>3, WayFollowed
          <5>5. stack' # <<>>
            BY <5>3 DEF Runs
          <5>6. Travels(stack', call, S, tr, n)
            BY <3>3, <5>4, Zenon DEF Travels
          <5>7. QED
            BY <5>5, <5>6
        <4>3. QED
          BY <3>2, <4>1, <4>2 DEF Travels
      <3>5. OnWay(stack', call')
        BY <2>1, <3>4, Zenon DEF OnWay
      <3>6. QED
        BY <1>1, <2>2, <3>4, <3>5 DEF MInv
    <2>5. QED
      BY <2>3, <2>4, Zenon
  <1>6. QED
    BY <1>2, <1>3, <1>4, <1>5 DEF Next, Done

\* BufferHoldsMeasured.  mm_asprintf() and mm_asnprintf() print as much as they have measured,
\* and the buffer they allocate holds what BufferHoldsText says of it: for every call, of every
\* client, whose %w items have a va_list the second run can read again.
THEOREM BufferHoldsMeasured ==
  ASSUME \A c \in Calls : Plain(c) \/ Repeats(c)
  PROVE  Spec => []BufferHoldsText
  <1>1. Init => MInv
    BY InitMInv
  <1>2. MInv /\ [Next]_vars => MInv'
    BY NextMInv
  <1>3. MInv => BufferHoldsText
    BY IInvHolds DEF MInv
  <1>4. QED
    BY <1>1, <1>2, <1>3, PTL DEF Spec

\* BufferHoldsCopied.  Where a va_list is a value that is copied when it is passed on, that is
\* every call there is.
THEOREM BufferHoldsCopied ==
  ASSUME ~VaListIsArray
  PROVE  Spec => []BufferHoldsText
  <1>1. ReadTwice(Items)
    <2> SUFFICES ASSUME NEW item \in Items
                 PROVE  /\ item.kind = "w" => item.fmt \in Seq(Items)
                        /\ item.kind = "F" => item.fmts \in Seq(Seq(Items))
      BY DEF ReadTwice
    <2>1. \/ item \in Leaves
          \/ item.kind = "w" /\ item.fmt \in Seq(Items)
          \/ item.kind = "F" /\ item.fmts \in Seq(Seq(Items))
      BY ItemsAssumption
    <2>2. item \in Leaves => item.kind # "w" /\ item.kind # "F"
      BY DEF Leaves, StrItems, IntItems, FloatItems, SetItems, DumpItems
    <2>3. QED
      BY <2>1, <2>2
  <1>2. ASSUME NEW c \in Calls PROVE Repeats(c)
    <2>1. c.fmts \in Seq(Seq(Items))
      BY CallsAssumption
    <2>2. QED
      BY <1>1, <2>1 DEF Repeats
  <1>3. QED
    BY <1>2, BufferHoldsMeasured

-------------------------------------------------------------------------------
(***************************************************************************)
(* Beginnings of a sequence of bytes.                                      *)
(***************************************************************************)
\* s is how t begins.
Begins(s, t) == \E u \in Seq(Nat) : t = s \o u

\* A sequence begins a longer one that it is put in front of.
LEMMA BeginsWith ==
  ASSUME NEW s \in Seq(Nat), NEW u \in Seq(Nat)
  PROVE  Begins(s, s \o u)
BY DEF Begins

\* A sequence begins itself.
LEMMA BeginsItself ==
  ASSUME NEW s \in Seq(Nat)
  PROVE  Begins(s, s)
  <1>1. s = s \o <<>> /\ <<>> \in Seq(Nat)
        BY ConcatEmptySeq, EmptySeq
  <1> QED BY <1>1 DEF Begins

\* Concatenation, of bytes.
LEMMA Joined ==
  ASSUME NEW s \in Seq(Nat), NEW t \in Seq(Nat)
  PROVE  /\ s \o t \in Seq(Nat) /\ Len(s \o t) = Len(s) + Len(t)
         /\ Len(s) <= Len(s \o t)
  <1>1. s \o t \in Seq(Nat) /\ Len(s \o t) = Len(s) + Len(t)
        BY ConcatProperties, Zenon
  <1> QED BY <1>1, LenProperties

LEMMA JoinedThree ==
  ASSUME NEW s \in Seq(Nat), NEW t \in Seq(Nat), NEW u \in Seq(Nat)
  PROVE  (s \o t) \o u = s \o (t \o u)
OBVIOUS

\* What is put at the end of a sequence does not change how it begins.
LEMMA BeginsLonger ==
  ASSUME NEW s \in Seq(Nat), NEW t \in Seq(Nat), NEW u \in Seq(Nat), Begins(s, t)
  PROVE  Begins(s, t \o u)
  <1>1. PICK v \in Seq(Nat) : t = s \o v
        BY DEF Begins
  <1>2. t \o u = s \o (v \o u) /\ v \o u \in Seq(Nat)
    <2>1. v \o u \in Seq(Nat)
          BY Joined
    <2> QED BY <1>1, <2>1, JoinedThree
  <1> QED BY <1>2 DEF Begins

\* A beginning is what is cut off at its length.
LEMMA BeginsCut ==
  ASSUME NEW s \in Seq(Nat), NEW t \in Seq(Nat), Begins(s, t)
  PROVE  Len(s) <= Len(t) /\ SubSeq(t, 1, Len(s)) = s
  <1>1. PICK v \in Seq(Nat) : t = s \o v
        BY DEF Begins
  <1>2. /\ Len(s) \in Nat /\ Len(v) \in Nat /\ Len(t) = Len(s) + Len(v)
        /\ \A i \in 1 .. Len(s) + Len(v) : t[i] = IF i <= Len(s) THEN s[i] ELSE v[i - Len(s)]
        BY <1>1, ConcatProperties, LenProperties
  <1>3. \A i \in 1 .. Len(s) : t[i] \in Nat
        BY <1>2, ElementOfSeq
  <1>4. /\ SubSeq(t, 1, Len(s)) \in Seq(Nat)
        /\ Len(SubSeq(t, 1, Len(s))) = Len(s)
        /\ \A i \in 1 .. Len(s) : SubSeq(t, 1, Len(s))[i] = t[i]
        BY <1>2, <1>3, SubSeqProperties
  <1>5. \A i \in 1 .. Len(s) : SubSeq(t, 1, Len(s))[i] = s[i]
        BY <1>2, <1>4
  <1>6. SubSeq(t, 1, Len(s)) = s
        BY <1>4, <1>5, SeqEqual
  <1> QED BY <1>2, <1>6

\* The two parts of a cut sequence make up the sequence.
LEMMA CutInTwo ==
  ASSUME NEW m \in Seq(Nat), NEW n \in 0 .. Len(m)
  PROVE  /\ SubSeq(m, 1, n) \in Seq(Nat) /\ SubSeq(m, n + 1, Len(m)) \in Seq(Nat)
         /\ Len(SubSeq(m, 1, n)) = n /\ Len(SubSeq(m, n + 1, Len(m))) = Len(m) - n
         /\ SubSeq(m, 1, n) \o SubSeq(m, n + 1, Len(m)) = m
  <1>1. Len(m) \in Nat
        BY LenProperties
  <1>2. \A i \in 1 .. Len(m) : m[i] \in Nat
        BY ElementOfSeq
  <1>3. /\ SubSeq(m, 1, n) \in Seq(Nat) /\ Len(SubSeq(m, 1, n)) = IF 1 <= n THEN n - 1 + 1 ELSE 0
    <2>1. \A i \in 1 .. n : m[i] \in Nat
          BY <1>1, <1>2
    <2> QED BY <1>1, <2>1, SubSeqProperties
  <1>4. /\ SubSeq(m, n + 1, Len(m)) \in Seq(Nat)
        /\ Len(SubSeq(m, n + 1, Len(m))) = IF n + 1 <= Len(m) THEN Len(m) - (n + 1) + 1 ELSE 0
    <2>1. \A i \in n + 1 .. Len(m) : m[i] \in Nat
          BY <1>1, <1>2
    <2> QED BY <1>1, <2>1, SubSeqProperties
  <1>5. SubSeq(m, 1, n) \o SubSeq(m, n + 1, Len(m)) = SubSeq(m, 1, Len(m))
    <2>1. 1 \in 1 .. Len(m) + 1 /\ n \in 1 - 1 .. Len(m) /\ Len(m) \in n .. Len(m)
          BY <1>1
    <2> QED BY <2>1, ConcatAdjacentSubSeq
  <1>6. SubSeq(m, 1, Len(m)) = m
        BY SubSeqFull
  <1>7. Len(SubSeq(m, 1, n)) = n
        BY <1>3
  <1>8. Len(SubSeq(m, n + 1, Len(m))) = Len(m) - n
        BY <1>1, <1>4
  <1>9. SubSeq(m, 1, n) \in Seq(Nat) /\ SubSeq(m, n + 1, Len(m)) \in Seq(Nat)
        BY <1>3, <1>4
  <1> QED BY <1>5, <1>6, <1>7, <1>8, <1>9, Zenon

\* What is put in front of a beginning and of the whole leaves a beginning.
LEMMA BeginsBehind ==
  ASSUME NEW f \in Seq(Nat), NEW u \in Seq(Nat), NEW v \in Seq(Nat), Begins(u, v)
  PROVE  Begins(f \o u, f \o v)
  <1>1. PICK w \in Seq(Nat) : v = u \o w
        BY DEF Begins
  <1>2. (f \o u) \o w = f \o (u \o w)
        BY JoinedThree, ZenonT(40)
  <1>3. f \o v = (f \o u) \o w
        BY <1>1, <1>2, Zenon
  <1> QED BY <1>3, Zenon DEF Begins

\* Sums in their bounds.
LEMMA FurtherTwice ==
  ASSUME NEW a \in Nat, NEW b \in Nat, NEW c \in Nat, NEW x \in Nat, NEW y \in Nat,
         x <= b - c, y <= a - b
  PROVE  x + y \in 0 .. a - c
OBVIOUS

LEMMA BothGrow ==
  ASSUME NEW i \in Int, NEW j \in Int, NEW x \in Nat, NEW y \in Nat, i <= j, x <= y
  PROVE  i + x <= j + y
OBVIOUS

LEMMA PlaceWithin ==
  ASSUME NEW a \in Nat, NEW b \in Nat, NEW c \in Nat, NEW n \in Nat, NEW i \in n + 1 .. b,
         NEW x \in Nat, x <= a - b
  PROVE  i + x \in 1 .. a + c /\ i + x <= a
OBVIOUS

LEMMA PlaceBehind ==
  ASSUME NEW a \in Nat, NEW b \in Nat, NEW c \in Nat, NEW d \in Nat, b <= a, d <= c,
         NEW n \in Nat, NEW i \in n + 1 .. b + d, ~(i <= b)
  PROVE  /\ i + (a - b) \in 1 .. a + c /\ ~(i + (a - b) <= a)
         /\ i \in 1 .. b + d /\ (i + (a - b)) - a = i - b /\ i - b \in 1 .. d
OBVIOUS

\* Dropping bytes behind the first n: none are dropped, ...
LEMMA ThinsItself ==
  ASSUME NEW s \in Seq(Nat), NEW n \in Nat, n <= Len(s)
  PROVE  Abstract!Thins(n, s, s)
  <1> DEFINE l == Len(s)
             skip == [i \in n + 1 .. l |-> 0]
  <1>1. l \in Nat /\ l - l = 0
        BY LenProperties
  <1>2. skip \in [n + 1 .. l -> 0 .. l - l]
        BY <1>1
  <1>3. /\ \A i \in n + 1 .. l : s[i] = s[i + skip[i]]
        /\ \A i, j \in n + 1 .. l : i <= j => skip[i] <= skip[j]
        BY <1>1
  <1>4. n <= l /\ l <= l /\ \A i \in 1 .. n : s[i] = s[i]
        BY <1>1
  <1> HIDE DEF skip
  <1> QED BY <1>2, <1>3, <1>4 DEF Abstract!Thins

\* ... or those at the end of what is put behind, ...
LEMMA ThinsLonger ==
  ASSUME NEW s \in Seq(Nat), NEW t \in Seq(Nat), NEW n \in Nat, Abstract!Thins(n, s, t),
         NEW m \in Seq(Nat), NEW u \in Seq(Nat), Begins(u, m)
  PROVE  Abstract!Thins(n, s \o m, t \o u)
  <1> DEFINE a == Len(s)
             b == Len(t)
             c == Len(m)
             d == Len(u)
             S == s \o m
             T == t \o u
  <1>1. a \in Nat /\ b \in Nat /\ c \in Nat /\ d \in Nat /\ b <= a /\ n <= b
        BY LenProperties DEF Abstract!Thins
  <1>2. PICK v \in Seq(Nat) : m = u \o v
        BY DEF Begins
  <1>3. d <= c /\ \A i \in 1 .. d : m[i] = u[i]
    <2> DEFINE e == Len(v)
    <2>1. e \in Nat
          BY LenProperties
    <2>2. /\ Len(u \o v) = d + e
          /\ \A i \in 1 .. d + e : (u \o v)[i] = IF i <= d THEN u[i] ELSE v[i - d]
          BY ConcatProperties, Zenon
    <2> HIDE DEF d, e
    <2>3. c = d + e /\ \A i \in 1 .. d + e : m[i] = IF i <= d THEN u[i] ELSE v[i - d]
          BY <1>2, <2>2, Zenon
    <2> HIDE DEF c
    <2>4. d <= c
          BY <1>1, <2>1, <2>3
    <2>5. ASSUME NEW i \in 1 .. d PROVE m[i] = u[i]
      <3>1. i \in 1 .. d + e /\ i <= d
            BY <1>1, <2>1
      <3> QED BY <2>3, <3>1
    <2> QED BY <2>4, <2>5
  <1>4. /\ Len(S) = a + c /\ \A i \in 1 .. a + c : S[i] = IF i <= a THEN s[i] ELSE m[i - a]
        /\ Len(T) = b + d /\ \A i \in 1 .. b + d : T[i] = IF i <= b THEN t[i] ELSE u[i - b]
        BY ConcatProperties
  <1>5. PICK skip \in [n + 1 .. b -> 0 .. a - b] :
          /\ \A i \in n + 1 .. b : t[i] = s[i + skip[i]]
          /\ \A i, j \in n + 1 .. b : i <= j => skip[i] <= skip[j]
        BY DEF Abstract!Thins
  <1>6. \A i \in 1 .. n : t[i] = s[i]
        BY DEF Abstract!Thins
  <1> HIDE DEF a, b, c, d, S, T
  <1> DEFINE far == [i \in n + 1 .. b + d |-> IF i <= b THEN skip[i] ELSE a - b]
  <1>7. \A i \in n + 1 .. b : skip[i] \in Nat /\ skip[i] <= a - b
        BY <1>1, <1>5
  <1>8. ASSUME NEW i \in n + 1 .. b + d PROVE far[i] \in 0 .. a - b
    <2>1. CASE i <= b
          BY <1>1, <1>7, <2>1
    <2>2. CASE ~(i <= b)
          BY <1>1, <2>2
    <2> QED BY <2>1, <2>2
  <1>9. /\ far \in [n + 1 .. b + d -> 0 .. a - b]
        /\ \A i \in n + 1 .. b + d : far[i] = IF i <= b THEN skip[i] ELSE a - b
        BY <1>8
  <1> HIDE DEF far
  <1>10. far \in [n + 1 .. b + d -> 0 .. (a + c) - (b + d)]
    <2>1. a - b \in Int /\ (a + c) - (b + d) \in Int /\ a - b <= (a + c) - (b + d)
      <3>1. d <= c
            BY <1>3
      <3> QED BY <1>1, <3>1
    <2>2. \A x \in 0 .. a - b : x \in 0 .. (a + c) - (b + d)
          BY <2>1
    <2> QED BY <1>9, <2>2, Zenon
  <1>11. ASSUME NEW i \in n + 1 .. b + d PROVE T[i] = S[i + far[i]]
    <2>1. CASE i <= b
      <3>1. far[i] = skip[i] /\ i \in n + 1 .. b /\ i \in 1 .. b + d
            BY <1>1, <1>9, <2>1
      <3>2. skip[i] \in Nat /\ skip[i] <= a - b
            BY <1>7, <3>1
      <3>3. i + skip[i] \in 1 .. a + c /\ i + skip[i] <= a
            BY <1>1, <3>1, <3>2, PlaceWithin
      <3>4. T[i] = t[i] /\ S[i + skip[i]] = s[i + skip[i]]
            BY <1>4, <2>1, <3>1, <3>3
      <3> QED BY <1>5, <3>1, <3>4
    <2>2. CASE ~(i <= b)
      <3>1. d <= c
            BY <1>3
      <3>2. i + (a - b) \in 1 .. a + c /\ ~(i + (a - b) <= a)
            /\ i \in 1 .. b + d /\ (i + (a - b)) - a = i - b /\ i - b \in 1 .. d
            BY <1>1, <2>2, <3>1, PlaceBehind
      <3>3. T[i] = u[i - b] /\ S[i + (a - b)] = m[i - b]
            BY <1>4, <2>2, <3>2
      <3>4. far[i] = a - b
            BY <1>9, <2>2
      <3> QED BY <1>3, <3>2, <3>3, <3>4
    <2> QED BY <2>1, <2>2
  <1>12. ASSUME NEW i \in n + 1 .. b + d, NEW j \in n + 1 .. b + d, i <= j
         PROVE  far[i] <= far[j]
    <2>1. CASE j <= b
      <3>1. i \in n + 1 .. b /\ j \in n + 1 .. b /\ i <= b
            BY <1>1, <1>12, <2>1
      <3> QED BY <1>5, <1>9, <1>12, <2>1, <3>1
    <2>2. CASE ~(j <= b)
      <3>1. far[j] = a - b
            BY <1>9, <2>2
      <3>2. far[i] \in 0 .. a - b
            BY <1>9
      <3> QED BY <1>1, <3>1, <3>2
    <2> QED BY <2>1, <2>2
  <1>13. \A i \in 1 .. n : T[i] = S[i]
    <2> TAKE i \in 1 .. n
    <2>1. i <= b /\ i <= a /\ i \in 1 .. b + d /\ i \in 1 .. a + c
          BY <1>1
    <2> QED BY <1>4, <1>6, <2>1
  <1>14. n <= b + d /\ b + d <= a + c
    <2>1. d <= c
          BY <1>3
    <2> QED BY <1>1, <2>1
  <1> QED
    <2>1. /\ n <= Len(T) /\ Len(T) <= Len(S)
          /\ far \in [n + 1 .. Len(T) -> 0 .. Len(S) - Len(T)]
          BY <1>4, <1>10, <1>14
    <2>2. /\ \A i \in n + 1 .. Len(T) : T[i] = S[i + far[i]]
          /\ \A i, j \in n + 1 .. Len(T) : i <= j => far[i] <= far[j]
          BY <1>4, <1>11, <1>12
    <2> QED BY <1>13, <2>1, <2>2 DEF Abstract!Thins, S, T

\* ... or all of them, ...
LEMMA ThinsCut ==
  ASSUME NEW s \in Seq(Nat), NEW t \in Seq(Nat), NEW n \in Nat, Begins(t, s), n <= Len(t)
  PROVE  Abstract!Thins(n, s, t)
  <1>1. PICK v \in Seq(Nat) : s = t \o v
        BY DEF Begins
  <1>2. Begins(<<>>, v) /\ <<>> \in Seq(Nat)
    <2>1. <<>> \in Seq(Nat) /\ v = <<>> \o v
          BY EmptySeq, ConcatEmptySeq
    <2> QED BY <2>1 DEF Begins
  <1>3. Abstract!Thins(n, t, t)
        BY ThinsItself
  <1>4. Abstract!Thins(n, t \o v, t \o <<>>)
        BY <1>2, <1>3, ThinsLonger
  <1> QED BY <1>1, <1>4, ConcatEmptySeq

\* ... and more of what is left.
LEMMA ThinsTwice ==
  ASSUME NEW r \in Seq(Nat), NEW s \in Seq(Nat), NEW t \in Seq(Nat),
         NEW n \in Nat, NEW k \in Nat, n <= k,
         Abstract!Thins(n, r, s), Abstract!Thins(k, s, t)
  PROVE  Abstract!Thins(n, r, t)
  <1> DEFINE a == Len(r)
             b == Len(s)
             c == Len(t)
  <1>1. a \in Nat /\ b \in Nat /\ c \in Nat /\ c <= b /\ b <= a /\ n <= b /\ k <= c
        BY LenProperties DEF Abstract!Thins
  <1>2. /\ \A i \in 1 .. n : s[i] = r[i]
        /\ \A i \in 1 .. k : t[i] = s[i]
        BY DEF Abstract!Thins
  <1>3. PICK f \in [n + 1 .. b -> 0 .. a - b] :
          /\ \A i \in n + 1 .. b : s[i] = r[i + f[i]]
          /\ \A i, j \in n + 1 .. b : i <= j => f[i] <= f[j]
        BY DEF Abstract!Thins
  <1>4. PICK g \in [k + 1 .. c -> 0 .. b - c] :
          /\ \A i \in k + 1 .. c : t[i] = s[i + g[i]]
          /\ \A i, j \in k + 1 .. c : i <= j => g[i] <= g[j]
        BY DEF Abstract!Thins
  <1> HIDE DEF a, b, c
  <1> DEFINE more == [i \in n + 1 .. c |-> IF i <= k THEN 0 ELSE g[i]]
             skip == [i \in n + 1 .. c |-> more[i] + f[i + more[i]]]
  <1>5. \A i \in n + 1 .. b : f[i] \in Nat /\ f[i] <= a - b
        BY <1>1, <1>3
  <1>6. ASSUME NEW i \in n + 1 .. c
        PROVE  /\ more[i] \in Nat /\ more[i] <= b - c /\ i + more[i] \in n + 1 .. b
               /\ t[i] = s[i + more[i]]
    <2>1. CASE i <= k
      <3>1. more[i] = 0 /\ i \in 1 .. k /\ i \in n + 1 .. b /\ i + 0 = i
            BY <1>1, <2>1
      <3> QED BY <1>1, <1>2, <3>1
    <2>2. CASE ~(i <= k)
      <3> DEFINE x == g[i]
      <3>1. more[i] = x /\ i \in k + 1 .. c /\ i \in Int
            BY <2>2
      <3>2. x \in Nat /\ x <= b - c /\ t[i] = s[i + x]
            BY <1>1, <1>4, <3>1
      <3> HIDE DEF x, more
      <3>3. x <= b - c => i + x \in n + 1 .. b
            BY <1>1, <3>2
      <3> QED BY <3>1, <3>2, <3>3
    <2> QED BY <2>1, <2>2
  <1>7. ASSUME NEW i \in n + 1 .. c, NEW j \in n + 1 .. c, i <= j
        PROVE  more[i] <= more[j]
    <2>1. CASE i <= k
      <3>1. more[i] = 0
            BY <2>1
      <3> HIDE DEF more
      <3> QED BY <1>6, <3>1
    <2>2. CASE ~(i <= k)
      <3>1. i \in k + 1 .. c /\ j \in k + 1 .. c /\ more[i] = g[i] /\ more[j] = g[j]
            BY <1>7, <2>2
      <3> QED BY <1>4, <1>7, <3>1
    <2> QED BY <2>1, <2>2
  <1> HIDE DEF more
  <1>8. ASSUME NEW i \in n + 1 .. c
        PROVE  /\ skip[i] = more[i] + f[i + more[i]]
               /\ skip[i] \in 0 .. a - c /\ t[i] = r[i + skip[i]]
    <2>1. skip[i] = more[i] + f[i + more[i]]
          OBVIOUS
    <2> HIDE DEF skip
    <2> DEFINE q == i + more[i]
    <2>2. /\ more[i] \in Nat /\ more[i] <= b - c /\ q \in n + 1 .. b /\ t[i] = s[q]
          BY <1>6
    <2>3. f[q] \in Nat /\ f[q] <= a - b /\ s[q] = r[q + f[q]]
          BY <1>3, <1>5, <2>2
    <2>4. q + f[q] = i + (more[i] + f[q])
      <3>1. i \in Int
            OBVIOUS
      <3>2. more[i] \in Int /\ f[q] \in Int
            BY <2>2, <2>3
      <3> QED BY <3>1, <3>2
    <2>5. skip[i] = more[i] + f[q]
          BY <2>1
    <2>6. more[i] + f[q] \in 0 .. a - c
          BY <1>1, <2>2, <2>3, FurtherTwice, Zenon
    <2>7. t[i] = r[i + skip[i]]
          BY <2>2, <2>3, <2>4, <2>5
    <2> QED BY <2>1, <2>5, <2>6, <2>7
  <1>9. skip \in [n + 1 .. c -> 0 .. a - c]
        BY <1>8
  <1> HIDE DEF skip
  <1>10. ASSUME NEW i \in n + 1 .. c, NEW j \in n + 1 .. c, i <= j
         PROVE  skip[i] <= skip[j]
    <2>1. more[i] <= more[j]
          BY <1>7, <1>10
    <2> DEFINE p == i + more[i]
               q == j + more[j]
    <2>2. p \in n + 1 .. b /\ q \in n + 1 .. b /\ more[i] \in Nat /\ more[j] \in Nat
          BY <1>6
    <2>3. p <= q
      <3>1. i \in Int /\ j \in Int
            OBVIOUS
      <3> QED BY <1>10, <2>1, <2>2, <3>1, BothGrow
    <2>4. skip[i] = more[i] + f[p] /\ skip[j] = more[j] + f[q]
          BY <1>8
    <2> HIDE DEF p, q
    <2>5. f[p] <= f[q]
          BY <1>3, <2>2, <2>3
    <2>6. f[p] \in Nat /\ f[q] \in Nat
          BY <1>5, <2>2
    <2>7. more[i] + f[p] <= more[j] + f[q]
      <3>1. more[i] \in Int /\ more[j] \in Int
            BY <2>2
      <3> QED BY <2>1, <2>5, <2>6, <3>1, BothGrow, Zenon
    <2> QED BY <2>4, <2>7, Zenon
  <1>11. \A i \in 1 .. n : t[i] = r[i]
    <2> TAKE i \in 1 .. n
    <2>1. i \in 1 .. k
          OBVIOUS
    <2> QED BY <1>2, <2>1
  <1>12. n <= c /\ c <= a
        BY <1>1
  <1> QED
    <2>1. /\ skip \in [n + 1 .. Len(t) -> 0 .. Len(r) - Len(t)]
          /\ \A i \in n + 1 .. Len(t) : t[i] = r[i + skip[i]]
          /\ \A i, j \in n + 1 .. Len(t) : i <= j => skip[i] <= skip[j]
          BY <1>8, <1>9, <1>10, Zenon DEF a, c
    <2> QED BY <1>11, <1>12, <2>1, Zenon DEF Abstract!Thins, a, c

-------------------------------------------------------------------------------
(***************************************************************************)
(* The calls, as functions of the object.                                  *)
(***************************************************************************)
\* The members of an object, and the file.
Logs ==
  [hfile : {"Open", "Bad", "Err"}, wrbuf : BOOLEAN, max : Nat, buf : Seq(Nat), err : BOOLEAN,
   ret : BOOLEAN, file : Seq(Nat), checks : BOOLEAN,
   fault : {"None", "Written", "Full", "Buffer"}, disk : Seq(Int),
   went : {"All", "Part", "Nothing", "Error"}, lost : BOOLEAN]

\* The types of the members, one by one.
LEMMA Fields ==
  ASSUME NEW L \in Logs
  PROVE  /\ L.hfile \in {"Open", "Bad", "Err"} /\ L.wrbuf \in BOOLEAN /\ L.max \in Nat
         /\ L.buf \in Seq(Nat) /\ Len(L.buf) \in Nat /\ L.err \in BOOLEAN /\ L.ret \in BOOLEAN
         /\ L.file \in Seq(Nat) /\ Len(L.file) \in Nat /\ L.checks \in BOOLEAN
         /\ L.fault \in {"None", "Written", "Full", "Buffer"} /\ L.disk \in Seq(Int)
         /\ L.went \in {"All", "Part", "Nothing", "Error"} /\ L.lost \in BOOLEAN
         /\ IsStarted(L) <=> L.hfile # "Bad"
BY LenProperties DEF Logs, IsStarted

\* Each fault has its cause.
Caused(L) ==
  /\ L.fault = "Written" => L.checks /\ L.went \in {"Part", "Error"}
  /\ L.fault = "Full" => L.checks /\ L.went = "Nothing"
  /\ L.fault = "Buffer" => L.hfile = "Err"
  /\ L.checks /\ L.fault = "None" => L.went # "Part"

\* The buffer is there and has room, but when the disk has just taken nothing.  A
\* handle that is an error code has none.
Roomy(L) ==
  /\ L.hfile = "Open" => L.wrbuf /\ Len(L.buf) <= L.max
  /\ (Accepts(L) /\ L.went # "Nothing") => Len(L.buf) < L.max
  /\ L.hfile # "Bad" => 0 < L.max
  /\ L.hfile = "Err" => L.buf = <<>> /\ ~L.wrbuf

\* An object between two calls.
SoundLog(L) == L \in Logs /\ Caused(L) /\ Roomy(L)

\* The handle, the buffer and its size, and the build are the same.
SameFile(L, K) ==
  K.hfile = L.hfile /\ K.wrbuf = L.wrbuf /\ K.max = L.max /\ K.checks = L.checks

\* Returns() changes the answer only.
LEMMA ReturnsFields ==
  ASSUME NEW L \in Logs, NEW r \in BOOLEAN
  PROVE  LET K == Returns(L, r)
         IN  /\ K \in Logs /\ SameFile(L, K) /\ K.buf = L.buf /\ K.err = L.err
             /\ K.file = L.file /\ K.fault = L.fault /\ K.went = L.went /\ K.lost = L.lost
             /\ K.ret = r
BY DEF Returns, Logs, SameFile

\* ... and Fails() that, too, and the fault.
LEMMA FailsFields ==
  ASSUME NEW L \in Logs, NEW f \in {"Written", "Full", "Buffer"}
  PROVE  LET K == Fails(L, f)
         IN  /\ K \in Logs /\ SameFile(L, K) /\ K.buf = L.buf /\ K.err = L.err
             /\ K.file = L.file /\ K.fault = f /\ K.went = L.went /\ K.lost = L.lost
             /\ K.ret = FALSE
BY DEF Fails, Logs, SameFile

\* What a write that is given some bytes leaves: u of them in the file, and how it
\* went.
WentOut(L, W, bytes, u) ==
  /\ W \in Logs /\ SameFile(L, W) /\ W.buf = L.buf /\ W.err = L.err
  /\ W.fault = L.fault /\ W.lost = L.lost
  /\ u \in Seq(Nat) /\ Begins(u, bytes) /\ W.file = L.file \o u
  /\ W.went = "All" => u = bytes
  /\ W.went \in {"Nothing", "Error"} => u = <<>>
  /\ L.hfile # "Open" => W.went = "Error"

LEMMA WriteResult ==
  ASSUME NEW L \in Logs, NEW bytes \in Seq(Nat)
  PROVE  \E u : WentOut(L, Write(L, bytes), bytes, u)
  <1> DEFINE l == Len(bytes)
             most == IF L.hfile # "Open" THEN -1 ELSE IF L.disk = <<>> THEN l ELSE Head(L.disk)
             done == IF most < l THEN most ELSE l
             u == SubSeq(bytes, 1, done)
             f == L.file \o u
             d == IF L.disk = <<>> THEN L.disk ELSE Tail(L.disk)
             w == CASE done < 0 -> "Error" [] done = 0 -> "Nothing"
                    [] 0 < done /\ done < l -> "Part" [] OTHER -> "All"
             W == [L EXCEPT !.file = f, !.disk = d, !.went = w]
  <1>1. l \in Nat /\ L.disk \in Seq(Int) /\ L.file \in Seq(Nat)
        BY Fields, LenProperties
  <1>2. most \in Int /\ d \in Seq(Int) /\ (L.hfile # "Open" => most = -1)
    <2>1. L.disk # <<>> => Head(L.disk) \in Int /\ Tail(L.disk) \in Seq(Int)
          BY <1>1, HeadTailProperties
    <2> QED BY <1>1, <2>1
  <1> HIDE DEF most
  <1>3. done \in Int /\ done <= l /\ (L.hfile # "Open" => done < 0)
        BY <1>1, <1>2
  <1> HIDE DEF done
  <1>4. /\ w \in {"All", "Part", "Nothing", "Error"}
        /\ w = "All" => done = l
        /\ w \in {"Nothing", "Error"} => done <= 0
        /\ L.hfile # "Open" => w = "Error"
    <2>1. CASE done < 0
          BY <1>1, <1>3, <2>1
    <2>2. CASE done = 0
          BY <1>1, <1>3, <2>2
    <2>3. CASE 0 < done /\ done < l
          BY <1>1, <1>3, <2>3
    <2>4. CASE 0 < done /\ ~(done < l)
          BY <1>1, <1>3, <2>4
    <2> QED BY <1>3, <2>1, <2>2, <2>3, <2>4
  <1>5. u \in Seq(Nat) /\ Begins(u, bytes) /\ (done = l => u = bytes) /\ (done <= 0 => u = <<>>)
    <2>1. done <= 0 => u = <<>>
          BY <1>3, SubSeqEmpty
    <2>2. CASE done <= 0
      <3>1. bytes = <<>> \o bytes /\ <<>> \in Seq(Nat)
            BY ConcatEmptySeq, EmptySeq
      <3>2. done = l => bytes = <<>>
            BY <1>1, <2>2, EmptySeq
      <3> QED BY <2>1, <2>2, <3>1, <3>2 DEF Begins
    <2>3. CASE ~(done <= 0)
      <3>1. done \in 0 .. l
            BY <1>1, <1>3, <2>3
      <3>2. /\ u \in Seq(Nat) /\ SubSeq(bytes, done + 1, l) \in Seq(Nat)
            /\ u \o SubSeq(bytes, done + 1, l) = bytes
            BY <3>1, CutInTwo
      <3>3. done = l => u = bytes
            BY SubSeqFull
      <3> QED BY <2>1, <3>2, <3>3 DEF Begins
    <2> QED BY <2>2, <2>3
  <1> HIDE DEF l, u, w, d
  <1>6. f \in Seq(Nat)
        BY <1>1, <1>5, Joined
  <1>7. Write(L, bytes) = W
        BY Zenon DEF Write, l, most, done, u, f, d, w
  <1> HIDE DEF f
  <1>8. /\ W \in Logs /\ SameFile(L, W) /\ W.buf = L.buf /\ W.err = L.err
        /\ W.fault = L.fault /\ W.lost = L.lost /\ W.file = f /\ W.went = w
        BY <1>2, <1>4, <1>6 DEF Logs, SameFile
  <1> HIDE DEF W
  <1>9. WentOut(L, W, bytes, u)
        BY <1>4, <1>5, <1>8 DEF WentOut, f
  <1> QED BY <1>7, <1>9

\* What the client has been promised, and what is in the file of it.
Bytes(L) == L.file \o InStream(L)

\* What a flush leaves: u of the buffer in the file, and the buffer empty, or as it
\* was and a reason to refuse.
Refused(L, F) ==
  \/ F.fault = "Written" /\ F.hfile = "Open" /\ F.checks /\ F.went = "Part"
  \/ /\ F.fault = "None" /\ (F.hfile = "Bad" \/ F.err)
     /\ F.went # "Part" \/ F.went = L.went
  \/ /\ F.fault = "None" /\ F.went = "Nothing" /\ F.lost /\ ~F.err /\ Accepts(L)
     /\ F.file = L.file
Flushed(L, F, u) ==
  /\ F \in Logs /\ SameFile(L, F) /\ (L.lost => F.lost)
  /\ u \in Seq(Nat) /\ Begins(u, InStream(L)) /\ F.file = L.file \o u
  /\ F.ret => /\ F.fault = "None" /\ F.buf = <<>> /\ ~F.err /\ ~L.err /\ F.hfile # "Bad"
              /\ F.checks => F.went # "Part" \/ F.went = L.went
              /\ ~F.lost => u = InStream(L)
  /\ ~F.ret => F.buf = L.buf /\ Refused(L, F)

\* FlushBuffer() does so in each of its cases.
LEMMA FlushResult ==
  ASSUME NEW L \in Logs, L.fault = "None", L.hfile = "Err" => L.buf = <<>>
  PROVE  \E u : Flushed(L, FlushBuffer(L), u)
  <1> DEFINE W == Write(L, L.buf)
             K == FlushBuffer(L)
  <1>0. /\ L.hfile \in {"Open", "Bad", "Err"} /\ L.buf \in Seq(Nat) /\ L.file \in Seq(Nat)
        /\ L.err \in BOOLEAN /\ (IsStarted(L) <=> L.hfile # "Bad")
        BY Fields
  <1>1. /\ L.file = L.file \o <<>> /\ <<>> \in Seq(Nat)
        /\ InStream(L) \in Seq(Nat) /\ Begins(<<>>, InStream(L))
    <2>1. InStream(L) \in Seq(Nat)
          BY <1>0, EmptySeq DEF InStream
    <2>2. InStream(L) = <<>> \o InStream(L) /\ <<>> \in Seq(Nat)
          BY <2>1, ConcatEmptySeq, EmptySeq
    <2> QED BY <1>0, <2>1, <2>2, ConcatEmptySeq DEF Begins
  <1>2. CASE ~IsStarted(L) \/ L.err
    <2> DEFINE F == Returns(L, FALSE)
    <2>1. K = F
          BY <1>2 DEF FlushBuffer
    <2>2. /\ F \in Logs /\ SameFile(L, F) /\ F.buf = L.buf /\ F.err = L.err /\ F.file = L.file
          /\ F.fault = L.fault /\ F.went = L.went /\ F.lost = L.lost /\ F.ret = FALSE
          BY ReturnsFields
    <2> HIDE DEF F, K
    <2>3. Flushed(L, F, <<>>)
          BY <1>0, <1>1, <1>2, <2>2 DEF Flushed, Refused, SameFile
    <2> QED BY <2>1, <2>3 DEF K
  <1>3. CASE IsStarted(L) /\ ~L.err /\ L.buf = <<>>
    <2> DEFINE F == Returns(L, TRUE)
    <2>1. K = F
          BY <1>3 DEF FlushBuffer
    <2>2. /\ F \in Logs /\ SameFile(L, F) /\ F.buf = L.buf /\ F.err = L.err /\ F.file = L.file
          /\ F.fault = L.fault /\ F.went = L.went /\ F.lost = L.lost /\ F.ret = TRUE
          BY ReturnsFields
    <2>3. InStream(L) = <<>>
          BY <1>3 DEF InStream
    <2> HIDE DEF F, K
    <2>4. Flushed(L, F, <<>>)
          BY <1>0, <1>1, <1>3, <2>2, <2>3 DEF Flushed, SameFile
    <2> QED BY <2>1, <2>4 DEF K
  <1>4. CASE IsStarted(L) /\ ~L.err /\ L.buf # <<>>
    <2>1. K = CASE W.went = "Error" -> [W EXCEPT !.err = TRUE, !.ret = FALSE]
                [] W.went = "Nothing" -> [W EXCEPT !.lost = TRUE, !.ret = FALSE]
                [] W.went = "Part" /\ W.checks -> Fails(W, "Written")
                [] W.went = "Part" /\ ~W.checks ->
                     [W EXCEPT !.buf = <<>>, !.lost = TRUE, !.ret = TRUE]
                [] W.went = "All" -> [W EXCEPT !.buf = <<>>, !.ret = TRUE]
          BY <1>4, Zenon DEF FlushBuffer
    <2>2. PICK u : WentOut(L, W, L.buf, u)
          BY <1>0, WriteResult
    <2> HIDE DEF W, K
    <2>3. /\ W \in Logs /\ SameFile(L, W) /\ W.buf = L.buf /\ W.err = L.err
          /\ W.fault = L.fault /\ W.lost = L.lost
          /\ u \in Seq(Nat) /\ Begins(u, L.buf) /\ W.file = L.file \o u
          /\ W.went = "All" => u = L.buf
          /\ W.went \in {"Nothing", "Error"} => u = <<>>
          BY <2>2 DEF WentOut
    <2>4. /\ L.hfile = "Open" /\ Accepts(L) /\ InStream(L) = L.buf
          BY <1>0, <1>4 DEF Accepts, InStream
    <2>5. W.went \in {"All", "Part", "Nothing", "Error"} /\ W.checks \in BOOLEAN
          BY <2>3, Fields
    <2>6. W.hfile = "Open" /\ ~W.err
          BY <1>4, <2>3, <2>4 DEF SameFile
    <2>7. CASE W.went = "Error"
      <3> DEFINE F == [W EXCEPT !.err = TRUE, !.ret = FALSE]
      <3>1. K = F
            BY <2>1, <2>7
      <3>2. /\ F \in Logs /\ SameFile(W, F) /\ F.buf = W.buf /\ F.err = TRUE /\ F.file = W.file
            /\ F.fault = W.fault /\ F.went = W.went /\ F.lost = W.lost /\ F.ret = FALSE
            BY <2>3 DEF Logs, SameFile
      <3> HIDE DEF F
      <3>3. Refused(L, F)
            BY <2>3, <2>7, <3>2 DEF Refused
      <3>4. Flushed(L, F, u)
            BY <2>3, <2>4, <3>2, <3>3 DEF Flushed, SameFile
      <3> QED BY <3>1, <3>4 DEF K
    <2>8. CASE W.went = "Nothing"
      <3> DEFINE F == [W EXCEPT !.lost = TRUE, !.ret = FALSE]
      <3>1. K = F
            BY <2>1, <2>8
      <3>2. /\ F \in Logs /\ SameFile(W, F) /\ F.buf = W.buf /\ F.err = W.err /\ F.file = W.file
            /\ F.fault = W.fault /\ F.went = W.went /\ F.lost = TRUE /\ F.ret = FALSE
            BY <2>3 DEF Logs, SameFile
      <3> HIDE DEF F
      <3>3. F.file = L.file
            BY <1>1, <2>3, <2>8, <3>2
      <3>4. Refused(L, F)
            BY <2>3, <2>4, <2>6, <2>8, <3>2, <3>3 DEF Refused
      <3>5. Flushed(L, F, u)
            BY <2>3, <2>4, <3>2, <3>4 DEF Flushed, SameFile
      <3> QED BY <3>1, <3>5 DEF K
    <2>9. CASE W.went = "Part" /\ W.checks
      <3> DEFINE F == Fails(W, "Written")
      <3>1. K = F
            BY <2>1, <2>9
      <3>2. /\ F \in Logs /\ SameFile(W, F) /\ F.buf = W.buf /\ F.err = W.err /\ F.file = W.file
            /\ F.fault = "Written" /\ F.went = W.went /\ F.lost = W.lost /\ F.ret = FALSE
            BY <2>3, FailsFields
      <3> HIDE DEF F
      <3>3. Refused(L, F)
            BY <2>6, <2>9, <3>2 DEF Refused, SameFile
      <3>4. Flushed(L, F, u)
            BY <2>3, <2>4, <3>2, <3>3 DEF Flushed, SameFile
      <3> QED BY <3>1, <3>4 DEF K
    <2>10. CASE W.went = "Part" /\ ~W.checks
      <3> DEFINE F == [W EXCEPT !.buf = <<>>, !.lost = TRUE, !.ret = TRUE]
      <3>1. K = F
            BY <2>1, <2>10
      <3>2. /\ F \in Logs /\ SameFile(W, F) /\ F.buf = <<>> /\ F.err = W.err /\ F.file = W.file
            /\ F.fault = W.fault /\ F.went = W.went /\ F.lost = TRUE /\ F.ret = TRUE
            BY <1>1, <2>3 DEF Logs, SameFile
      <3> HIDE DEF F
      <3>3. Flushed(L, F, u)
            BY <1>4, <2>3, <2>4, <2>6, <2>10, <3>2 DEF Flushed, SameFile
      <3> QED BY <3>1, <3>3 DEF K
    <2>11. CASE W.went = "All"
      <3> DEFINE F == [W EXCEPT !.buf = <<>>, !.ret = TRUE]
      <3>1. K = F
            BY <2>1, <2>11
      <3>2. /\ F \in Logs /\ SameFile(W, F) /\ F.buf = <<>> /\ F.err = W.err /\ F.file = W.file
            /\ F.fault = W.fault /\ F.went = W.went /\ F.lost = W.lost /\ F.ret = TRUE
            BY <1>1, <2>3 DEF Logs, SameFile
      <3> HIDE DEF F
      <3>3. Flushed(L, F, u)
            BY <1>4, <2>3, <2>4, <2>6, <2>11, <3>2 DEF Flushed, SameFile
      <3> QED BY <3>1, <3>3 DEF K
    <2> QED BY <2>5, <2>7, <2>8, <2>9, <2>10, <2>11
  <1> QED BY <1>2, <1>3, <1>4

\* What a call that is given t leaves: t behind all the rest, or no more of it
\* than a beginning, an answer that says which, and nothing lost from the file; if
\* a write fell short, some of the bytes that are not in the file may be missing.
\* One that did not take bytes gets no more of them into the file.
Put(L, K, t) ==
  /\ SoundLog(K) /\ SameFile(L, K)
  /\ Len(L.file) <= Len(K.file)
  /\ Abstract!Thins(Len(L.file), Bytes(L) \o t, Bytes(K))
  /\ Accepts(K) => Accepts(L)
  /\ ~Accepts(L) => K.file = L.file
  /\ ~K.lost => \/ K.ret /\ Accepts(K) /\ Bytes(K) = Bytes(L) \o t
                \/ /\ K.ret /\ K.fault = "None" /\ t = <<>>
                   /\ K.file = L.file /\ Bytes(K) = Bytes(L)
                \/ ~K.ret /\ ~Accepts(K) /\ Begins(K.file, Bytes(L) \o t)
Wrote(L, K, t) == Put(L, K, t) /\ (L.lost => K.lost)

\* The types that the mapping needs, and that an object which does not take bytes
\* has promised what is in the file.
LEMMA Typed ==
  ASSUME NEW L \in Logs
  PROVE  /\ L.file \in Seq(Nat) /\ Len(L.file) \in Nat /\ Bytes(L) \in Seq(Nat)
         /\ Len(Bytes(L)) \in Nat /\ Len(L.file) <= Len(Bytes(L))
         /\ Begins(L.file, Bytes(L)) /\ InStream(L) \in Seq(Nat)
         /\ ~Accepts(L) => Bytes(L) = L.file
         /\ Accepts(L) => Bytes(L) = L.file \o L.buf
  <1>1. L.file \in Seq(Nat) /\ InStream(L) \in Seq(Nat)
        BY Fields, EmptySeq DEF InStream
  <1>2. Begins(L.file, Bytes(L)) /\ Bytes(L) \in Seq(Nat)
        BY <1>1, BeginsWith, Joined DEF Bytes
  <1>3. ~Accepts(L) => Bytes(L) = L.file
        BY <1>1, ConcatEmptySeq DEF Bytes, InStream
  <1>4. Len(L.file) <= Len(Bytes(L))
        BY <1>1, <1>2, BeginsCut
  <1>5. Accepts(L) => Bytes(L) = L.file \o L.buf
        BY DEF Bytes, InStream
  <1> QED BY <1>1, <1>2, <1>3, <1>4, <1>5, LenProperties

\* A call that leaves some of the bytes and refuses, or that all are there.
LEMMA PutBeginning ==
  ASSUME NEW L, SoundLog(L), NEW K, SoundLog(K), SameFile(L, K), NEW t \in Seq(Nat),
         Len(L.file) <= Len(K.file), Accepts(K) => Accepts(L), ~Accepts(L) => K.file = L.file,
         Begins(Bytes(K), Bytes(L) \o t),
         K.lost \/ (~K.ret /\ ~Accepts(K)) \/ (K.ret /\ Accepts(K) /\ Bytes(K) = Bytes(L) \o t)
           \/ (K.ret /\ K.fault = "None" /\ t = <<>> /\ K.file = L.file /\ Bytes(K) = Bytes(L))
  PROVE  Put(L, K, t)
  <1>1. L \in Logs /\ K \in Logs
        BY DEF SoundLog
  <1>2. /\ Bytes(L) \in Seq(Nat) /\ Bytes(K) \in Seq(Nat) /\ Len(L.file) \in Nat
        /\ Len(K.file) \in Nat /\ Len(K.file) <= Len(Bytes(K)) /\ Len(Bytes(K)) \in Nat
        /\ ~Accepts(K) => Bytes(K) = K.file
        BY <1>1, Typed
  <1>3. Bytes(L) \o t \in Seq(Nat)
        BY <1>2, Joined
  <1>4. Len(L.file) <= Len(Bytes(K))
        BY <1>2
  <1>5. Abstract!Thins(Len(L.file), Bytes(L) \o t, Bytes(K))
        BY <1>2, <1>3, <1>4, ThinsCut
  <1>6. ~Accepts(K) => Begins(K.file, Bytes(L) \o t)
        BY <1>2
  <1> QED BY <1>5, <1>6, Zenon DEF Put

\* A flush that the object survives leaves it sound, and adds nothing.
LEMMA FlushWrote ==
  ASSUME NEW L, SoundLog(L), L.fault = "None", NEW F, NEW u, Flushed(L, F, u)
  PROVE  /\ Wrote(L, F, <<>>)
         /\ F.ret => F.buf = <<>> /\ F.fault = "None" /\ ~F.err /\ F.hfile # "Bad"
         /\ F.ret /\ ~F.lost => F.file = Bytes(L) /\ Bytes(F) = Bytes(L)
  <1>1. /\ L \in Logs /\ Caused(L) /\ Roomy(L)
        BY DEF SoundLog
  <1>2. /\ F \in Logs /\ SameFile(L, F) /\ (L.lost => F.lost)
        /\ u \in Seq(Nat) /\ Begins(u, InStream(L)) /\ F.file = L.file \o u
        BY DEF Flushed
  <1>3. /\ L.file \in Seq(Nat) /\ Len(L.file) \in Nat /\ InStream(L) \in Seq(Nat)
        /\ Bytes(L) \in Seq(Nat) /\ <<>> \in Seq(Nat) /\ Bytes(L) \o <<>> = Bytes(L)
        /\ L.file \o <<>> = L.file /\ Len(<<>>) = 0 /\ L.buf \in Seq(Nat)
        BY <1>1, Typed, Fields, EmptySeq, ConcatEmptySeq
  <1>4. Len(L.file) <= Len(F.file) /\ F.file \in Seq(Nat) /\ Len(F.buf) \in Nat /\ L.max \in Nat
        BY <1>1, <1>2, <1>3, Joined, Fields
  <1>5. Begins(F.file, Bytes(L))
        BY <1>2, <1>3, BeginsBehind DEF Bytes
  <1>6. ~Accepts(L) => u = <<>>
    <2> SUFFICES ASSUME ~Accepts(L) PROVE u = <<>>
        OBVIOUS
    <2>1. PICK v \in Seq(Nat) : <<>> = u \o v
          BY <1>2 DEF Begins, InStream
    <2>2. Len(u) + Len(v) = Len(<<>>) /\ Len(u) \in Nat /\ Len(v) \in Nat /\ Len(<<>>) = 0
          BY <1>2, <2>1, Joined, LenProperties, EmptySeq
    <2>3. Len(u) = 0
          BY <2>2
    <2> QED BY <1>2, <2>3, EmptySeq
  <1>7. ~Accepts(L) => F.file = L.file
        BY <1>2, <1>3, <1>6
  <1>8. CASE F.ret
    <2>1. /\ F.fault = "None" /\ F.buf = <<>> /\ ~F.err /\ ~L.err /\ F.hfile # "Bad"
          /\ F.checks => F.went # "Part" \/ F.went = L.went
          /\ ~F.lost => u = InStream(L)
          BY <1>8 DEF Flushed
    <2>2. Accepts(F) => Accepts(L)
          BY <1>2, <2>1 DEF Accepts, SameFile
    <2>3. SoundLog(F)
      <3>1. Caused(F)
            BY <1>1, <1>2, <2>1 DEF Caused, SameFile
      <3>2. Roomy(F)
            BY <1>1, <1>2, <1>3, <1>4, <2>1 DEF Roomy, SameFile
      <3> QED BY <1>2, <3>1, <3>2 DEF SoundLog
    <2>4. Bytes(F) = F.file
          BY <1>2, <1>4, <2>1, ConcatEmptySeq, Typed
    <2>5. ~F.lost => F.file = Bytes(L)
          BY <1>2, <2>1 DEF Bytes
    <2>6. ~F.lost => Accepts(F) \/ (F.file = L.file /\ Bytes(F) = Bytes(L))
          BY <1>2, <1>7, <2>1, <2>4, <2>5 DEF Accepts, SameFile
    <2>7. Put(L, F, <<>>)
          BY <1>2, <1>3, <1>4, <1>5, <1>7, <1>8, <2>1, <2>2, <2>3, <2>4, <2>5, <2>6, PutBeginning
    <2> QED BY <1>2, <2>1, <2>4, <2>5, <2>7 DEF Wrote
  <1>9. CASE ~F.ret
    <2>1. F.buf = L.buf /\ Refused(L, F)
          BY <1>9 DEF Flushed
    <2>2. \/ F.fault = "Written" /\ F.hfile = "Open" /\ F.checks /\ F.went = "Part"
          \/ /\ F.fault = "None" /\ ~Accepts(F)
             /\ F.went # "Part" \/ F.went = L.went
          \/ /\ F.fault = "None" /\ F.went = "Nothing" /\ F.lost /\ ~F.err /\ Accepts(L)
             /\ F.file = L.file
          BY <2>1 DEF Refused, Accepts
    <2>3. SoundLog(F)
      <3>1. Caused(F)
            BY <1>1, <1>2, <2>2 DEF Caused, SameFile
      <3>2. Roomy(F)
            BY <1>1, <1>2, <2>1, <2>2 DEF Roomy, SameFile, Accepts
      <3> QED BY <1>2, <3>1, <3>2 DEF SoundLog
    <2>4. CASE ~Accepts(F)
      <3>1. Bytes(F) = F.file
            BY <1>2, <2>4, Typed
      <3>2. Put(L, F, <<>>)
            BY <1>2, <1>3, <1>4, <1>5, <1>7, <1>9, <2>3, <2>4, <3>1, PutBeginning
      <3> QED BY <1>2, <1>9, <3>2 DEF Wrote
    <2>5. CASE Accepts(F)
      <3>1. F.lost /\ Accepts(L) /\ F.file = L.file
            BY <2>2, <2>5 DEF Accepts
      <3>2. Bytes(F) = Bytes(L)
            BY <1>1, <1>2, <2>1, <2>5, <3>1, Typed
      <3>3. Begins(Bytes(F), Bytes(L) \o <<>>)
            BY <1>3, <3>2, BeginsItself
      <3>4. Put(L, F, <<>>)
            BY <1>2, <1>3, <1>4, <2>3, <3>1, <3>3, PutBeginning
      <3> QED BY <1>2, <1>9, <3>4 DEF Wrote
    <2> QED BY <2>4, <2>5
  <1> QED BY <1>8, <1>9

\* The next bytes go behind those before them.
LEMMA WroteTwo ==
  ASSUME NEW L, SoundLog(L), NEW K, NEW J, NEW t \in Seq(Nat), NEW m \in Seq(Nat),
         m # <<>>, Wrote(L, K, t), Wrote(K, J, m)
  PROVE  Wrote(L, J, t \o m)
  <1> DEFINE n == Len(L.file)
             k == Len(K.file)
             whole == Bytes(L) \o (t \o m)
  <1>1. L \in Logs /\ K \in Logs /\ J \in Logs /\ SoundLog(J) /\ SameFile(L, J)
        BY DEF Wrote, Put, SoundLog, SameFile
  <1>2. /\ n \in Nat /\ k \in Nat /\ Len(J.file) \in Nat /\ L.file \in Seq(Nat)
        /\ K.file \in Seq(Nat) /\ J.file \in Seq(Nat) /\ Bytes(L) \in Seq(Nat)
        /\ Bytes(K) \in Seq(Nat) /\ Bytes(J) \in Seq(Nat)
        BY <1>1, Typed
  <1>3. n <= k /\ k <= Len(J.file)
        BY DEF Wrote, Put
  <1>4. /\ (Bytes(L) \o t) \o m = whole /\ Bytes(L) \o t \in Seq(Nat)
        /\ Bytes(K) \o m \in Seq(Nat) /\ whole \in Seq(Nat)
    <2>1. (Bytes(L) \o t) \o m = whole
      <3>1. \A s \in Seq(Nat) : (s \o t) \o m = s \o (t \o m)
            BY JoinedThree
      <3> QED BY <1>2, <3>1, Zenon
    <2>2. Bytes(L) \o t \in Seq(Nat) /\ Bytes(K) \o m \in Seq(Nat) /\ t \o m \in Seq(Nat)
          BY <1>2, Joined
    <2>3. whole \in Seq(Nat)
          BY <1>2, <2>2, Joined
    <2> QED BY <2>1, <2>2, <2>3
  <1>5. Abstract!Thins(n, whole, Bytes(J))
    <2>1. Abstract!Thins(n, Bytes(L) \o t, Bytes(K)) /\ Abstract!Thins(k, Bytes(K) \o m, Bytes(J))
          BY DEF Wrote, Put
    <2>2. Abstract!Thins(n, (Bytes(L) \o t) \o m, Bytes(K) \o m)
          BY <1>2, <1>4, <2>1, BeginsItself, ThinsLonger
    <2>3. Abstract!Thins(n, whole, Bytes(K) \o m)
          BY <1>4, <2>2
    <2> HIDE DEF whole, n, k
    <2> QED BY <1>2, <1>3, <1>4, <2>1, <2>3, ThinsTwice
  <1>6. /\ Accepts(J) => Accepts(L)
        /\ ~Accepts(L) => J.file = L.file
        /\ L.lost => J.lost
    <2>1. /\ (Accepts(J) => Accepts(K)) /\ (Accepts(K) => Accepts(L))
          /\ (~Accepts(K) => J.file = K.file) /\ (~Accepts(L) => K.file = L.file)
          /\ (L.lost => K.lost) /\ (K.lost => J.lost)
          BY Zenon DEF Wrote, Put
    <2> QED BY <2>1
  <1>7. ~J.lost => \/ J.ret /\ Accepts(J) /\ Bytes(J) = whole
                   \/ ~J.ret /\ ~Accepts(J) /\ Begins(J.file, whole)
    <2> SUFFICES ASSUME ~J.lost
                 PROVE  \/ J.ret /\ Accepts(J) /\ Bytes(J) = whole
                        \/ ~J.ret /\ ~Accepts(J) /\ Begins(J.file, whole)
        OBVIOUS
    <2>1. ~K.lost /\ (Accepts(J) => Accepts(K)) /\ (~Accepts(K) => J.file = K.file)
          BY DEF Wrote, Put
    <2>2. \/ J.ret /\ Accepts(J) /\ Bytes(J) = Bytes(K) \o m
          \/ ~J.ret /\ ~Accepts(J) /\ Begins(J.file, Bytes(K) \o m)
          BY Zenon DEF Wrote, Put
    <2>3. \/ Bytes(K) = Bytes(L) \o t
          \/ ~K.ret /\ ~Accepts(K) /\ Begins(K.file, Bytes(L) \o t)
      <3>1. \/ Bytes(K) = Bytes(L) \o t
            \/ t = <<>> /\ Bytes(K) = Bytes(L)
            \/ ~K.ret /\ ~Accepts(K) /\ Begins(K.file, Bytes(L) \o t)
            BY <2>1, Zenon DEF Wrote, Put
      <3> QED BY <1>2, <3>1, ConcatEmptySeq
    <2>4. CASE Bytes(K) = Bytes(L) \o t
          BY <1>4, <2>2, <2>4
    <2>5. CASE ~Accepts(K) /\ Begins(K.file, Bytes(L) \o t)
      <3>1. ~J.ret /\ ~Accepts(J) /\ J.file = K.file
            BY <2>1, <2>2, <2>5
      <3>2. Begins(K.file, (Bytes(L) \o t) \o m)
            BY <1>2, <1>4, <2>5, BeginsLonger
      <3> QED BY <1>4, <3>1, <3>2
    <2> QED BY <2>3, <2>4, <2>5
  <1> HIDE DEF whole
  <1>8. n <= Len(J.file)
    <2> DEFINE l == Len(J.file)
    <2>1. n \in Nat /\ k \in Nat /\ l \in Nat
          BY <1>2, Zenon
    <2>2. n <= k /\ k <= l
          BY <1>3, Zenon
    <2> HIDE DEF n, k, l
    <2>3. n <= l
          BY <2>1, <2>2
    <2> QED BY <2>3 DEF n, l
  <1> QED BY <1>1, <1>5, <1>6, <1>7, <1>8, Zenon DEF Wrote, Put, whole, n

\* An object that refused, or whose process has ended, takes nothing more.
LEMMA WroteLess ==
  ASSUME NEW L, SoundLog(L), NEW K, NEW t \in Seq(Nat), NEW m \in Seq(Nat),
         ~K.ret \/ K.fault # "None", Wrote(L, K, t)
  PROVE  Wrote(L, K, t \o m)
  <1> DEFINE n == Len(L.file)
             whole == Bytes(L) \o (t \o m)
  <1>1. L \in Logs /\ K \in Logs /\ SoundLog(K) /\ SameFile(L, K)
        BY DEF Wrote, Put, SoundLog
  <1>2. /\ n \in Nat /\ K.file \in Seq(Nat) /\ Bytes(L) \in Seq(Nat) /\ Bytes(K) \in Seq(Nat)
        BY <1>1, Typed
  <1>3. /\ (Bytes(L) \o t) \o m = whole /\ Bytes(L) \o t \in Seq(Nat) /\ whole \in Seq(Nat)
    <2>1. (Bytes(L) \o t) \o m = whole
      <3>1. \A s \in Seq(Nat) : (s \o t) \o m = s \o (t \o m)
            BY JoinedThree
      <3> QED BY <1>2, <3>1, Zenon
    <2>2. Bytes(L) \o t \in Seq(Nat) /\ t \o m \in Seq(Nat)
          BY <1>2, Joined
    <2>3. whole \in Seq(Nat)
          BY <1>2, <2>2, Joined
    <2> QED BY <2>1, <2>2, <2>3
  <1>4. Abstract!Thins(n, whole, Bytes(K))
    <2>1. Abstract!Thins(n, Bytes(L) \o t, Bytes(K))
          BY DEF Wrote, Put
    <2>2. Begins(<<>>, m) /\ <<>> \in Seq(Nat) /\ Bytes(K) \o <<>> = Bytes(K)
      <3>1. m = <<>> \o m /\ <<>> \in Seq(Nat)
            BY ConcatEmptySeq, EmptySeq
      <3> QED BY <1>2, <3>1, ConcatEmptySeq DEF Begins
    <2>3. Abstract!Thins(n, (Bytes(L) \o t) \o m, Bytes(K) \o <<>>)
          BY <1>2, <1>3, <2>1, <2>2, ThinsLonger
    <2> QED BY <1>3, <2>2, <2>3
  <1>5. ~K.lost => ~K.ret /\ ~Accepts(K) /\ Begins(K.file, whole)
    <2> SUFFICES ASSUME ~K.lost PROVE ~K.ret /\ ~Accepts(K) /\ Begins(K.file, whole)
        OBVIOUS
    <2>1. ~K.ret /\ ~Accepts(K) /\ Begins(K.file, Bytes(L) \o t)
          BY DEF Wrote, Put, Accepts
    <2>2. Begins(K.file, (Bytes(L) \o t) \o m)
          BY <1>2, <1>3, <2>1, BeginsLonger
    <2> QED BY <1>3, <2>1, <2>2
  <1> HIDE DEF whole
  <1>6. /\ n <= Len(K.file) /\ (Accepts(K) => Accepts(L)) /\ (~Accepts(L) => K.file = L.file)
        /\ (L.lost => K.lost)
        BY DEF Wrote, Put
  <1> QED BY <1>1, <1>4, <1>5, <1>6, Zenon DEF Wrote, Put, whole, n

\* A call whose process ends in it.
LEMMA FailedWrote ==
  ASSUME NEW L, SoundLog(L), L.fault = "None", NEW m \in Seq(Nat),
         NEW f \in {"Written", "Full", "Buffer"}, Caused(Fails(L, f))
  PROVE  Wrote(L, Fails(L, f), m)
  <1> DEFINE K == Fails(L, f)
  <1>1. L \in Logs /\ Roomy(L)
        BY DEF SoundLog
  <1>2. /\ K \in Logs /\ SameFile(L, K) /\ K.buf = L.buf /\ K.err = L.err
        /\ K.file = L.file /\ K.fault = f /\ K.went = L.went /\ K.lost = L.lost /\ K.ret = FALSE
        BY <1>1, FailsFields
  <1>3. Caused(K)
        OBVIOUS
  <1> HIDE DEF K
  <1>4. ~Accepts(K)
        BY <1>2 DEF Accepts
  <1>5. SoundLog(K)
    <2>1. Roomy(K)
          BY <1>1, <1>2, <1>4 DEF Roomy, SameFile
    <2> QED BY <1>2, <1>3, <2>1 DEF SoundLog
  <1>6. /\ L.file \in Seq(Nat) /\ Len(L.file) \in Nat /\ Bytes(K) = L.file
        /\ Begins(L.file, Bytes(L)) /\ Bytes(L) \in Seq(Nat)
        BY <1>1, <1>2, <1>4, Typed
  <1>7. Begins(Bytes(K), Bytes(L) \o m)
        BY <1>6, BeginsLonger
  <1>8. Len(L.file) <= Len(K.file)
        BY <1>2, <1>6
  <1>9. Put(L, K, m)
        BY <1>2, <1>4, <1>5, <1>7, <1>8, PutBeginning
  <1> QED BY <1>2, <1>9 DEF Wrote, K

\* A write past the buffer.
LEMMA DirectWrote ==
  ASSUME NEW L, SoundLog(L), L.fault = "None", ~L.err, L.hfile # "Bad", L.buf = <<>>,
         NEW m \in Seq(Nat)
  PROVE  Wrote(L, Direct(L, m), m)
  <1> DEFINE W == Write(L, m)
             K == Direct(L, m)
  <1>1. L \in Logs /\ Caused(L) /\ Roomy(L)
        BY DEF SoundLog
  <1>2. K = CASE W.went = "All" -> Returns(W, TRUE)
              [] W.went = "Nothing" -> [W EXCEPT !.lost = TRUE, !.ret = FALSE]
              [] W.went \in {"Part", "Error"} ->
                   IF W.checks THEN Fails(W, "Written")
                   ELSE [W EXCEPT !.lost = TRUE, !.ret = TRUE]
        BY Zenon DEF Direct
  <1>3. PICK u : WentOut(L, W, m, u)
        BY <1>1, WriteResult
  <1> HIDE DEF W, K
  <1>4. /\ W \in Logs /\ SameFile(L, W) /\ W.buf = L.buf /\ W.err = L.err
        /\ W.fault = L.fault /\ W.lost = L.lost
        /\ u \in Seq(Nat) /\ Begins(u, m) /\ W.file = L.file \o u
        /\ W.went = "All" => u = m
        /\ W.went \in {"Nothing", "Error"} => u = <<>>
        /\ L.hfile # "Open" => W.went = "Error"
        BY <1>3 DEF WentOut
  <1>5. W.went \in {"All", "Part", "Nothing", "Error"} /\ W.checks \in BOOLEAN
        BY <1>4, Fields
  <1>6. /\ Bytes(L) = L.file /\ L.file \in Seq(Nat) /\ Len(<<>>) = 0 /\ <<>> \in Seq(Nat)
        /\ L.max \in Nat
    <2>1. Accepts(L) => Bytes(L) = L.file \o L.buf
          BY <1>1, Typed
    <2> QED BY <1>1, <2>1, Typed, ConcatEmptySeq, EmptySeq, Fields
  <1>7. Len(L.file) <= Len(W.file) /\ W.file \in Seq(Nat)
        BY <1>4, <1>6, Joined
  <1>8. ~Accepts(L) => W.went = "Error" /\ W.file = L.file
    <2>1. ~Accepts(L) => L.hfile # "Open"
          BY DEF Accepts
    <2> QED BY <1>4, <1>6, <2>1, ConcatEmptySeq
  <1>9. Begins(W.file, Bytes(L) \o m)
        BY <1>4, <1>6, BeginsBehind
\* Whatever the answer, the object is the one that was written.
  <1>10. ASSUME NEW F, F \in Logs, SameFile(W, F), F.buf = W.buf, F.err = W.err,
                F.file = W.file, F.went = W.went, F.lost \in {W.lost, TRUE}, Caused(F),
                F.lost \/ (~F.ret /\ F.fault # "None")
                  \/ (F.ret /\ W.went = "All" /\ F.fault = "None")
         PROVE  Wrote(L, F, m)
    <2>1. /\ SameFile(L, F) /\ F.buf = <<>> /\ ~F.err
          BY <1>4, <1>10 DEF SameFile
    <2>2. Roomy(F)
          BY <1>1, <1>6, <2>1 DEF Roomy, SameFile
    <2>3. SoundLog(F)
          BY <1>10, <2>2 DEF SoundLog
    <2>4. Accepts(F) => Accepts(L)
          BY <2>1 DEF Accepts, SameFile
    <2>5. Bytes(F) = W.file
          BY <1>7, <1>10, <2>1, Typed, ConcatEmptySeq
    <2>6. F.ret /\ W.went = "All" /\ F.fault = "None" => Accepts(F) /\ Bytes(F) = Bytes(L) \o m
          BY <1>4, <1>6, <1>8, <2>1, <2>5 DEF Accepts, SameFile
    <2>7. F.fault # "None" => ~Accepts(F)
          BY DEF Accepts
    <2>8. Put(L, F, m)
      <3>1. Len(L.file) <= Len(F.file) /\ (~Accepts(L) => F.file = L.file)
            BY <1>7, <1>8, <1>10
      <3>2. Begins(Bytes(F), Bytes(L) \o m)
            BY <1>9, <2>5
      <3>3. F.lost \/ (~F.ret /\ ~Accepts(F)) \/ (F.ret /\ Accepts(F) /\ Bytes(F) = Bytes(L) \o m)
            BY <1>10, <2>6, <2>7
      <3> QED BY <2>1, <2>3, <2>4, <3>1, <3>2, <3>3, PutBeginning
    <2> QED BY <1>4, <1>10, <2>8 DEF Wrote
  <1>11. CASE W.went = "All"
    <2> DEFINE F == Returns(W, TRUE)
    <2>1. K = F
          BY <1>2, <1>11
    <2>2. /\ F \in Logs /\ SameFile(W, F) /\ F.buf = W.buf /\ F.err = W.err /\ F.file = W.file
          /\ F.fault = W.fault /\ F.went = W.went /\ F.lost = W.lost /\ F.ret = TRUE
          BY <1>4, ReturnsFields
    <2> HIDE DEF F
    <2>3. Caused(F)
          BY <1>4, <1>11, <2>2 DEF Caused
    <2>4. Wrote(L, F, m)
          BY <1>4, <1>10, <1>11, <2>2, <2>3
    <2> QED BY <2>1, <2>4 DEF K
  <1>12. CASE W.went = "Nothing"
    <2> DEFINE F == [W EXCEPT !.lost = TRUE, !.ret = FALSE]
    <2>1. K = F
          BY <1>2, <1>12
    <2>2. /\ F \in Logs /\ SameFile(W, F) /\ F.buf = W.buf /\ F.err = W.err /\ F.file = W.file
          /\ F.fault = W.fault /\ F.went = W.went /\ F.lost = TRUE /\ F.ret = FALSE
          BY <1>4 DEF Logs, SameFile
    <2> HIDE DEF F
    <2>3. Caused(F)
          BY <1>4, <1>12, <2>2 DEF Caused
    <2>4. Wrote(L, F, m)
          BY <1>4, <1>10, <1>12, <2>2, <2>3
    <2> QED BY <2>1, <2>4 DEF K
  <1>13. CASE W.went \in {"Part", "Error"} /\ W.checks
    <2> DEFINE F == Fails(W, "Written")
    <2>1. K = F
          BY <1>2, <1>13
    <2>2. /\ F \in Logs /\ SameFile(W, F) /\ F.buf = W.buf /\ F.err = W.err /\ F.file = W.file
          /\ F.fault = "Written" /\ F.went = W.went /\ F.lost = W.lost /\ F.ret = FALSE
          BY <1>4, FailsFields
    <2> HIDE DEF F
    <2>3. Caused(F)
          BY <1>13, <2>2 DEF Caused, SameFile
    <2>4. Wrote(L, F, m)
          BY <1>4, <1>10, <2>2, <2>3
    <2> QED BY <2>1, <2>4 DEF K
  <1>14. CASE W.went \in {"Part", "Error"} /\ ~W.checks
    <2> DEFINE F == [W EXCEPT !.lost = TRUE, !.ret = TRUE]
    <2>1. K = F
          BY <1>2, <1>14
    <2>2. /\ F \in Logs /\ SameFile(W, F) /\ F.buf = W.buf /\ F.err = W.err /\ F.file = W.file
          /\ F.fault = W.fault /\ F.went = W.went /\ F.lost = TRUE /\ F.ret = TRUE
          BY <1>4 DEF Logs, SameFile
    <2> HIDE DEF F
    <2>3. Caused(F)
          BY <1>4, <1>14, <2>2 DEF Caused, SameFile
    <2>4. Wrote(L, F, m)
          BY <1>4, <1>10, <2>2, <2>3
    <2> QED BY <2>1, <2>4 DEF K
  <1> QED BY <1>5, <1>11, <1>12, <1>13, <1>14 DEF K

\* A flush that empties the buffer, and a write past it.
LEMMA PastWrote ==
  ASSUME NEW L, SoundLog(L), L.fault = "None", ~L.err, L.hfile # "Bad",
         NEW m \in Seq(Nat), m # <<>>
  PROVE  Wrote(L, FlushAndWrite(L, m), m)
  <1> DEFINE F == FlushBuffer(L)
             K == FlushAndWrite(L, m)
  <1>1. L \in Logs /\ (L.hfile = "Err" => L.buf = <<>>)
        BY DEF SoundLog, Roomy
  <1>2. IF L.buf = <<>> THEN Returns(L, TRUE) = F ELSE TRUE
    <2>1. IsStarted(L)
          BY <1>1, Fields
    <2> QED BY <2>1 DEF FlushBuffer
  <1>3. K = CASE F.ret -> Direct(F, m)
              [] ~F.ret /\ F.checks /\ F.went = "Nothing" -> Fails(F, "Full")
              [] OTHER -> F
        BY <1>2, Zenon DEF FlushAndWrite
  <1>4. PICK u : Flushed(L, F, u)
        BY <1>1, FlushResult
  <1> HIDE DEF F, K
  <1>5. /\ Wrote(L, F, <<>>) /\ F \in Logs /\ SoundLog(F) /\ F.ret \in BOOLEAN
        /\ F.ret => F.buf = <<>> /\ F.fault = "None" /\ ~F.err /\ F.hfile # "Bad"
        BY <1>4, FlushWrote, Fields DEF Wrote, Put, SoundLog
  <1>6. <<>> \o m = m /\ <<>> \in Seq(Nat)
        BY ConcatEmptySeq, EmptySeq
  <1>7. CASE F.ret
    <2>1. K = Direct(F, m)
          BY <1>3, <1>7
    <2>2. Wrote(F, Direct(F, m), m)
          BY <1>5, <1>7, DirectWrote
    <2>3. Wrote(L, K, <<>> \o m)
          BY <1>5, <1>6, <2>1, <2>2, WroteTwo
    <2> QED BY <1>6, <2>3 DEF K
  <1>8. CASE ~F.ret /\ F.checks /\ F.went = "Nothing"
    <2>1. K = Fails(F, "Full")
          BY <1>3, <1>8
    <2>2. F.fault = "None"
          BY <1>4, <1>8 DEF Flushed, Refused
    <2>3. Caused(Fails(F, "Full"))
      <3>1. LET J == Fails(F, "Full")
            IN  J.fault = "Full" /\ J.checks /\ J.went = "Nothing"
            BY <1>5, <1>8, FailsFields DEF SameFile
      <3> HIDE DEF Fails
      <3> QED BY <3>1 DEF Caused
    <2>4. Wrote(F, Fails(F, "Full"), m)
          BY <1>5, <2>2, <2>3, FailedWrote
    <2>5. Wrote(L, K, <<>> \o m)
          BY <1>5, <1>6, <2>1, <2>4, WroteTwo
    <2> QED BY <1>6, <2>5 DEF K
  <1>9. CASE ~F.ret /\ ~(F.checks /\ F.went = "Nothing")
    <2>1. K = F
          BY <1>3, <1>9
    <2>2. Wrote(L, F, <<>> \o m)
          BY <1>5, <1>6, <1>9, WroteLess
    <2> QED BY <1>6, <2>1, <2>2 DEF K
  <1> QED BY <1>5, <1>7, <1>8, <1>9 DEF K

\* A buffer that has bytes is filled, and the rest waits in it.
LEMMA FillWrote ==
  ASSUME NEW L, SoundLog(L), Accepts(L), NEW m \in Seq(Nat),
         Len(L.buf) + Len(m) < 2 * L.max, Len(L.buf) + Len(m) >= L.max
  PROVE  Wrote(L, FillAndFlush(L, m), m)
  <1> DEFINE space == L.max - Len(L.buf)
             n == IF Len(m) < space THEN Len(m) ELSE space
             front == SubSeq(m, 1, n)
             rest == SubSeq(m, n + 1, Len(m))
             b == L.buf \o front
             M == [L EXCEPT !.buf = b]
             F == FlushBuffer(M)
             K == IF F.ret THEN [F EXCEPT !.buf = rest] ELSE F
             fl == Len(L.file)
  <1>1. FillAndFlush(L, m) = K
        BY Zenon DEF FillAndFlush
  <1> HIDE DEF front, rest, b, M, F, K
  <1>2. /\ L \in Logs /\ L.fault = "None" /\ L.wrbuf /\ L.hfile = "Open" /\ ~L.err
        /\ Len(L.buf) <= L.max /\ 0 < L.max /\ Caused(L)
        BY DEF SoundLog, Accepts, Roomy
  <1>3. /\ L.max \in Nat /\ L.buf \in Seq(Nat) /\ Len(L.buf) \in Nat /\ Len(m) \in Nat
        /\ L.file \in Seq(Nat) /\ fl \in Nat
        BY <1>2, Fields, LenProperties
  <1> HIDE DEF n
  <1>4. n = L.max - Len(L.buf) /\ n \in 0 .. Len(m) /\ Len(m) - n < L.max
    <2>1. ~(Len(m) < L.max - Len(L.buf)) \/ Len(m) = L.max - Len(L.buf)
          BY <1>3
    <2>2. n = L.max - Len(L.buf)
          BY <2>1 DEF n
    <2> QED BY <1>2, <1>3, <2>2, SMTT(30)
  <1>5. /\ front \in Seq(Nat) /\ rest \in Seq(Nat) /\ Len(rest) = Len(m) - n
        /\ front \o rest = m /\ Len(front) = n
        BY <1>4, CutInTwo DEF front, rest
  <1>6. b \in Seq(Nat) /\ Len(b) = L.max /\ b \o rest = L.buf \o m
    <2>1. b \in Seq(Nat) /\ Len(b) = Len(L.buf) + Len(front)
          BY <1>3, <1>5, Joined DEF b
    <2>2. b \o rest = L.buf \o (front \o rest)
      <3>1. L.buf \in Seq(Nat) /\ front \in Seq(Nat) /\ rest \in Seq(Nat)
            BY <1>3, <1>5
      <3>2. (L.buf \o front) \o rest = L.buf \o (front \o rest)
            BY <3>1, JoinedThree, ZenonT(40)
      <3> QED BY <3>2, Zenon DEF b
    <2>3. Len(b) = L.max
          BY <1>3, <1>4, <1>5, <2>1, SMTT(30)
    <2> QED BY <1>5, <2>1, <2>2, <2>3
  <1>7. /\ M \in Logs /\ SameFile(L, M) /\ M.fault = "None" /\ M.buf = b /\ M.err = L.err
        /\ M.file = L.file /\ M.went = L.went /\ M.lost = L.lost
        BY <1>2, <1>6 DEF Logs, SameFile, M
  <1>8. Accepts(M) /\ InStream(M) = b
        BY <1>2, <1>7 DEF Accepts, InStream, SameFile
  <1>9. PICK u : Flushed(M, F, u)
    <2>1. M.hfile = "Err" => M.buf = <<>>
          BY <1>2, <1>7 DEF SameFile
    <2> QED BY <1>7, <2>1, FlushResult DEF F
  <1>10. /\ F \in Logs /\ SameFile(L, F) /\ (L.lost => F.lost)
         /\ u \in Seq(Nat) /\ Begins(u, b) /\ F.file = L.file \o u
         BY <1>7, <1>8, <1>9 DEF Flushed, SameFile
  <1>11. /\ (L.file \o b) \o rest = Bytes(L) \o m /\ L.file \o b \in Seq(Nat)
         /\ L.file \o u \in Seq(Nat) /\ fl <= Len(F.file) /\ fl <= Len(L.file \o u)
         /\ fl <= Len(L.file \o b) /\ Begins(L.file \o u, L.file \o b)
    <2>1. Bytes(L) = L.file \o L.buf
          BY <1>2, Typed
    <2>2. (L.file \o L.buf) \o m = L.file \o (L.buf \o m)
          BY <1>3, JoinedThree
    <2>3. (L.file \o b) \o rest = L.file \o (b \o rest)
      <3>1. L.file \in Seq(Nat) /\ b \in Seq(Nat) /\ rest \in Seq(Nat)
            BY <1>3, <1>5, <1>6
      <3> QED BY <3>1, JoinedThree, ZenonT(40)
    <2>4. L.file \o b \in Seq(Nat) /\ fl <= Len(L.file \o b)
          BY <1>3, <1>6, Joined
    <2>5. L.file \o u \in Seq(Nat) /\ fl <= Len(L.file \o u)
          BY <1>3, <1>10, Joined
    <2>6. Begins(L.file \o u, L.file \o b)
          BY <1>3, <1>6, <1>10, BeginsBehind
    <2>7. fl <= Len(F.file)
          BY <1>10, <2>5
    <2> QED BY <1>6, <2>1, <2>2, <2>3, <2>4, <2>5, <2>6, <2>7
  <1>12. Begins(L.file \o b, Bytes(L) \o m)
         BY <1>5, <1>11, BeginsWith
  <1>13. Begins(L.file \o u, Bytes(L) \o m)
         BY <1>5, <1>11, BeginsLonger
  <1> HIDE DEF fl
  <1>14. CASE F.ret
    <2>1. /\ F.fault = "None" /\ ~F.err /\ F.hfile = "Open"
          /\ F.checks => F.went # "Part" \/ F.went = L.went
          /\ ~F.lost => u = b
          BY <1>2, <1>7, <1>8, <1>9, <1>10, <1>14 DEF Flushed, SameFile
    <2> DEFINE G == [F EXCEPT !.buf = rest]
    <2>2. /\ G \in Logs /\ SameFile(F, G) /\ G.fault = F.fault /\ G.buf = rest /\ G.err = F.err
          /\ G.file = F.file /\ G.ret = F.ret /\ G.went = F.went /\ G.lost = F.lost
          BY <1>5, <1>10 DEF Logs, SameFile
    <2>3. K = G
          BY <1>14 DEF K
    <2> HIDE DEF G
    <2>4. Accepts(G) /\ G.fault = "None" /\ SameFile(L, G) /\ G.ret /\ G.hfile = "Open"
          BY <1>10, <1>14, <2>1, <2>2 DEF Accepts, SameFile
    <2>5. SoundLog(G)
      <3>1. Caused(G)
            BY <1>2, <2>1, <2>2, <2>4 DEF Caused, SameFile
      <3>2. Len(G.buf) < G.max /\ G.max = L.max /\ Len(G.buf) <= G.max /\ G.wrbuf
            BY <1>2, <1>3, <1>4, <1>5, <2>2, <2>4 DEF SameFile
      <3>3. Roomy(G)
            BY <1>2, <2>4, <3>2 DEF Roomy
      <3> QED BY <2>2, <3>1, <3>3 DEF SoundLog
    <2>6. Bytes(G) = (L.file \o u) \o rest
          BY <1>10, <2>2, <2>4, Typed
    <2>7. ~G.lost => Bytes(G) = Bytes(L) \o m
          BY <1>11, <2>1, <2>2, <2>6
    <2>8. Abstract!Thins(fl, Bytes(L) \o m, Bytes(G))
      <3>1. Abstract!Thins(fl, L.file \o b, L.file \o u)
            BY <1>3, <1>11, ThinsCut
      <3>2. Abstract!Thins(fl, (L.file \o b) \o rest, (L.file \o u) \o rest)
            BY <1>3, <1>5, <1>11, <3>1, BeginsItself, ThinsLonger
      <3> QED BY <1>11, <2>6, <3>2
    <2>9. Wrote(L, G, m)
      <3>1. fl <= Len(G.file) /\ (L.lost => G.lost) /\ Accepts(L)
            BY <1>10, <1>11, <2>2
      <3> QED BY <2>4, <2>5, <2>7, <2>8, <3>1 DEF Wrote, Put, fl
    <2> QED BY <1>1, <2>3, <2>9
  <1>15. CASE ~F.ret
    <2>1. K = F
          BY <1>15 DEF K
    <2>2. F.buf = b /\ Refused(M, F)
          BY <1>7, <1>9, <1>15 DEF Flushed
    <2>3. \/ F.fault = "Written" /\ F.hfile = "Open" /\ F.checks /\ F.went = "Part"
          \/ F.fault = "None" /\ ~Accepts(F) /\ (F.went # "Part" \/ F.went = L.went)
          \/ F.fault = "None" /\ F.went = "Nothing" /\ F.lost /\ F.file = L.file
          BY <1>7, <2>2 DEF Refused, Accepts
    <2>4. SoundLog(F)
      <3>1. Caused(F)
            BY <1>2, <1>10, <2>3 DEF Caused, SameFile
      <3>2. F.hfile = "Open" /\ F.wrbuf /\ Len(F.buf) <= F.max /\ 0 < F.max
            BY <1>2, <1>3, <1>6, <1>10, <2>2 DEF SameFile
      <3>3. Accepts(F) => F.went = "Nothing"
            BY <2>3 DEF Accepts
      <3>4. Roomy(F)
            BY <3>2, <3>3 DEF Roomy
      <3> QED BY <1>10, <3>1, <3>4 DEF SoundLog
    <2>5. Begins(Bytes(F), Bytes(L) \o m) /\ (Accepts(F) => F.lost)
      <3>1. CASE ~Accepts(F)
        <4>1. Bytes(F) = L.file \o u
              BY <1>10, <3>1, Typed
        <4> QED BY <1>13, <3>1, <4>1
      <3>2. CASE Accepts(F)
        <4>1. F.lost /\ F.file = L.file
              BY <2>3, <3>2 DEF Accepts
        <4>2. Bytes(F) = L.file \o b
              BY <1>10, <2>2, <3>2, <4>1, Typed
        <4> QED BY <1>12, <4>1, <4>2
      <3> QED BY <3>1, <3>2
    <2>6. Put(L, F, m)
          BY <1>10, <1>11, <1>15, <2>4, <2>5, PutBeginning DEF fl
    <2> QED BY <1>1, <1>10, <2>1, <2>6 DEF Wrote
  <1> QED BY <1>14, <1>15

\* What fits into the buffer with space to spare.
LEMMA KeepWrote ==
  ASSUME NEW L, SoundLog(L), Accepts(L), NEW m \in Seq(Nat),
         Len(L.buf) + Len(m) < L.max
  PROVE  Wrote(L, [L EXCEPT !.buf = @ \o m, !.ret = TRUE], m)
  <1> DEFINE b == L.buf \o m
             K == [L EXCEPT !.buf = b, !.ret = TRUE]
  <1>1. /\ L \in Logs /\ Caused(L) /\ Roomy(L) /\ L.fault = "None" /\ L.wrbuf
        /\ L.hfile = "Open" /\ ~L.err
        /\ L.buf \in Seq(Nat) /\ L.file \in Seq(Nat) /\ Len(L.file) \in Nat /\ L.max \in Nat
        BY Fields DEF SoundLog, Accepts, Roomy
  <1>2. b \in Seq(Nat) /\ Len(b) < L.max /\ Len(b) \in Nat
    <2>1. b \in Seq(Nat) /\ Len(b) = Len(L.buf) + Len(m)
          BY <1>1, Joined
    <2> QED BY <2>1, LenProperties
  <1>3. L.file \o b = Bytes(L) \o m
    <2>1. Bytes(L) = L.file \o L.buf
          BY <1>1, Typed
    <2>2. \A s, v \in Seq(Nat) : (s \o v) \o m = s \o (v \o m)
          BY JoinedThree
    <2> QED BY <1>1, <2>1, <2>2, Zenon
  <1> HIDE DEF b
  <1>4. /\ K \in Logs /\ K.hfile = L.hfile /\ K.wrbuf = L.wrbuf /\ K.max = L.max
        /\ K.checks = L.checks /\ K.went = L.went /\ K.lost = L.lost
        /\ K.fault = L.fault /\ K.buf = b /\ K.err = L.err /\ K.file = L.file /\ K.ret = TRUE
        BY <1>1, <1>2 DEF Logs
  <1> HIDE DEF K
  <1>5. SoundLog(K) /\ Accepts(K) /\ SameFile(L, K)
    <2>1. Caused(K) /\ Accepts(K) /\ SameFile(L, K)
          BY <1>1, <1>4 DEF Caused, SameFile, Accepts
    <2>2. Len(K.buf) < K.max /\ Len(K.buf) <= K.max /\ 0 < K.max
          BY <1>1, <1>2, <1>4
    <2>3. Roomy(K)
          BY <1>1, <1>4, <2>2 DEF Roomy
    <2> QED BY <1>4, <2>1, <2>3 DEF SoundLog
  <1>6. Bytes(K) = Bytes(L) \o m /\ Bytes(K) \in Seq(Nat)
        BY <1>3, <1>4, <1>5, Typed
  <1>7. Begins(Bytes(K), Bytes(L) \o m) /\ Len(L.file) <= Len(K.file)
    <2>1. Begins(Bytes(K), Bytes(K))
          BY <1>6, BeginsItself
    <2>2. Len(K.file) = Len(L.file)
          BY <1>4
    <2>3. Len(L.file) <= Len(K.file)
          BY <1>1, <2>2
    <2> QED BY <1>6, <2>1, <2>3
  <1>8. Put(L, K, m)
        BY <1>4, <1>5, <1>6, <1>7, PutBeginning
  <1>9. Wrote(L, K, m)
        BY <1>4, <1>8 DEF Wrote
  <1> QED BY <1>9, Zenon DEF K, b

\* The ways to write.
LEMMA BytesWrote ==
  ASSUME NEW L, SoundLog(L), L.fault = "None", ~L.err, L.hfile # "Bad",
         NEW m \in Seq(Nat), m # <<>>
  PROVE  Wrote(L, AppendBytes(L, m), m)
  <1> DEFINE total == Len(L.buf) + Len(m)
             past == total >= 2 * L.max \/ (L.buf = <<>> /\ total >= L.max)
             fill == total >= L.max /\ total < 2 * L.max /\ L.buf # <<>>
             K == AppendBytes(L, m)
  <1>1. K = CASE past -> FlushAndWrite(L, m) [] fill -> FillAndFlush(L, m)
              [] total < L.max /\ L.wrbuf -> [L EXCEPT !.buf = @ \o m, !.ret = TRUE]
              [] total < L.max /\ ~L.wrbuf -> Fails(L, "Buffer")
        BY Zenon DEF AppendBytes
  <1>2. /\ L \in Logs /\ Caused(L) /\ Roomy(L) /\ L.hfile \in {"Open", "Err"}
        /\ L.buf \in Seq(Nat) /\ L.max \in Nat /\ L.wrbuf \in BOOLEAN
        /\ L.file \in Seq(Nat) /\ Len(L.buf) \in Nat /\ Len(m) \in Nat
        BY Fields, LenProperties DEF SoundLog
  <1>3. /\ L.hfile = "Open" => L.wrbuf /\ Accepts(L)
        /\ L.hfile = "Err" => L.buf = <<>> /\ ~L.wrbuf
        BY <1>2 DEF Roomy, Accepts
  <1>4. /\ past \/ fill \/ total < L.max
        /\ past => ~fill /\ ~(total < L.max)
        /\ fill => ~(total < L.max)
    <2>1. L.buf = <<>> => Len(L.buf) = 0
          BY EmptySeq
    <2>2. 0 < L.max
          BY <1>2 DEF Roomy
    <2> QED BY <1>2, <2>1, <2>2
  <1> HIDE DEF past, fill, total, K
  <1>5. CASE past
    <2>1. K = FlushAndWrite(L, m)
          BY <1>1, <1>4, <1>5, Zenon
    <2> QED BY <2>1, PastWrote DEF K
  <1>6. CASE fill
    <2>1. K = FillAndFlush(L, m)
          BY <1>1, <1>4, <1>6, Zenon
    <2>2. Accepts(L)
          BY <1>2, <1>3, <1>6 DEF fill
    <2>3. Wrote(L, FillAndFlush(L, m), m)
          BY <1>6, <2>2, FillWrote DEF fill, total
    <2> QED BY <2>1, <2>3 DEF K
  <1>7. CASE total < L.max /\ L.wrbuf
    <2>1. K = [L EXCEPT !.buf = @ \o m, !.ret = TRUE]
          BY <1>1, <1>4, <1>7, Zenon
    <2>2. Accepts(L)
          BY <1>2, <1>3, <1>7
    <2>3. Wrote(L, [L EXCEPT !.buf = @ \o m, !.ret = TRUE], m)
          BY <1>7, <2>2, KeepWrote DEF total
    <2> QED BY <2>1, <2>3, Zenon DEF K
  <1>8. CASE total < L.max /\ ~L.wrbuf
    <2>1. K = Fails(L, "Buffer")
          BY <1>1, <1>4, <1>8, Zenon
    <2>2. L.hfile = "Err"
          BY <1>2, <1>3, <1>8
    <2>3. Caused(Fails(L, "Buffer"))
      <3>1. Fails(L, "Buffer").hfile = "Err" /\ Fails(L, "Buffer").fault = "Buffer"
            BY <1>2, <2>2, FailsFields DEF SameFile
      <3> QED BY <3>1 DEF Caused
    <2>4. Wrote(L, Fails(L, "Buffer"), m)
          BY <2>3, FailedWrote
    <2> QED BY <2>1, <2>4 DEF K
  <1> QED BY <1>2, <1>4, <1>5, <1>6, <1>7, <1>8

\* A call that does not find its object started and sound refuses, and changes
\* nothing but the answer; one that is given nothing accepts it.
LEMMA AppendNothing ==
  ASSUME NEW L, SoundLog(L), L.fault = "None", NEW m \in Seq(Nat), NEW r \in BOOLEAN,
         r => m = <<>>, ~r => ~Accepts(L)
  PROVE  Wrote(L, Returns(L, r), m)
  <1> DEFINE K == Returns(L, r)
  <1>1. /\ L \in Logs /\ Caused(L) /\ Roomy(L)
        BY DEF SoundLog
  <1>2. /\ K \in Logs /\ SameFile(L, K) /\ K.buf = L.buf /\ K.err = L.err
        /\ K.file = L.file /\ K.fault = L.fault /\ K.went = L.went /\ K.lost = L.lost
        /\ K.ret = r
        BY <1>1, ReturnsFields
  <1> HIDE DEF K
  <1>3. SoundLog(K) /\ (Accepts(K) <=> Accepts(L))
    <2>1. Caused(K) /\ Roomy(K) /\ (Accepts(K) <=> Accepts(L))
          BY <1>1, <1>2 DEF Caused, Roomy, Accepts, SameFile
    <2> QED BY <1>2, <2>1 DEF SoundLog
  <1>4. /\ Bytes(K) = Bytes(L) /\ Bytes(L) \in Seq(Nat) /\ Len(L.file) \in Nat
        /\ Len(L.file) <= Len(K.file)
    <2>1. Bytes(L) \in Seq(Nat) /\ Len(L.file) \in Nat
          BY <1>1, Typed
    <2>2. Bytes(K) = Bytes(L)
          BY <1>2, <1>3 DEF Bytes, InStream
    <2>3. Len(K.file) = Len(L.file)
          BY <1>2
    <2>4. Len(L.file) <= Len(K.file)
          BY <2>1, <2>3
    <2> QED BY <2>1, <2>2, <2>4
  <1>5. Begins(Bytes(K), Bytes(L) \o m)
        BY <1>4, BeginsWith
  <1>6. r => Bytes(K) = Bytes(L) /\ m = <<>>
        BY <1>4
  <1>7. Put(L, K, m)
        BY <1>2, <1>3, <1>4, <1>5, <1>6, PutBeginning
  <1> QED BY <1>2, <1>7 DEF Wrote, K

\* Append(), of whatever it is given to an object in whatever state.
LEMMA AppendWrote ==
  ASSUME NEW L, SoundLog(L), L.fault = "None", NEW m \in Seq(Nat)
  PROVE  Wrote(L, AppendTo(L, m), m)
  <1>1. /\ L \in Logs /\ Caused(L) /\ Roomy(L) /\ L.buf \in Seq(Nat) /\ Len(L.buf) \in Nat
        /\ L.max \in Nat /\ L.checks \in BOOLEAN /\ L.err \in BOOLEAN
        /\ L.hfile \in {"Open", "Bad", "Err"} /\ (IsStarted(L) <=> L.hfile # "Bad")
        BY Fields DEF SoundLog
  <1>2. CASE ~IsStarted(L) \/ L.err
    <2>1. AppendTo(L, m) = Returns(L, FALSE)
          BY <1>2, Zenon DEF AppendTo
    <2>2. ~Accepts(L)
          BY <1>1, <1>2 DEF Accepts
    <2> QED BY <2>1, <2>2, AppendNothing
  <1>3. CASE IsStarted(L) /\ ~L.err /\ m = <<>>
    <2>1. AppendTo(L, m) = Returns(L, TRUE)
          BY <1>3, Zenon DEF AppendTo
    <2> QED BY <1>3, <2>1, AppendNothing
  <1>4. CASE IsStarted(L) /\ ~L.err /\ m # <<>> /\ L.checks /\ Len(L.buf) >= L.max
    <2>1. AppendTo(L, m) = Fails(L, "Full")
          BY <1>4, Zenon DEF AppendTo
    <2>2. L.hfile = "Open" /\ L.went = "Nothing"
      <3>1. L.buf = <<>> => Len(L.buf) = 0
            BY EmptySeq
      <3>2. L.hfile = "Open"
            BY <1>1, <1>4, <3>1 DEF Roomy
      <3> QED BY <1>1, <1>4, <3>2 DEF Roomy, Accepts
    <2>3. Caused(Fails(L, "Full"))
      <3>1. LET J == Fails(L, "Full")
            IN  J.fault = "Full" /\ J.checks /\ J.went = "Nothing"
            BY <1>1, <1>4, <2>2, FailsFields DEF SameFile
      <3> HIDE DEF Fails
      <3> QED BY <3>1 DEF Caused
    <2> QED BY <2>1, <2>3, FailedWrote
  <1>5. CASE IsStarted(L) /\ ~L.err /\ m # <<>> /\ ~(L.checks /\ Len(L.buf) >= L.max)
    <2>1. AppendTo(L, m) = AppendBytes(L, m)
          BY <1>5, Zenon DEF AppendTo
    <2> QED BY <1>1, <1>5, <2>1, BytesWrote
  <1> QED BY <1>2, <1>3, <1>4, <1>5
-------------------------------------------------------------------------------
(***************************************************************************)
(* A log line is written in pieces, by induction over them.                *)
(***************************************************************************)
\* One piece of a line.
OnePiece(K, m) == IF m = <<>> \/ K.fault # "None" THEN K ELSE AppendTo(K, m)

\* f is the object after each of the first n pieces.
After(f, n, L, line) ==
  f = [i \in 0 .. n |-> IF i = 0 THEN Returns(L, TRUE) ELSE OnePiece(f[i - 1], line[i])]

\* There is such a walk through every line.
LEMMA AfterExists ==
  ASSUME NEW L, NEW line, NEW n \in Nat
  PROVE  \E f : After(f, n, L, line)
  <1> DEFINE T == {k \in Nat : \E f : After(f, k, L, line)}
  <1>1. 0 \in T
    <2>1. After([i \in 0 .. 0 |-> Returns(L, TRUE)], 0, L, line)
          BY DEF After
    <2> QED BY <2>1
  <1>2. ASSUME NEW k \in Nat, k \in T PROVE k + 1 \in T
    <2>1. PICK f : After(f, k, L, line)
          BY <1>2
    <2> DEFINE g == [i \in 0 .. k + 1 |-> IF i = k + 1 THEN OnePiece(f[k], line[k + 1]) ELSE f[i]]
    <2>2. ASSUME NEW i \in 0 .. k + 1
          PROVE  g[i] = IF i = 0 THEN Returns(L, TRUE) ELSE OnePiece(g[i - 1], line[i])
      <3>1. CASE i = k + 1
        <4>1. i - 1 = k /\ g[k] = f[k] /\ i # 0
              BY <3>1
        <4> QED BY <3>1, <4>1
      <3>2. CASE i # k + 1 /\ i # 0
        <4>1. i \in 0 .. k /\ i - 1 \in 0 .. k /\ i - 1 # k + 1
              BY <3>2
        <4>2. f[i] = OnePiece(f[i - 1], line[i])
              BY <2>1, <3>2, <4>1 DEF After
        <4>3. g[i] = f[i] /\ g[i - 1] = f[i - 1]
              BY <3>2, <4>1
        <4> QED BY <3>2, <4>2, <4>3
      <3>3. CASE i = 0
        <4>1. f[0] = Returns(L, TRUE) /\ 0 # k + 1
              BY <2>1 DEF After
        <4> QED BY <3>3, <4>1
      <3> QED BY <3>1, <3>2, <3>3
    <2>3. g = [i \in 0 .. k + 1 |-> g[i]]
          OBVIOUS
    <2> HIDE DEF g
    <2>4. After(g, k + 1, L, line)
          BY <2>2, <2>3, Zenon DEF After
    <2> QED BY <2>4
  <1> HIDE DEF T
  <1>3. Nat \subseteq T
        BY <1>1, <1>2, Induction
  <1> QED BY <1>3 DEF T


\* Another piece is added to those before it.
LEMMA PieceThrough ==
  ASSUME NEW L, SoundLog(L), NEW K, NEW t \in Seq(Nat), Wrote(L, K, t), NEW m \in Seq(Nat)
  PROVE  Wrote(L, OnePiece(K, m), t \o m)
  <1>1. CASE m = <<>>
    <2>1. OnePiece(K, m) = K /\ t \o m = t
          BY <1>1, ConcatEmptySeq DEF OnePiece
    <2> QED BY <2>1
  <1>2. CASE m # <<>> /\ K.fault # "None"
    <2>1. OnePiece(K, m) = K
          BY <1>2 DEF OnePiece
    <2>2. Wrote(L, K, t \o m)
          BY <1>2, WroteLess
    <2> QED BY <2>1, <2>2
  <1>3. CASE m # <<>> /\ K.fault = "None"
    <2>1. OnePiece(K, m) = AppendTo(K, m)
          BY <1>3 DEF OnePiece
    <2>2. SoundLog(K)
          BY Zenon DEF Wrote, Put
    <2>3. Wrote(K, AppendTo(K, m), m)
          BY <1>3, <2>2, AppendWrote
    <2>4. Wrote(L, AppendTo(K, m), t \o m)
          BY <1>3, <2>3, WroteTwo
    <2> QED BY <2>1, <2>4
  <1> QED BY <1>1, <1>2, <1>3

\* The whole line is written as by one call.
LEMMA PiecesThrough ==
  ASSUME NEW L, SoundLog(L), L.fault = "None", NEW line \in Seq(Seq(Nat))
  PROVE  Wrote(L, Pieces(L, line), FlattenSeq(line)) /\ FlattenSeq(line) \in Seq(Nat)
  <1> DEFINE n == Len(line)
             f == CHOOSE h : After(h, n, L, line)
             g == CHOOSE h : Together(h, n, line)
             text(k) == IF k = 0 THEN <<>> ELSE g[k]
  <1>1. n \in Nat /\ \A i \in 1 .. n : line[i] \in Seq(Nat)
        OBVIOUS
  <1>2. After(f, n, L, line) /\ Together(g, n, line)
        BY <1>1, AfterExists, TogetherExists
  <1>3. Pieces(L, line) = f[n]
        BY Zenon DEF Pieces, After, OnePiece
  <1>4. FlattenSeq(line) = text(n)
    <2>1. CASE n = 0
      <3>1. line = <<>>
            BY <2>1
      <3> QED BY <2>1, <3>1 DEF FlattenSeq
    <2>2. CASE n # 0
      <3>1. FlattenSeq(line) = g[n]
            BY <2>2, Zenon DEF FlattenSeq, Together
      <3> QED BY <2>2, <3>1
    <2> QED BY <2>1, <2>2
  <1> HIDE DEF f, g
  <1> DEFINE Upto(k) == text(k) \in Seq(Nat) /\ Wrote(L, f[k], text(k))
             T == {k \in Nat : k <= n => Upto(k)}
  <1>5. 0 \in T
    <2>1. f[0] = Returns(L, TRUE)
          BY <1>1, <1>2 DEF After
    <2>2. text(0) = <<>> /\ <<>> \in Seq(Nat)
          OBVIOUS
    <2>3. Wrote(L, Returns(L, TRUE), <<>>)
          BY <2>2, AppendNothing
    <2> HIDE DEF text
    <2>4. Upto(0)
          BY <2>1, <2>2, <2>3
    <2> QED BY <2>4
  <1>6. ASSUME NEW k \in Nat, k \in T PROVE k + 1 \in T
    <2> SUFFICES ASSUME k + 1 <= n PROVE Upto(k + 1)
        OBVIOUS
    <2>1. Upto(k)
          BY <1>1, <1>6
    <2>2. k + 1 \in 1 .. n /\ k + 1 \in 0 .. n /\ k + 1 # 0 /\ (k + 1) - 1 = k
          BY <1>1
    <2> DEFINE m == line[k + 1]
    <2>3. m \in Seq(Nat)
          BY <1>1, <2>2
    <2>4. f[k + 1] = OnePiece(f[k], m)
          BY <1>2, <2>2 DEF After
    <2>5. text(k + 1) = text(k) \o m
      <3>1. CASE k = 0
        <4>1. g[k + 1] = m
              BY <1>2, <2>2, <3>1 DEF Together
        <4>2. <<>> \o m = m
              BY <2>3, ConcatEmptySeq
        <4> QED BY <2>2, <3>1, <4>1, <4>2
      <3>2. CASE k # 0
        <4>0. k + 1 # 1
              BY <3>2
        <4>1. g[k + 1] = g[k] \o m
              BY <1>2, <2>2, <4>0 DEF Together
        <4> QED BY <2>2, <3>2, <4>1
      <3> QED BY <3>1, <3>2
    <2> HIDE DEF m, text
    <2>6. text(k + 1) \in Seq(Nat)
          BY <2>1, <2>3, <2>5, Joined
    <2>7. Wrote(L, OnePiece(f[k], m), text(k) \o m)
          BY <2>1, <2>3, PieceThrough
    <2> QED BY <2>4, <2>5, <2>6, <2>7
  <1> HIDE DEF T
  <1>7. Nat \subseteq T
        BY <1>5, <1>6, Induction
  <1>8. Upto(n)
        BY <1>1, <1>7 DEF T
  <1> QED BY <1>3, <1>4, <1>8

-------------------------------------------------------------------------------
(***************************************************************************)
(* The other calls.                                                        *)
(***************************************************************************)
\* A new object is sound and has no file.
LEMMA FreshSound ==
  ASSUME NEW b \in Seq(Nat), NEW c \in BOOLEAN
  PROVE  LET K == Fresh(b, c)
         IN  /\ SoundLog(K) /\ K.hfile = "Bad" /\ K.file = b /\ K.ret = TRUE
             /\ K.lost = FALSE /\ K.fault = "None"
  <1> DEFINE K == Fresh(b, c)
  <1>1. /\ K \in Logs /\ K.hfile = "Bad" /\ K.file = b /\ K.ret = TRUE /\ K.lost = FALSE
        /\ K.fault = "None" /\ K.went = "All"
        BY EmptySeq DEF Fresh, Logs
  <1> HIDE DEF K
  <1>2. SoundLog(K)
        BY <1>1 DEF SoundLog, Caused, Roomy, Accepts
  <1> QED BY <1>1, <1>2 DEF K

\* Cleanup() takes an open file and the buffer away.
LEMMA CleanupFields ==
  ASSUME NEW L \in Logs
  PROVE  LET K == Cleanup(L)
         IN  /\ K \in Logs /\ K.hfile \in {"Bad", "Err"} /\ (K.hfile = "Err" => L.hfile = "Err")
             /\ K.wrbuf = FALSE /\ K.max = L.max /\ K.buf = L.buf /\ K.file = L.file
             /\ K.checks = L.checks /\ K.fault = L.fault /\ K.went = L.went
             /\ K.lost = L.lost /\ K.ret = L.ret
  <1> DEFINE h == IF L.hfile = "Open" THEN "Bad" ELSE L.hfile
             K == [L EXCEPT !.wrbuf = FALSE, !.hfile = h]
  <1>1. h \in {"Bad", "Err"} /\ (h = "Err" => L.hfile = "Err")
        BY Fields
  <1> HIDE DEF h
  <1>2. /\ K \in Logs /\ K.hfile = h /\ K.wrbuf = FALSE /\ K.max = L.max /\ K.buf = L.buf
        /\ K.file = L.file /\ K.checks = L.checks /\ K.fault = L.fault /\ K.went = L.went
        /\ K.lost = L.lost /\ K.ret = L.ret
        BY <1>1 DEF Logs
  <1>3. Cleanup(L) = K
        BY Zenon DEF Cleanup, h
  <1> QED BY <1>1, <1>2, <1>3

\* Start() gives an open file, empty or as it was, or none.
Started(L, K, isAppend) ==
  /\ SoundLog(K) /\ K.fault = "None" /\ ~K.lost
  /\ \/ K.ret /\ K.hfile = "Open" /\ K.buf = <<>> /\ K.file = IF isAppend THEN L.file ELSE <<>>
     \/ ~K.ret /\ K.hfile # "Open" /\ K.file = L.file

\* Start() does so with every handle that file_open() gives.
LEMMA StartResult ==
  ASSUME NEW L, SoundLog(L), L.fault = "None", ~L.lost, NEW isAppend \in BOOLEAN,
         NEW bufmax \in Int, NEW handle \in {"Open", "Bad", "Err"}, NEW sets \in BOOLEAN
  PROVE  Started(L, Start(L, isAppend, bufmax, handle, sets), isAppend)
  <1> DEFINE size == IF bufmax <= 0 THEN 1 ELSE bufmax
             b == [L EXCEPT !.buf = <<>>, !.max = size, !.wrbuf = TRUE, !.hfile = handle]
             C == Returns(Cleanup(b), FALSE)
             bytes == IF isAppend THEN b.file ELSE <<>>
             O == [b EXCEPT !.file = bytes, !.ret = TRUE]
             K == Start(L, isAppend, bufmax, handle, sets)
  <1>1. K = IF handle # "Open" \/ (~isAppend /\ ~sets) THEN C ELSE O
        BY Zenon DEF Start
  <1>2. L \in Logs /\ L.file \in Seq(Nat) /\ Caused(L)
        BY Fields DEF SoundLog
  <1>3. size \in Nat /\ size > 0
        OBVIOUS
  <1>4. <<>> \in Seq(Nat) /\ Len(<<>>) = 0
        OBVIOUS
  <1> HIDE DEF size
  <1>5. /\ b \in Logs /\ b.hfile = handle /\ b.buf = <<>> /\ b.max = size /\ b.wrbuf = TRUE
        /\ b.fault = "None" /\ b.file = L.file /\ b.checks = L.checks /\ b.went = L.went
        /\ b.lost = L.lost
        BY <1>2, <1>3, <1>4 DEF Logs
  <1> HIDE DEF b
  <1>6. bytes = IF isAppend THEN L.file ELSE <<>>
        BY <1>5
  <1>7. bytes \in Seq(Nat)
        BY <1>2, <1>4, <1>6
  <1> HIDE DEF bytes, K, C, O
  <1>8. CASE handle # "Open" \/ (~isAppend /\ ~sets)
    <2>1. K = C
          BY <1>1, <1>8
    <2> DEFINE D == Cleanup(b)
    <2>2. /\ D \in Logs /\ D.hfile \in {"Bad", "Err"} /\ D.wrbuf = FALSE /\ D.max = size
          /\ D.buf = <<>> /\ D.file = L.file /\ D.fault = "None" /\ D.checks = L.checks
          /\ D.went = L.went /\ D.lost = L.lost
          BY <1>5, CleanupFields
    <2> HIDE DEF D
    <2>3. /\ C \in Logs /\ C.hfile = D.hfile /\ C.wrbuf = D.wrbuf /\ C.max = D.max
          /\ C.buf = D.buf /\ C.file = D.file /\ C.fault = D.fault /\ C.checks = D.checks
          /\ C.went = D.went /\ C.lost = D.lost /\ C.ret = FALSE
          BY <2>2, ReturnsFields DEF SameFile, C, D
    <2>4. Caused(C)
          BY <1>2, <2>2, <2>3 DEF Caused
    <2>5. Roomy(C)
          BY <1>3, <2>2, <2>3 DEF Roomy, Accepts
    <2>6. Started(L, C, isAppend)
          BY <2>2, <2>3, <2>4, <2>5 DEF Started, SoundLog
    <2> QED BY <2>1, <2>6 DEF K
  <1>9. CASE handle = "Open" /\ (isAppend \/ sets)
    <2>1. K = O
          BY <1>1, <1>9
    <2>2. /\ O \in Logs /\ O.hfile = "Open" /\ O.file = bytes /\ O.fault = "None" /\ O.ret = TRUE
          /\ O.buf = <<>> /\ O.wrbuf = TRUE /\ O.max = size /\ Len(O.buf) = 0
          /\ O.checks = L.checks /\ O.went = L.went /\ O.lost = L.lost
          BY <1>4, <1>5, <1>7, <1>9 DEF Logs, O
    <2>3. Caused(O)
          BY <1>2, <2>2 DEF Caused
    <2>4. Roomy(O)
      <3>1. Len(O.buf) < O.max /\ Len(O.buf) <= O.max /\ 0 < O.max
            BY <1>3, <2>2
      <3> QED BY <2>2, <3>1 DEF Roomy
    <2>5. Started(L, O, isAppend)
          BY <1>6, <2>2, <2>3, <2>4 DEF Started, SoundLog
    <2> QED BY <2>1, <2>5 DEF K
  <1> QED BY <1>8, <1>9

\* End() puts what it can into the file and closes it, or the process ends.
HasEnded(L, K) ==
  /\ SoundLog(K) /\ ~(K.hfile = "Open" /\ K.fault = "None")
  /\ Len(L.file) <= Len(K.file) /\ Bytes(K) = K.file
  /\ Begins(K.file, Bytes(L))
  /\ K.ret /\ ~K.lost => K.file = Bytes(L)

\* End() does so for an object that is started and for one that is not.
LEMMA EndResult ==
  ASSUME NEW L, SoundLog(L), L.fault = "None"
  PROVE  HasEnded(L, End(L))
  <1>1. /\ L \in Logs /\ L.file \in Seq(Nat) /\ L.buf \in Seq(Nat) /\ Len(L.file) \in Nat
        /\ L.hfile \in {"Open", "Bad", "Err"} /\ (IsStarted(L) <=> L.hfile # "Bad")
        /\ Caused(L) /\ Roomy(L) /\ InStream(L) \in Seq(Nat)
        BY Fields, Typed DEF SoundLog
  <1>2. CASE IsStarted(L)
    <2> DEFINE F == FlushBuffer(L)
               C == Cleanup(F)
               K == Returns(C, F.ret)
    <2>1. End(L) = IF F.fault = "None" THEN K ELSE F
          BY <1>2, Zenon DEF End
    <2>2. PICK u : Flushed(L, F, u)
          BY <1>1, FlushResult DEF Roomy
    <2> HIDE DEF F
    <2>3. /\ SoundLog(F) /\ F \in Logs /\ (F.ret => F.fault = "None")
          /\ F.ret /\ ~F.lost => F.file = Bytes(L)
          /\ Len(L.file) <= Len(F.file) /\ F.ret \in BOOLEAN
          BY <2>2, FlushWrote, Fields DEF Wrote, Put, SoundLog
    <2>4. Begins(F.file, Bytes(L))
      <3>1. u \in Seq(Nat) /\ Begins(u, InStream(L)) /\ F.file = L.file \o u
            BY <2>2 DEF Flushed
      <3> QED BY <1>1, <3>1, BeginsBehind DEF Bytes
    <2>5. CASE F.fault # "None"
      <3>1. ~Accepts(F)
            BY <2>5 DEF Accepts
      <3>2. Bytes(F) = F.file
            BY <2>3, <3>1, Typed
      <3>3. HasEnded(L, F)
            BY <2>3, <2>4, <2>5, <3>2 DEF HasEnded
      <3> QED BY <2>1, <2>5, <3>3
    <2>6. CASE F.fault = "None"
      <3>1. /\ C \in Logs /\ C.hfile \in {"Bad", "Err"} /\ (C.hfile = "Err" => F.hfile = "Err")
            /\ C.wrbuf = FALSE /\ C.max = F.max /\ C.buf = F.buf /\ C.file = F.file
            /\ C.checks = F.checks /\ C.fault = "None" /\ C.went = F.went /\ C.lost = F.lost
            BY <2>3, <2>6, CleanupFields
      <3> HIDE DEF C
      <3>2. /\ K \in Logs /\ K.hfile = C.hfile /\ K.wrbuf = C.wrbuf /\ K.max = C.max
            /\ K.buf = C.buf /\ K.file = C.file /\ K.checks = C.checks /\ K.fault = C.fault
            /\ K.went = C.went /\ K.lost = C.lost /\ K.ret = F.ret
            BY <2>3, <3>1, ReturnsFields DEF SameFile
      <3> HIDE DEF K
      <3>3. Caused(K) /\ Roomy(K) /\ ~Accepts(K)
        <4>1. Caused(F) /\ Roomy(F)
              BY <2>3 DEF SoundLog
        <4>2. Caused(K)
              BY <2>6, <3>1, <3>2, <4>1 DEF Caused
        <4>3. K.hfile # "Open" /\ (K.hfile = "Err" => F.hfile = "Err")
              BY <3>1, <3>2
        <4>4. Roomy(K)
              BY <3>1, <3>2, <4>1, <4>3 DEF Roomy, Accepts
        <4> QED BY <4>2, <4>3, <4>4 DEF Accepts
      <3>4. Bytes(K) = K.file
            BY <3>2, <3>3, Typed
      <3>5. K.file = F.file /\ K.lost = F.lost /\ K.fault = "None" /\ K.hfile # "Open"
            BY <3>1, <3>2
      <3>6. HasEnded(L, K)
            BY <2>3, <2>4, <3>2, <3>3, <3>4, <3>5 DEF HasEnded, SoundLog
      <3> QED BY <2>1, <2>6, <3>6
    <2> QED BY <2>5, <2>6
  <1>3. CASE ~IsStarted(L)
    <2> DEFINE K == Returns(L, FALSE)
    <2>1. End(L) = K
          BY <1>3, Zenon DEF End
    <2>2. /\ K.file = L.file /\ K.ret = FALSE /\ SameFile(L, K)
          BY <1>1, ReturnsFields
    <2>3. L.hfile = "Bad" /\ ~Accepts(L)
          BY <1>1, <1>3 DEF Accepts
    <2>4. Wrote(L, K, <<>>)
          BY <2>3, EmptySeq, AppendNothing
    <2> HIDE DEF K
    <2>5. K.hfile = "Bad" /\ SoundLog(K) /\ K \in Logs /\ ~Accepts(K)
          BY <2>2, <2>3, <2>4 DEF SameFile, Wrote, Put, SoundLog, Accepts
    <2>6. Bytes(K) = K.file /\ Begins(K.file, Bytes(L)) /\ Len(L.file) <= Len(K.file)
      <3>1. Bytes(K) = K.file
            BY <2>5, Typed
      <3>2. Begins(L.file, Bytes(L))
            BY <1>1, Typed
      <3>3. Len(K.file) = Len(L.file)
            BY <2>2
      <3>4. Len(L.file) <= Len(K.file)
            BY <1>1, <3>3
      <3> QED BY <2>2, <3>1, <3>2, <3>4
    <2> QED BY <2>1, <2>2, <2>5, <2>6 DEF HasEnded
  <1> QED BY <1>2, <1>3

-------------------------------------------------------------------------------
(***************************************************************************)
(* The steps.                                                              *)
(***************************************************************************)
\* A CMmLogfile that has no object of its own has no file either, unless its
\* process has just ended in the destructor.
LogInv ==
  /\ SoundLog(log)
  /\ blg \in BOOLEAN
  /\ user = "Mm" /\ ~blg => log.hfile = "Bad" \/ log.fault # "None"

\* How the writes of a call will do, and whether one has fallen short, is no part
\* of the object.
SameLog(L, K) ==
  /\ SoundLog(K) /\ SameFile(L, K)
  /\ K.file = L.file /\ K.fault = L.fault /\ K.ret = L.ret
  /\ Bytes(K) = Bytes(L) /\ (Accepts(K) <=> Accepts(L))

\* An object that differs in that alone.
LEMMA DiskSet ==
  ASSUME NEW L, SoundLog(L), NEW d \in Seq(Int), NEW l \in BOOLEAN
  PROVE  LET K == [L EXCEPT !.disk = d, !.lost = l] IN SameLog(L, K) /\ K.lost = l
  <1> DEFINE K == [L EXCEPT !.disk = d, !.lost = l]
  <1>1. /\ K \in Logs /\ SameFile(L, K) /\ K.fault = L.fault /\ K.went = L.went
        /\ K.file = L.file /\ K.buf = L.buf /\ K.err = L.err /\ K.ret = L.ret /\ K.lost = l
        BY DEF SoundLog, Logs, SameFile
  <1> HIDE DEF K
  <1>2. Accepts(K) <=> Accepts(L)
        BY <1>1 DEF Accepts, SameFile
  <1>3. SoundLog(K)
        BY <1>1, <1>2 DEF SoundLog, SameFile, Caused, Roomy
  <1>4. Bytes(K) = Bytes(L)
        BY <1>1, <1>2 DEF Bytes, InStream
  <1>5. SameLog(L, K) /\ K.lost = l
        BY <1>1, <1>2, <1>3, <1>4 DEF SameLog
  <1> QED BY <1>5 DEF K

\* The object at the beginning of a call.
LEMMA WithDiskResult ==
  ASSUME LogInv, May, NEW d \in Seq(Int)
  PROVE  LET L == WithDisk(d)
         IN  SameLog(log, L) /\ ~L.lost /\ SoundLog(L) /\ L.fault = "None"
  <1> DEFINE L == [log EXCEPT !.disk = d, !.lost = FALSE]
  <1>1. WithDisk(d) = L
        BY DEF WithDisk
  <1>2. SameLog(log, L) /\ L.lost = FALSE
        BY DiskSet DEF LogInv
  <1> HIDE DEF L
  <1> QED BY <1>1, <1>2 DEF SameLog, May

\* ... and at its end.
LEMMA DoesResult ==
  ASSUME NEW L, SoundLog(L), log' = [L EXCEPT !.disk = <<>>]
  PROVE  SameLog(L, log') /\ log'.lost = L.lost
  <1> DEFINE K == [L EXCEPT !.disk = <<>>, !.lost = L.lost]
  <1>1. L \in Logs /\ L.lost \in BOOLEAN
        BY Fields DEF SoundLog
  <1>2. log' = K
        BY <1>1 DEF Logs
  <1>3. SameLog(L, K) /\ K.lost = L.lost
        BY <1>1, EmptySeq, DiskSet
  <1> QED BY <1>2, <1>3

\* What the calls say of an object, they say of one that is the same but for that,
\* before and afterwards.
LEMMA SamePut ==
  ASSUME NEW L, NEW J, SameLog(L, J), NEW K, NEW t, Put(J, K, t),
         NEW M, SameLog(K, M), M.lost = K.lost
  PROVE  Put(L, M, t)
  <1>1. /\ SameFile(L, J) /\ J.file = L.file /\ Bytes(J) = Bytes(L) /\ (Accepts(J) <=> Accepts(L))
        /\ SameFile(K, M) /\ M.file = K.file /\ Bytes(M) = Bytes(K) /\ (Accepts(M) <=> Accepts(K))
        /\ M.ret = K.ret /\ M.fault = K.fault /\ SoundLog(M)
        BY Zenon DEF SameLog
  <1>2. SameFile(L, M)
        BY <1>1 DEF Put, SameFile
  <1>3. /\ Len(L.file) <= Len(M.file) /\ Abstract!Thins(Len(L.file), Bytes(L) \o t, Bytes(M))
        /\ (Accepts(M) => Accepts(L)) /\ (~Accepts(L) => M.file = L.file)
        BY <1>1 DEF Put
  <1>4. ~M.lost => \/ M.ret /\ Accepts(M) /\ Bytes(M) = Bytes(L) \o t
                   \/ /\ M.ret /\ M.fault = "None" /\ t = <<>>
                      /\ M.file = L.file /\ Bytes(M) = Bytes(L)
                   \/ ~M.ret /\ ~Accepts(M) /\ Begins(M.file, Bytes(L) \o t)
        BY <1>1 DEF Put
  <1> QED BY <1>1, <1>2, <1>3, <1>4 DEF Put

LEMMA SameStarted ==
  ASSUME NEW L, NEW J, SameLog(L, J), NEW K, NEW a, Started(J, K, a)
  PROVE  Started(L, K, a)
BY DEF SameLog, Started

LEMMA SameEnded ==
  ASSUME NEW L, NEW J, SameLog(L, J), NEW K, HasEnded(J, K),
         NEW M, SameLog(K, M), M.lost = K.lost
  PROVE  HasEnded(L, M)
BY DEF SameLog, HasEnded, SameFile

\* The object that there is at first is a new one.
LEMMA LogBegins == LogInit => LogInv
  <1> SUFFICES ASSUME LogInit PROVE LogInv
      OBVIOUS
  <1>1. PICK c \in BOOLEAN : log = Fresh(<<>>, c)
        BY DEF LogInit
  <1>2. SoundLog(log) /\ log.hfile = "Bad"
        BY <1>1, FreshSound, EmptySeq
  <1> QED BY <1>2 DEF LogInit, LogInv

\* What each step makes of the object, in terms of what it was given.
StartStep(a) ==
  /\ log.fault = "None" /\ log.hfile # "Open" /\ user = "Client"
  /\ Started(log, log', a)
  /\ UNCHANGED <<blg, user>>
AppendStep(m) == log.fault = "None" /\ Put(log, log', m) /\ UNCHANGED <<blg, user>>
FlushStep ==
  /\ log.fault = "None" /\ Put(log, log', <<>>)
  /\ log'.ret => log'.fault = "None"
  /\ log'.ret /\ ~log'.lost => log'.file = Bytes(log) /\ Bytes(log') = Bytes(log)
  /\ UNCHANGED <<blg, user>>
EndStep == log.fault = "None" /\ HasEnded(log, log') /\ UNCHANGED <<blg, user>>
LineStep(line, a) ==
  /\ log.fault = "None" /\ user = "Mm" /\ blg' = TRUE /\ UNCHANGED user
  /\ FlattenSeq(line) \in Seq(Nat)
  /\ \/ blg /\ Put(log, log', FlattenSeq(line))
     \/ ~blg /\ \/ Started(log, log', a) /\ ~log'.ret
                \/ \E S : Started(log, S, a) /\ S.ret /\ Put(S, log', FlattenSeq(line))
RenewStep ==
  /\ log.fault = "None" /\ HasEnded(log, log') /\ blg' = FALSE
  /\ log'.hfile = "Bad" \/ log'.fault # "None"
CrashStep ==
  /\ SoundLog(log') /\ log'.hfile = "Bad" /\ log'.file = log.file /\ log'.ret = TRUE
  /\ ~log'.lost /\ blg' = FALSE

\* Each operation takes a step of its form.
LEMMA StepStart ==
  ASSUME LogInv, NEW a \in BOOLEAN, NEW b \in BufMax, DoStart(a, b)
  PROVE  StartStep(a)
  <1>1. PICK handle \in Handles, sets \in BOOLEAN : Does(Start(WithDisk(<<>>), a, b, handle, sets))
        BY DEF DoStart
  <1> DEFINE L == WithDisk(<<>>)
             K == Start(L, a, b, handle, sets)
  <1>2. May
        BY DEF DoStart
  <1>3. SameLog(log, L) /\ ~L.lost /\ SoundLog(L) /\ L.fault = "None"
        BY <1>2, EmptySeq, WithDiskResult
  <1> HIDE DEF L
  <1>4. Started(L, K, a)
    <2>1. b \in Int /\ handle \in {"Open", "Bad", "Err"}
          BY LogAssumption DEF Handles
    <2> QED BY <1>3, <2>1, StartResult
  <1>5. log' = [K EXCEPT !.disk = <<>>]
        BY <1>1 DEF Does, L
  <1> HIDE DEF K
  <1>6. Started(log, K, a)
        BY <1>3, <1>4, SameStarted DEF Started
  <1>7. K \in Logs
        BY <1>4 DEF Started, SoundLog
  <1>8. log'.buf = K.buf
        BY <1>5, <1>7 DEF Logs
  <1>9. SameLog(K, log') /\ log'.lost = K.lost
        BY <1>4, <1>5, DoesResult DEF Started
  <1>10. Started(log, log', a)
        BY <1>6, <1>8, <1>9 DEF SameLog, Started, SameFile
  <1> QED BY <1>2, <1>10 DEF DoStart, StartStep, May

LEMMA StepAppend ==
  ASSUME LogInv, NEW m \in Msg, DoAppend(m)
  PROVE  AppendStep(m)
  <1>1. PICK d \in Disk : Does(AppendTo(WithDisk(d), m))
        BY DEF DoAppend
  <1> DEFINE L == WithDisk(d)
             K == AppendTo(L, m)
  <1>2. m \in Seq(Nat) /\ d \in Seq(Int) /\ May
        BY LogAssumption DEF DoAppend
  <1>3. SameLog(log, L) /\ SoundLog(L) /\ L.fault = "None"
        BY <1>2, WithDiskResult
  <1> HIDE DEF L
  <1>4. Put(L, K, m)
        BY <1>2, <1>3, AppendWrote DEF Wrote
  <1>5. log' = [K EXCEPT !.disk = <<>>]
        BY <1>1 DEF Does, L
  <1> HIDE DEF K
  <1>6. SameLog(K, log') /\ log'.lost = K.lost
    <2>1. SoundLog(K)
          BY <1>4, Zenon DEF Put
    <2> QED BY <1>5, <2>1, DoesResult
  <1>7. Put(log, log', m)
        BY <1>3, <1>4, <1>6, SamePut
  <1> QED BY <1>2, <1>7 DEF DoAppend, AppendStep, May

LEMMA StepFlush ==
  ASSUME LogInv, DoFlush
  PROVE  FlushStep
  <1>1. PICK d \in Disk : Does(FlushBuffer(WithDisk(d)))
        BY DEF DoFlush
  <1> DEFINE L == WithDisk(d)
             K == FlushBuffer(L)
  <1>2. d \in Seq(Int) /\ May
        BY LogAssumption DEF DoFlush
  <1>3. SameLog(log, L) /\ SoundLog(L) /\ L.fault = "None"
        BY <1>2, WithDiskResult
  <1> HIDE DEF L
  <1>4. PICK u : Flushed(L, K, u)
        BY <1>3, FlushResult DEF SoundLog, Roomy
  <1>5. log' = [K EXCEPT !.disk = <<>>]
        BY <1>1 DEF Does, L
  <1> HIDE DEF K
  <1>6. /\ Put(L, K, <<>>) /\ (K.ret => K.fault = "None")
        /\ K.ret /\ ~K.lost => K.file = Bytes(L) /\ Bytes(K) = Bytes(L)
        BY <1>3, <1>4, FlushWrote DEF Wrote
  <1>7. SameLog(K, log') /\ log'.lost = K.lost
    <2>1. SoundLog(K)
          BY <1>6, Zenon DEF Put
    <2> QED BY <1>5, <2>1, DoesResult
  <1>8. Put(log, log', <<>>)
        BY <1>3, <1>6, <1>7, SamePut
  <1>9. /\ log'.ret => log'.fault = "None"
        /\ log'.ret /\ ~log'.lost => log'.file = Bytes(log) /\ Bytes(log') = Bytes(log)
        BY <1>3, <1>6, <1>7 DEF SameLog
  <1> QED BY <1>2, <1>8, <1>9 DEF DoFlush, FlushStep, May

LEMMA StepEnd ==
  ASSUME LogInv, DoEnd
  PROVE  EndStep
  <1>1. PICK d \in Disk : Does(End(WithDisk(d)))
        BY DEF DoEnd
  <1> DEFINE L == WithDisk(d)
             K == End(L)
  <1>2. d \in Seq(Int) /\ May
        BY LogAssumption DEF DoEnd
  <1>3. SameLog(log, L) /\ SoundLog(L) /\ L.fault = "None"
        BY <1>2, WithDiskResult
  <1> HIDE DEF L
  <1>4. HasEnded(L, K)
        BY <1>3, EndResult
  <1>5. log' = [K EXCEPT !.disk = <<>>]
        BY <1>1 DEF Does, L
  <1> HIDE DEF K
  <1>6. SameLog(K, log') /\ log'.lost = K.lost
        BY <1>4, <1>5, DoesResult DEF HasEnded
  <1>7. HasEnded(log, log')
        BY <1>3, <1>4, <1>6, SameEnded
  <1> QED BY <1>2, <1>7 DEF DoEnd, EndStep, May

LEMMA StepLine ==
  ASSUME LogInv, NEW line \in Line, NEW a \in BOOLEAN, NEW b \in BufMax, Mmlog(line, a, b)
  PROVE  LineStep(line, a)
  <1> DEFINE t == FlattenSeq(line)
  <1>1. line \in Seq(Seq(Nat)) /\ b \in Int
    <2>1. line \in Seq(Msg) /\ Msg \subseteq Seq(Nat) /\ b \in Int
          BY LogAssumption
    <2> QED BY <2>1, SeqMonotonic
  <1>2. May /\ log.fault = "None" /\ user = "Mm" /\ blg' = TRUE /\ UNCHANGED user
        BY DEF Mmlog, May
  <1>3. t \in Seq(Nat)
        BY <1>1, <1>2, PiecesThrough DEF LogInv
  <1> HIDE DEF t
  <1>4. CASE blg
    <2>1. PICK d \in Disk : Does(Pieces(WithDisk(d), line))
          BY <1>4 DEF Mmlog
    <2> DEFINE L == WithDisk(d)
               K == Pieces(L, line)
    <2>2. SameLog(log, L) /\ SoundLog(L) /\ L.fault = "None"
          BY <1>2, LogAssumption, WithDiskResult
    <2> HIDE DEF L
    <2>3. Put(L, K, t)
          BY <1>1, <2>2, PiecesThrough DEF Wrote, t
    <2>4. log' = [K EXCEPT !.disk = <<>>]
          BY <2>1 DEF Does, L
    <2> HIDE DEF K
    <2>5. SameLog(K, log') /\ log'.lost = K.lost
      <3>1. SoundLog(K)
            BY <2>3, Zenon DEF Put
      <3> QED BY <2>4, <3>1, DoesResult
    <2>6. Put(log, log', t)
          BY <2>2, <2>3, <2>5, SamePut
    <2> QED BY <1>2, <1>3, <1>4, <2>6 DEF LineStep, t
  <1>5. CASE ~blg
    <2>1. PICK handle \in Handles, sets \in BOOLEAN, d \in Disk :
            LET S == Start(WithDisk(d), a, b, handle, sets)
            IN  Does(IF S.ret THEN Pieces(S, line) ELSE S)
          BY <1>5 DEF Mmlog
    <2> DEFINE L == WithDisk(d)
               S == Start(L, a, b, handle, sets)
               P == Pieces(S, line)
               K == IF S.ret THEN P ELSE S
    <2>2. SameLog(log, L) /\ ~L.lost /\ SoundLog(L) /\ L.fault = "None"
          BY <1>2, LogAssumption, WithDiskResult
    <2>3. log' = [K EXCEPT !.disk = <<>>]
          BY <2>1 DEF Does
    <2> HIDE DEF L
    <2>4. Started(L, S, a)
      <3>1. handle \in {"Open", "Bad", "Err"}
            BY DEF Handles
      <3> QED BY <1>1, <2>2, <3>1, StartResult
    <2> HIDE DEF S
    <2>5. Started(log, S, a) /\ SoundLog(S) /\ S.fault = "None" /\ ~S.lost
          BY <2>2, <2>4, SameStarted DEF Started
    <2>6. CASE S.ret
      <3>1. log' = [P EXCEPT !.disk = <<>>]
            BY <2>3, <2>6
      <3>2. Put(S, P, t)
            BY <1>1, <2>5, PiecesThrough DEF Wrote, t
      <3> HIDE DEF P
      <3>3. SameLog(P, log') /\ log'.lost = P.lost
        <4>1. SoundLog(P)
              BY <3>2, Zenon DEF Put
        <4> QED BY <3>1, <4>1, DoesResult
      <3>4. SameLog(S, S)
            BY <2>5 DEF SameLog, SameFile
      <3>5. Put(S, log', t)
            BY <3>2, <3>3, <3>4, SamePut
      <3> QED BY <1>2, <1>3, <1>5, <2>5, <2>6, <3>5 DEF LineStep, t
    <2>7. CASE ~S.ret
      <3>1. log' = [S EXCEPT !.disk = <<>>]
            BY <2>3, <2>7
      <3>2. SameLog(S, log') /\ log'.lost = S.lost
            BY <2>5, <3>1, DoesResult
      <3>3. Started(log, log', a) /\ ~log'.ret
            BY <2>5, <2>7, <3>2 DEF SameLog, Started, SameFile
      <3> QED BY <1>2, <1>3, <1>5, <3>3 DEF LineStep, t
    <2> QED BY <2>6, <2>7
  <1> QED BY <1>4, <1>5 DEF LogInv

LEMMA StepRenew ==
  ASSUME LogInv, Renew
  PROVE  RenewStep
  <1>1. PICK d \in Disk : log' = Renewed(End(WithDisk(d)))
        BY DEF Renew
  <1> DEFINE L == WithDisk(d)
             E == End(L)
  <1>2. May /\ blg' = FALSE
        BY DEF Renew
  <1>3. SameLog(log, L) /\ SoundLog(L) /\ L.fault = "None"
        BY <1>2, LogAssumption, WithDiskResult
  <1> HIDE DEF L
  <1>4. HasEnded(L, E)
        BY <1>3, EndResult
  <1>5. log' = Renewed(E)
        BY <1>1 DEF L
  <1> HIDE DEF E
  <1>6. /\ SoundLog(E) /\ E.ret \in BOOLEAN /\ E.file \in Seq(Nat) /\ E.checks \in BOOLEAN
        /\ E.lost \in BOOLEAN
        BY <1>4, Fields DEF HasEnded, SoundLog
  <1>7. CASE E.fault # "None"
    <2>1. log' = [E EXCEPT !.disk = <<>>]
          BY <1>5, <1>7 DEF Renewed
    <2>2. SameLog(E, log') /\ log'.lost = E.lost
          BY <1>6, <2>1, DoesResult
    <2>3. HasEnded(log, log') /\ log'.fault # "None"
          BY <1>3, <1>4, <1>7, <2>2, SameEnded DEF SameLog
    <2> QED BY <1>2, <2>3 DEF RenewStep, May
  <1>8. CASE E.fault = "None"
    <2> DEFINE F == Fresh(E.file, E.checks)
               K == [F EXCEPT !.lost = E.lost, !.ret = E.ret]
    <2>1. log' = K
          BY <1>5, <1>8 DEF Renewed
    <2>2. /\ SoundLog(F) /\ F.hfile = "Bad" /\ F.file = E.file /\ F.fault = "None"
          BY <1>6, FreshSound
    <2> HIDE DEF F
    <2>3. F \in Logs /\ Caused(F) /\ Roomy(F)
          BY <2>2 DEF SoundLog
    <2>4. /\ K \in Logs /\ SameFile(F, K) /\ K.file = F.file /\ K.fault = F.fault /\ K.buf = F.buf
          /\ K.err = F.err /\ K.went = F.went /\ K.lost = E.lost /\ K.ret = E.ret
          BY <1>6, <2>3 DEF Logs, SameFile
    <2> HIDE DEF K
    <2>5. SoundLog(K) /\ ~Accepts(K) /\ K.hfile = "Bad"
      <3>1. K.hfile = "Bad"
            BY <2>2, <2>4 DEF SameFile
      <3>2. Caused(K)
            BY <2>3, <2>4 DEF Caused, SameFile
      <3>3. Roomy(K)
            BY <3>1 DEF Roomy, Accepts
      <3> QED BY <2>4, <3>1, <3>2, <3>3 DEF SoundLog, Accepts
    <2>6. Bytes(K) = K.file
          BY <2>4, <2>5, Typed
    <2>7. HasEnded(L, K)
          BY <1>4, <2>2, <2>4, <2>5, <2>6 DEF HasEnded
    <2>8. SameLog(K, K)
          BY <2>5 DEF SameLog, SameFile
    <2>9. HasEnded(log, K)
          BY <1>3, <2>7, <2>8, SameEnded
    <2> QED BY <1>2, <2>1, <2>5, <2>9 DEF RenewStep, May
  <1> QED BY <1>7, <1>8

LEMMA StepCrash ==
  ASSUME LogInv, Crash
  PROVE  CrashStep
  <1>1. log.file \in Seq(Nat) /\ log.checks \in BOOLEAN
        BY Fields DEF LogInv, SoundLog
  <1> QED BY <1>1, FreshSound DEF Crash, CrashStep

\* Each step keeps the invariant.
LEMMA LogGoesOn ==
  ASSUME LogInv, [LogNext]_logVars
  PROVE  LogInv'
  <1>1. ASSUME NEW a \in BOOLEAN, NEW b \in BufMax, DoStart(a, b) PROVE LogInv'
        BY <1>1, StepStart DEF LogInv, StartStep, Started
  <1>2. ASSUME NEW m \in Msg, DoAppend(m) PROVE LogInv'
    <2>1. AppendStep(m)
          BY <1>2, StepAppend
    <2>2. SoundLog(log') /\ log'.hfile = log.hfile /\ log.fault = "None"
          BY <2>1 DEF AppendStep, Put, SameFile
    <2> QED BY <2>1, <2>2 DEF AppendStep, LogInv
  <1>3. CASE DoFlush
    <2>1. FlushStep
          BY <1>3, StepFlush
    <2>2. SoundLog(log') /\ log'.hfile = log.hfile /\ log.fault = "None"
          BY <2>1 DEF FlushStep, Put, SameFile
    <2> QED BY <2>1, <2>2 DEF FlushStep, LogInv
  <1>4. CASE DoEnd
    <2>1. EndStep /\ user = "Client"
          BY <1>4, StepEnd DEF DoEnd
    <2> QED BY <2>1 DEF LogInv, EndStep, HasEnded
  <1>5. ASSUME NEW line \in Line, NEW a \in BOOLEAN, NEW b \in BufMax, Mmlog(line, a, b)
        PROVE  LogInv'
    <2>1. LineStep(line, a)
          BY <1>5, StepLine
    <2>2. SoundLog(log')
          BY <2>1 DEF LineStep, Put, Started
    <2> QED BY <2>1, <2>2 DEF LineStep, LogInv
  <1>6. CASE Renew
        BY <1>6, StepRenew DEF LogInv, RenewStep, HasEnded
  <1>7. CASE Crash
        BY <1>7, StepCrash DEF LogInv, CrashStep
  <1>8. CASE UNCHANGED logVars
        BY <1>8 DEF logVars, LogInv
  <1> QED BY <1>1, <1>2, <1>3, <1>4, <1>5, <1>6, <1>7, <1>8 DEF LogNext

\* Each assertion of BufferedLogfile.h has its one cause, and a buffer that is full
\* is left by a write of nothing only, for messages, lines and buffer sizes of
\* every kind, on a disk that may do anything, in both kinds of build.
THEOREM LossIsBounded == LogSpec => []LossBounded
  <1>1. LogInit => LogInv
        BY LogBegins
  <1>2. LogInv /\ [LogNext]_logVars => LogInv'
        BY LogGoesOn
  <1>3. LogInv => LossBounded
    <2> SUFFICES ASSUME LogInv PROVE LossBounded
        OBVIOUS
    <2>1. Caused(log) /\ Roomy(log)
          BY DEF LogInv, SoundLog
    <2> QED BY <2>1 DEF Caused, Roomy, Accepts, LossBounded
  <1> QED BY <1>1, <1>2, <1>3, PTL DEF LogSpec

-------------------------------------------------------------------------------
(***************************************************************************)
(* The refinement: each step of the file is a step of the log it promises. *)
(***************************************************************************)
\* The abstract log's variables are these, and so are they after a step.
LEMMA Mapping ==
  /\ log.file \o InStream(log) = Bytes(log)
  /\ (log.file \o InStream(log))' = Bytes(log')
BY DEF Bytes, InStream

\* A call that is given t and misses nothing: a log that refuses keeps a beginning.
LEMMA RefuseMaps ==
  ASSUME SoundLog(log), log.fault = "None", NEW t \in Seq(Nat), SoundLog(log'),
         ~log'.ret, Len(log.file) <= Len(log'.file), Bytes(log') = log'.file,
         Begins(log'.file, Bytes(log) \o t),
         log'.hfile = log.hfile \/ ~(log'.hfile = "Open" /\ log'.fault = "None")
  PROVE  Abstract!Refuse(t)
  <1> DEFINE n == Len(log'.file)
             s == Bytes(log) \o t
  <1>1. /\ n \in Nat /\ Len(log.file) \in Nat /\ log'.file \in Seq(Nat) /\ Bytes(log) \in Seq(Nat)
        /\ log'.ret = FALSE
        BY Typed, Fields DEF SoundLog
  <1>2. s \in Seq(Nat) /\ Len(s) \in Nat
        BY <1>1, Joined, LenProperties
  <1>3. n <= Len(s) /\ SubSeq(s, 1, n) = log'.file
        BY <1>1, <1>2, BeginsCut
  <1>4. n \in Len(log.file) .. Len(s)
        BY <1>1, <1>2, <1>3
  <1> QED BY <1>1, <1>3, <1>4, Mapping DEF Abstract!Refuse, Abstract!Cut

\* ... and one in which a write falls short: bytes are missing.
LEMMA MissMaps ==
  ASSUME SoundLog(log), log.fault = "None", NEW t \in Seq(Nat), SoundLog(log'),
         Len(log.file) <= Len(log'.file),
         Abstract!Thins(Len(log.file), Bytes(log) \o t, Bytes(log')),
         log'.hfile = log.hfile \/ ~(log'.hfile = "Open" /\ log'.fault = "None")
  PROVE  Abstract!Miss(t)
  <1>1. /\ Len(log.file) \in Nat /\ Len(log'.file) \in Nat /\ Len(Bytes(log')) \in Nat
        /\ Len(log'.file) <= Len(Bytes(log')) /\ log'.ret \in BOOLEAN
        BY Typed, Fields DEF SoundLog
  <1>2. Len(log'.file) \in Len(log.file) .. Len(Bytes(log'))
        BY <1>1
  <1> QED BY <1>1, <1>2, Mapping DEF Abstract!Miss, Abstract!Drop

\* The abstract log's step of a call that is given t.
LEMMA PutMaps ==
  ASSUME SoundLog(log), log.fault = "None", NEW t \in Seq(Nat), Put(log, log', t)
  PROVE  /\ log'.lost => Abstract!Miss(t)
         /\ ~log'.lost /\ ~log'.ret => Abstract!Refuse(t)
         /\ ~log'.lost /\ log'.ret => Abstract!Accept(t) \/ (t = <<>> /\ Abstract!Flush)
  <1>1. /\ SoundLog(log') /\ log'.hfile = log.hfile /\ Len(log.file) <= Len(log'.file)
        /\ Abstract!Thins(Len(log.file), Bytes(log) \o t, Bytes(log'))
        /\ (Accepts(log') => Accepts(log)) /\ (~Accepts(log) => log'.file = log.file)
        BY DEF Put, SameFile
  <1>2. ~log'.lost =>
          \/ log'.ret /\ Accepts(log') /\ Bytes(log') = Bytes(log) \o t
          \/ /\ log'.ret /\ log'.fault = "None" /\ t = <<>>
             /\ log'.file = log.file /\ Bytes(log') = Bytes(log)
          \/ ~log'.ret /\ ~Accepts(log') /\ Begins(log'.file, Bytes(log) \o t)
        BY DEF Put
  <1>3. log'.lost => Abstract!Miss(t)
        BY <1>1, MissMaps
  <1>4. CASE ~log'.lost /\ ~log'.ret
    <2>1. ~Accepts(log') /\ Begins(log'.file, Bytes(log) \o t)
          BY <1>2, <1>4
    <2>2. Bytes(log') = log'.file
          BY <1>1, <2>1, Typed DEF SoundLog
    <2>3. Abstract!Refuse(t)
          BY <1>1, <1>4, <2>1, <2>2, RefuseMaps
    <2> QED BY <1>4, <2>3
  <1>5. CASE ~log'.lost /\ log'.ret
    <2>1. /\ Len(log'.file) <= Len(Bytes(log')) /\ Len(log'.file) \in Nat /\ Len(log.file) \in Nat
          /\ Len(Bytes(log')) \in Nat /\ log'.ret = TRUE /\ Bytes(log) \in Seq(Nat)
          BY <1>1, <1>5, Typed, Fields DEF SoundLog
    <2>2. Len(log'.file) \in Len(log.file) .. Len(Bytes(log'))
          BY <1>1, <2>1
    <2>3. CASE Accepts(log') /\ Bytes(log') = Bytes(log) \o t
      <3>1. /\ log.hfile = "Open" /\ log'.hfile = "Open" /\ log'.fault = "None"
            BY <1>1, <2>3 DEF Accepts
      <3>2. Abstract!Accept(t)
            BY <2>1, <2>2, <2>3, <3>1, Mapping DEF Abstract!Accept
      <3> QED BY <1>5, <3>2
    <2>4. CASE ~(Accepts(log') /\ Bytes(log') = Bytes(log) \o t)
      <3>1. log'.fault = "None" /\ t = <<>> /\ log'.file = log.file /\ Bytes(log') = Bytes(log)
            BY <1>2, <1>5, <2>4
      <3>2. Bytes(log') = Bytes(log) \o t
            BY <2>1, <3>1, ConcatEmptySeq
      <3>3. ~Accepts(log')
            BY <2>4, <3>2
      <3>4. Bytes(log') = log'.file
            BY <1>1, <3>3, Typed DEF SoundLog
      <3>5. (log'.hfile = "Open" /\ log'.fault = "None") = (log.hfile = "Open" /\ log.fault = "None")
            BY <1>1, <3>1
      <3>6. Abstract!Flush
            BY <2>1, <3>1, <3>4, <3>5, Mapping DEF Abstract!Flush
      <3> QED BY <1>5, <3>1, <3>6
    <2> QED BY <2>3, <2>4
  <1> QED BY <1>3, <1>4, <1>5

\* A call that opens the file and appends t at once.
LEMMA OpenMaps ==
  ASSUME SoundLog(log), log.hfile = "Bad", NEW a \in BOOLEAN, NEW t \in Seq(Nat),
         NEW S, Started(log, S, a), S.ret, Put(S, log', t)
  PROVE  /\ log'.lost => Abstract!OpenMiss(a, t)
         /\ ~log'.lost => Abstract!Open(a, t)
  <1> DEFINE kept == IF a THEN Bytes(log) ELSE <<>>
             n == Len(log'.file)
  <1>1. Bytes(log) = log.file
        BY Typed DEF SoundLog, Accepts
  <1>2. SoundLog(S) /\ S.hfile = "Open" /\ S.buf = <<>> /\ S.file = kept /\ S.fault = "None"
        BY <1>1 DEF Started
  <1>3. Bytes(S) = kept /\ kept \in Seq(Nat) /\ Len(kept) \in Nat
    <2>1. S.file \in Seq(Nat) /\ Len(S.file) \in Nat
          BY <1>2, Typed DEF SoundLog
    <2>2. Bytes(S) = S.file \o <<>>
          BY <1>2 DEF Bytes, InStream
    <2>3. S.file \o <<>> = S.file
          BY <2>1, ConcatEmptySeq
    <2> QED BY <1>2, <2>1, <2>2, <2>3
  <1> HIDE DEF kept
  <1>4. /\ SoundLog(log') /\ log'.hfile = "Open" /\ Len(kept) <= n
        /\ Abstract!Thins(Len(kept), kept \o t, Bytes(log'))
        BY <1>2, <1>3 DEF Put, SameFile
  <1>5. /\ n \in Nat /\ log'.file \in Seq(Nat) /\ Bytes(log') \in Seq(Nat) /\ log'.ret \in BOOLEAN
        /\ n <= Len(Bytes(log')) /\ Len(Bytes(log')) \in Nat
        BY <1>4, Typed, Fields DEF SoundLog
  <1>6. n \in Len(kept) .. Len(Bytes(log'))
        BY <1>3, <1>4, <1>5
  <1>7. log'.lost => Abstract!OpenMiss(a, t)
    <2>1. (log'.hfile = "Open" /\ log'.fault = "None") \in BOOLEAN
          OBVIOUS
    <2>2. ~(log.hfile = "Open" /\ log.fault = "None")
          OBVIOUS
    <2> QED BY <1>4, <1>5, <1>6, <2>1, <2>2, Mapping DEF Abstract!OpenMiss, Abstract!Drop, kept
  <1>8. ~log'.lost =>
          \/ log'.ret /\ Accepts(log') /\ Bytes(log') = kept \o t
          \/ log'.ret /\ log'.fault = "None" /\ t = <<>> /\ Bytes(log') = kept
          \/ ~log'.ret /\ ~Accepts(log') /\ Begins(log'.file, kept \o t)
        BY <1>3 DEF Put
  <1>9. CASE ~log'.lost /\ log'.ret
    <2>1. Bytes(log') = kept \o t
          BY <1>3, <1>8, <1>9, ConcatEmptySeq
    <2>2. log'.fault = "None" /\ log'.ret = TRUE
          BY <1>5, <1>8, <1>9 DEF Accepts
    <2>3. Abstract!Open(a, t)
          BY <1>4, <1>6, <2>1, <2>2, Mapping DEF Abstract!Open, kept
    <2> QED BY <1>9, <2>3
  <1>10. CASE ~log'.lost /\ ~log'.ret
    <2>1. ~Accepts(log') /\ Begins(log'.file, kept \o t)
          BY <1>8, <1>10
    <2>2. Bytes(log') = log'.file
          BY <1>4, <2>1, Typed DEF SoundLog
    <2> DEFINE s == kept \o t
    <2>3. s \in Seq(Nat) /\ Len(s) \in Nat
          BY <1>3, Joined, LenProperties
    <2>4. n <= Len(s) /\ SubSeq(s, 1, n) = log'.file
          BY <1>5, <2>1, <2>3, BeginsCut
    <2>5. n \in Len(kept) .. Len(s)
          BY <1>3, <1>4, <1>5, <2>3, <2>4
    <2>6. log'.ret = FALSE /\ (log'.hfile = "Open" /\ log'.fault = "None") \in BOOLEAN
          BY <1>5, <1>10
    <2>7. Abstract!Open(a, t)
          BY <2>2, <2>4, <2>5, <2>6, Mapping DEF Abstract!Open, Abstract!Cut, kept
    <2> QED BY <1>10, <2>7
  <1> QED BY <1>7, <1>9, <1>10

\* A call that opens the file, or does not get it open.
LEMMA StartMaps ==
  ASSUME SoundLog(log), log.hfile # "Open", NEW a \in BOOLEAN, Started(log, log', a)
  PROVE  Abstract!Open(a, <<>>)
  <1>1. Bytes(log) = log.file
        BY Typed DEF SoundLog, Accepts
  <1>2. SoundLog(log') /\ log'.fault = "None"
        BY DEF Started
  <1>3. /\ log'.file \in Seq(Nat) /\ Len(log'.file) \in Nat /\ log'.ret \in BOOLEAN
        BY <1>2, Typed, Fields DEF SoundLog
  <1>4. CASE log'.ret
    <2> DEFINE kept == IF a THEN Bytes(log) ELSE <<>>
    <2>1. log'.hfile = "Open" /\ log'.buf = <<>> /\ log'.file = kept
          BY <1>1, <1>4 DEF Started
    <2> HIDE DEF kept
    <2>2. Bytes(log') = log'.file \o <<>>
          BY <2>1 DEF Bytes, InStream
    <2>3. Bytes(log') = kept \o <<>> /\ Len(Bytes(log')) = Len(kept) /\ Len(kept) \in Nat
          BY <1>3, <2>1, <2>2, ConcatEmptySeq
    <2>4. Len(log'.file) \in Len(kept) .. Len(Bytes(log'))
          BY <2>1, <2>3
    <2>5. log'.ret = TRUE
          BY <1>3, <1>4
    <2> QED BY <1>2, <2>1, <2>3, <2>4, <2>5, Mapping DEF Abstract!Open, kept
  <1>5. CASE ~log'.ret
    <2>1. log'.hfile # "Open" /\ log'.file = log.file /\ log'.ret = FALSE
          BY <1>3, <1>5 DEF Started
    <2>2. Bytes(log') = Bytes(log)
          BY <1>1, <1>2, <2>1, Typed DEF SoundLog, Accepts
    <2>3. /\ Len(log'.file) = Len(log.file)
          /\ (log'.hfile = "Open" /\ log'.fault = "None") = (log.hfile = "Open" /\ log.fault = "None")
          BY <2>1
    <2> QED BY <2>1, <2>2, <2>3, Mapping DEF Abstract!Open
  <1> QED BY <1>4, <1>5

\* Closing puts all into the file, or a beginning of it and says so, or misses some.
LEMMA EndMaps ==
  ASSUME SoundLog(log), log.fault = "None", HasEnded(log, log')
  PROVE  /\ log'.lost => Abstract!Miss(<<>>)
         /\ ~log'.lost => Abstract!Close \/ Abstract!Refuse(<<>>)
  <1>1. /\ SoundLog(log') /\ ~(log'.hfile = "Open" /\ log'.fault = "None")
        /\ Len(log.file) <= Len(log'.file) /\ Bytes(log') = log'.file
        /\ Begins(log'.file, Bytes(log))
        BY DEF HasEnded
  <1>2. /\ log.file \in Seq(Nat) /\ Bytes(log) \in Seq(Nat) /\ log'.file \in Seq(Nat)
        /\ log'.ret \in BOOLEAN /\ Len(log.file) \in Nat /\ <<>> \in Seq(Nat)
        /\ Bytes(log) \o <<>> = Bytes(log)
        BY <1>1, Typed, Fields, EmptySeq, ConcatEmptySeq DEF SoundLog
  <1>3. log'.lost => Abstract!Miss(<<>>)
    <2>1. Abstract!Thins(Len(log.file), Bytes(log), log'.file)
          BY <1>1, <1>2, ThinsCut
    <2> QED BY <1>1, <1>2, <2>1, MissMaps
  <1>4. CASE ~log'.lost /\ log'.ret
    <2>1. log'.file = Bytes(log) /\ log'.ret = TRUE
          BY <1>2, <1>4 DEF HasEnded
    <2>2. (log'.hfile = "Open" /\ log'.fault = "None") = FALSE
          BY <1>1
    <2>3. Abstract!Close
          BY <1>1, <2>1, <2>2, Mapping DEF Abstract!Close
    <2> QED BY <1>4, <2>3
  <1>5. CASE ~log'.lost /\ ~log'.ret
    <2>1. Abstract!Refuse(<<>>)
          BY <1>1, <1>2, <1>5, RefuseMaps
    <2> QED BY <1>5, <2>1
  <1> QED BY <1>3, <1>4, <1>5

\* A crash leaves what was in the file.
LEMMA CrashMaps ==
  ASSUME SoundLog(log), CrashStep
  PROVE  Abstract!Crash
  <1>1. Bytes(log') = log'.file
        BY Typed DEF CrashStep, Accepts, SoundLog
  <1>2. Begins(log.file, Bytes(log)) /\ log.file \in Seq(Nat) /\ Bytes(log) \in Seq(Nat)
        BY Typed DEF SoundLog
  <1>3. SubSeq(Bytes(log), 1, Len(log.file)) = log.file
        BY <1>2, BeginsCut
  <1> QED BY <1>1, <1>3, Mapping DEF CrashStep, Abstract!Crash, Abstract!Cut

\* A flush that refuses nothing and misses nothing has put the buffer into the file.
LEMMA FlushMaps ==
  ASSUME SoundLog(log), FlushStep, ~log'.lost, log'.ret
  PROVE  Abstract!Flush
  <1>1. /\ SoundLog(log') /\ log'.hfile = log.hfile /\ log.fault = "None" /\ log'.fault = "None"
        BY DEF FlushStep, Put, SameFile
  <1>2. Bytes(log') = Bytes(log) /\ log'.file = Bytes(log) /\ log'.ret = TRUE
        BY <1>1, Fields DEF FlushStep, SoundLog
  <1>3. (log'.hfile = "Open" /\ log'.fault = "None") = (log.hfile = "Open" /\ log.fault = "None")
        BY <1>1
  <1> QED BY <1>2, <1>3, Mapping DEF Abstract!Flush

\* Each step maps to a step of the abstract log or to none.
LEMMA NextMaps ==
  ASSUME LogInv, [LogNext]_logVars
  PROVE  [Abstract!Next]_Abstract!vars
  <1> DEFINE Texts == AllText \cup {<<>>}
             Missed == \E m \in Texts : Abstract!Miss(m) \/ \E a \in BOOLEAN : Abstract!OpenMiss(a, m)
             Maps == (log'.lost => Missed) /\ (~log'.lost => Abstract!NoMiss)
  <1>0. SoundLog(log)
        BY DEF LogInv
  <1>1. Maps => Abstract!Next
        BY DEF Abstract!Next
  <1>2. ASSUME NEW t \in Seq(Nat), t \in AllText, log.fault = "None", Put(log, log', t) PROVE Maps
        BY <1>0, <1>2, PutMaps DEF Abstract!NoMiss
  <1>3. ASSUME NEW a \in BOOLEAN, log.hfile # "Open", Started(log, log', a) PROVE Maps
    <2>1. Abstract!Open(a, <<>>) /\ ~log'.lost
          BY <1>0, <1>3, StartMaps DEF Started
    <2> QED BY <2>1 DEF Abstract!NoMiss
  <1>4. ASSUME log.fault = "None", HasEnded(log, log') PROVE Maps
        BY <1>0, <1>4, EndMaps DEF Abstract!NoMiss
  <1> HIDE DEF Maps
  <1>5. ASSUME NEW a \in BOOLEAN, NEW b \in BufMax, DoStart(a, b) PROVE Maps
        BY <1>3, <1>5, StepStart DEF StartStep
  <1>6. ASSUME NEW m \in Msg, DoAppend(m) PROVE Maps
    <2>1. m \in Seq(Nat) /\ m \in AllText
          BY LogAssumption DEF AllText
    <2> QED BY <1>2, <1>6, <2>1, StepAppend DEF AppendStep
  <1>7. ASSUME DoFlush PROVE Maps
    <2>1. FlushStep /\ <<>> \in Seq(Nat)
          BY <1>7, StepFlush, EmptySeq
    <2>2. log'.lost => Abstract!Miss(<<>>)
          BY <1>0, <2>1, PutMaps DEF FlushStep
    <2>3. ~log'.lost /\ ~log'.ret => Abstract!Refuse(<<>>)
          BY <1>0, <2>1, PutMaps DEF FlushStep
    <2>4. ~log'.lost /\ log'.ret => Abstract!Flush
          BY <1>0, <2>1, FlushMaps
    <2> QED BY <2>2, <2>3, <2>4 DEF Maps, Abstract!NoMiss
  <1>8. ASSUME DoEnd PROVE Maps
        BY <1>4, <1>8, StepEnd DEF EndStep
  <1>9. ASSUME NEW line \in Line, NEW a \in BOOLEAN, NEW b \in BufMax, Mmlog(line, a, b)
        PROVE  Maps
    <2> DEFINE t == FlattenSeq(line)
    <2>1. LineStep(line, a)
          BY <1>9, StepLine
    <2>2. t \in Seq(Nat) /\ t \in AllText /\ log.fault = "None"
          BY <2>1 DEF LineStep, AllText
    <2>3. ~blg => log.hfile = "Bad"
          BY <2>1, <2>2 DEF LineStep, LogInv
    <2> HIDE DEF t
    <2>4. CASE blg /\ Put(log, log', t)
          BY <1>2, <2>2, <2>4
    <2>5. CASE ~blg /\ Started(log, log', a)
          BY <1>3, <2>3, <2>5
    <2>6. CASE ~blg /\ \E S : Started(log, S, a) /\ S.ret /\ Put(S, log', t)
      <3>1. (log'.lost => Abstract!OpenMiss(a, t)) /\ (~log'.lost => Abstract!Open(a, t))
            BY <1>0, <2>2, <2>3, <2>6, OpenMaps
      <3> QED BY <2>2, <3>1 DEF Maps, Abstract!NoMiss
    <2> QED BY <2>1, <2>4, <2>5, <2>6 DEF LineStep, t
  <1>10. ASSUME Renew PROVE Maps
         BY <1>4, <1>10, StepRenew DEF RenewStep
  <1>11. ASSUME Crash PROVE Maps
    <2>1. Abstract!Crash /\ ~log'.lost
          BY <1>0, <1>11, StepCrash, CrashMaps DEF CrashStep
    <2> QED BY <2>1 DEF Maps, Abstract!NoMiss
  <1>12. CASE UNCHANGED logVars
    <2>1. log' = log
          BY <1>12 DEF logVars
    <2> QED BY <2>1, Mapping DEF Abstract!vars
  <1> QED BY <1>1, <1>5, <1>6, <1>7, <1>8, <1>9, <1>10, <1>11, <1>12 DEF LogNext

\* To its clients the buffered file is the log of AppendLog: what it accepted, in
\* order, of which a prefix is in the file for good, and complete but for calls in
\* which a write fell short, through the three ways to write, disks of every kind,
\* crashes and log lines of any length.
THEOREM FileIsAppendLog == LogSpec => ImplementsAppendLog
  <1>1. LogInit => LogInv
        BY LogBegins
  <1>2. LogInv /\ [LogNext]_logVars => LogInv'
        BY LogGoesOn
  <1>3. LogInit => Abstract!Init
    <2> SUFFICES ASSUME LogInit PROVE Abstract!Init
        OBVIOUS
    <2>1. PICK c \in BOOLEAN : log = Fresh(<<>>, c)
          BY DEF LogInit
    <2>2. /\ log.hfile = "Bad" /\ log.file = <<>> /\ log.ret = TRUE /\ log.lost = FALSE
          /\ SoundLog(log)
      <3>1. <<>> \in Seq(Nat)
            BY EmptySeq
      <3> QED BY <2>1, <3>1, FreshSound, Zenon
    <2>3. Bytes(log) = <<>> /\ Len(log.file) = 0
          BY <2>2, Typed, EmptySeq DEF Accepts, SoundLog
    <2> QED BY <2>2, <2>3, Mapping DEF Abstract!Init
  <1>4. LogInv /\ [LogNext]_logVars => [Abstract!Next]_Abstract!vars
        BY NextMaps
  <1> QED BY <1>1, <1>2, <1>3, <1>4, PTL DEF LogSpec, ImplementsAppendLog, Abstract!Spec
=================================================================================
