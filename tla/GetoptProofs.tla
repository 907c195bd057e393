------------------------------ MODULE GetoptProofs ------------------------------
(***************************************************************************)
(* Proofs about the option parser, for every command line.  First its      *)
(* loop: exchange() makes a rotation of the two runs (RotatedIs), so that  *)
(* the words of argv stay what they are.  Then where a call stands when it *)
(* has found its word, and what each kind of call does there (Steps); from *)
(* which the ranges of the scan position follow (RangeHolds), that a call  *)
(* goes on to a later word or further into its word (CallsAdvance), and    *)
(* that an error names what was wrong (ErrorsNamed).  Last the words that  *)
(* the calls leave behind: what is kept in order, and why a second scan    *)
(* finds its options in front (SplitsStably); and what they read, which is *)
(* the command line from left to right (ReadsLeftToRight).                 *)
(***************************************************************************)
EXTENDS Getopt, FiniteSetTheorems, WellFoundedInduction, SequenceTheorems, TLAPS

\* Induction over the numbers, said of a set.  It rests on what the library says
\* of the strict subsets of a finite set: they get no smaller for ever.
LEMMA Induction ==
  ASSUME NEW S, 0 \in S, \A n \in Nat : n \in S => n + 1 \in S
  PROVE  Nat \subseteq S
  <1> DEFINE T == {1 .. n : n \in Nat \ S}
             R == StrictSubsetOrdering(Nat)
  <1> SUFFICES ASSUME ~(Nat \subseteq S) PROVE FALSE
    OBVIOUS
  <1>0. T # {}
    OBVIOUS
  <1>1. T \subseteq FiniteSubsetsOf(Nat)
    <2>1. \A n \in Nat : 1 .. n \in FiniteSubsetsOf(Nat)
      BY FS_Interval DEF FiniteSubsetsOf
    <2>2. QED
      BY <2>1
  <1>2. PICK x \in T : \A y \in T : ~(<<y, x>> \in R)
    <2> HIDE DEF T, R
    <2>1. QED
      BY <1>0, <1>1, FS_StrictSubsetOrderingWellFounded, WFMin DEF R
  <1>3. PICK m \in Nat \ S : x = 1 .. m
    OBVIOUS
  <1>4. m - 1 \in Nat \ S /\ m \in 1 .. m /\ m \notin 1 .. (m - 1)
    BY <1>3
  <1>5. <<1 .. (m - 1), x>> \in R
    BY <1>3, <1>4 DEF StrictSubsetOrdering
  <1>6. QED
    BY <1>2, <1>4, <1>5

Rounds(n, b, g, f) == f[0] = b /\ \A i \in 1 .. n : f[i] = g[i][f[i - 1]]

\* What a loop of n rounds computes, each round a function of the one before.
LEMMA Iteration ==
  ASSUME NEW n \in Nat, NEW V, NEW b \in V, NEW g, g \in [1 .. n -> [V -> V]]
  PROVE  \E f \in [0 .. n -> V] : Rounds(n, b, g, f)
  <1> DEFINE Runs(m) == \E f \in [0 .. m -> V] : Rounds(m, b, g, f)
             S == {m \in Nat : m <= n => Runs(m)}
  <1>1. 0 \in S
    <2>1. [i \in 0 .. 0 |-> b] \in [0 .. 0 -> V] /\ [i \in 0 .. 0 |-> b][0] = b
      OBVIOUS
    <2>2. \A i \in 1 .. 0 : FALSE
      OBVIOUS
    <2>3. Runs(0)
      BY <2>1, <2>2, Zenon DEF Rounds
    <2>4. QED
      BY <2>3
  <1>2. ASSUME NEW m \in Nat, m \in S
        PROVE  m + 1 \in S
    <2>1. SUFFICES ASSUME m + 1 <= n PROVE Runs(m + 1)
      OBVIOUS
    <2>2. PICK f \in [0 .. m -> V] : f[0] = b /\ \A i \in 1 .. m : f[i] = g[i][f[i - 1]]
      BY <1>2, <2>1 DEF Rounds
    <2> DEFINE h == [i \in 0 .. m + 1 |-> IF i = m + 1 THEN g[m + 1][f[m]] ELSE f[i]]
    <2>3. m + 1 \in 1 .. n /\ f[m] \in V /\ g[m + 1] \in [V -> V]
      BY <2>1
    <2>4. g[m + 1][f[m]] \in V
      BY <2>3
    <2>5. h \in [0 .. m + 1 -> V]
      BY <2>4
    <2>6. h[0] = b
      BY <2>2
    <2>7. ASSUME NEW i \in 1 .. m + 1 PROVE h[i] = g[i][h[i - 1]]
      <3>1. h[i - 1] = f[i - 1]
        OBVIOUS
      <3>2. CASE i = m + 1
        BY <3>1, <3>2
      <3>3. CASE i # m + 1
        BY <2>2, <3>1, <3>3
      <3>4. QED
        BY <3>2, <3>3
    <2>8. QED
      <3> HIDE DEF h
      <3>1. QED
        BY <2>5, <2>6, <2>7 DEF Rounds
  <1>3. Nat \subseteq S
    <2> HIDE DEF S
    <2>1. QED
      BY <1>1, <1>2, Induction
  <1>4. QED
    BY <1>3

\* The cells of argv.
Cells(N, S) == [0 .. N - 1 -> S]

Rot(a, b, m, t) ==
  [i \in DOMAIN a |-> IF i \in b .. b + (t - m) - 1 THEN a[i + (m - b)]
                      ELSE IF i \in b + (t - m) .. t - 1 THEN a[i - (t - m)] ELSE a[i]]

\* Swapping two runs of equal length keeps the array within its values.
LEMMA SwapRunsIs ==
  ASSUME NEW N \in Nat, NEW S, NEW a \in Cells(N, S), NEW p \in Nat, NEW q \in Nat,
         NEW n \in Nat, p + n <= q, q + n <= N
  PROVE  SwapRuns(a, p, q, n) \in Cells(N, S)
  <1>1. ASSUME NEW i \in 0 .. N - 1
        PROVE  (IF i \in p .. p + n - 1 THEN a[q + i - p]
                ELSE IF i \in q .. q + n - 1 THEN a[p + i - q] ELSE a[i]) \in S
    <2>1. CASE i \in p .. p + n - 1
      BY <2>1 DEF Cells
    <2>2. CASE i \in q .. q + n - 1
      BY <2>2 DEF Cells
    <2>3. CASE ~(i \in p .. p + n - 1) /\ ~(i \in q .. q + n - 1)
      BY <2>3 DEF Cells
    <2>4. QED
      BY <2>1, <2>2, <2>3
  <1>2. QED
    BY <1>1 DEF SwapRuns, Cells

\* A round in which the run at the bottom is the shorter one settles it at the top;
\* what is left to do is the same rotation of the rest.
LEMMA LowSwapped ==
  ASSUME NEW N \in Nat, NEW S, NEW a \in Cells(N, S),
         NEW b \in Nat, NEW m \in Nat, NEW t \in Nat, NEW low \in Nat, NEW u \in Nat,
         b + low <= m, m <= b + low, m < u, u + low <= t, t <= u + low, t <= N
  PROVE  Rot(SwapRuns(a, b, u, low), b, m, u) = Rot(a, b, m, t)
  <1> DEFINE c == SwapRuns(a, b, u, low)
  <1>1. /\ DOMAIN c = 0 .. N - 1 /\ DOMAIN a = 0 .. N - 1
        /\ \A i \in 0 .. N - 1 :
             c[i] = IF i \in b .. m - 1 THEN a[i + (t - m)]
                    ELSE IF i \in t - low .. t - 1 THEN a[i - (t - m)] ELSE a[i]
    BY DEF SwapRuns, Cells
  <1> HIDE DEF c
  <1>2. ASSUME NEW i \in 0 .. N - 1
        PROVE  Rot(c, b, m, u)[i] = Rot(a, b, m, t)[i]
    <2> DEFINE high == t - m
    <2>1. CASE i \in b .. b + (high - low) - 1
      <3>1. Rot(c, b, m, u)[i] = c[i + low] /\ Rot(a, b, m, t)[i] = a[i + low]
        BY <1>1, <2>1 DEF Rot
      <3>2. i + low \in 0 .. N - 1 /\ ~(i + low \in b .. m - 1) /\ ~(i + low \in t - low .. t - 1)
        BY <2>1
      <3>3. QED
        BY <1>1, <3>1, <3>2
    <2>2. CASE i \in b + (high - low) .. t - low - 1
      <3>1. Rot(c, b, m, u)[i] = c[i - (high - low)]
        BY <1>1, <2>2 DEF Rot
      <3>2. i - (high - low) \in b .. m - 1 /\ i - (high - low) \in 0 .. N - 1
        BY <2>2
      <3>3. c[i - (high - low)] = a[i - (high - low) + high]
        BY <1>1, <3>2
      <3>4. i - (high - low) + high = i + low
        OBVIOUS
      <3>5. Rot(a, b, m, t)[i] = a[i + low]
        BY <1>1, <2>2 DEF Rot
      <3>6. QED
        BY <3>1, <3>3, <3>4, <3>5
    <2>3. CASE i \in t - low .. t - 1
      <3>1. Rot(c, b, m, u)[i] = c[i] /\ Rot(a, b, m, t)[i] = a[i - high]
        BY <1>1, <2>3 DEF Rot
      <3>2. QED
        BY <1>1, <2>3, <3>1
    <2>4. CASE ~(i \in b .. t - 1)
      BY <1>1, <2>4 DEF Rot
    <2>5. QED
      BY <2>1, <2>2, <2>3, <2>4
  <1>3. QED
    BY <1>1, <1>2 DEF Rot, c

\* A round in which the run at the top is not the longer one settles it at the bottom.
LEMMA HighSwapped ==
  ASSUME NEW N \in Nat, NEW S, NEW a \in Cells(N, S),
         NEW b \in Nat, NEW m \in Nat, NEW t \in Nat, b < m, m < t, t <= N, t - m <= m - b
  PROVE  Rot(SwapRuns(a, b, m, t - m), b + (t - m), m, t) = Rot(a, b, m, t)
  <1> DEFINE c == SwapRuns(a, b, m, t - m)
             low == m - b
             high == t - m
  <1>1. /\ DOMAIN c = 0 .. N - 1 /\ DOMAIN a = 0 .. N - 1
        /\ \A i \in 0 .. N - 1 :
             c[i] = IF i \in b .. b + high - 1 THEN a[i + low]
                    ELSE IF i \in m .. t - 1 THEN a[i - low] ELSE a[i]
    BY DEF SwapRuns, Cells
  <1> HIDE DEF c
  <1>2. ASSUME NEW i \in 0 .. N - 1
        PROVE  Rot(c, b + high, m, t)[i] = Rot(a, b, m, t)[i]
    <2>1. CASE i \in b .. b + high - 1
      BY <1>1, <2>1 DEF Rot
    <2>2. CASE i \in b + high .. b + high + high - 1
      <3>1. Rot(c, b + high, m, t)[i] = c[i + (low - high)] /\ Rot(a, b, m, t)[i] = a[i - high]
        BY <1>1, <2>2 DEF Rot
      <3>2. i + (low - high) \in m .. t - 1 /\ i + (low - high) \in 0 .. N - 1
            /\ ~(i + (low - high) \in b .. b + high - 1)
        BY <2>2
      <3>3. c[i + (low - high)] = a[i + (low - high) - low]
        BY <1>1, <3>2
      <3>4. i + (low - high) - low = i - high
        OBVIOUS
      <3>5. QED
        BY <3>1, <3>3, <3>4
    <2>3. CASE i \in b + high + high .. t - 1
      <3>1. Rot(c, b + high, m, t)[i] = c[i - high] /\ Rot(a, b, m, t)[i] = a[i - high]
        BY <1>1, <2>3 DEF Rot
      <3>2. i - high \in 0 .. N - 1 /\ ~(i - high \in m .. t - 1) /\ ~(i - high \in b .. b + high - 1)
        BY <2>3
      <3>3. QED
        BY <1>1, <3>1, <3>2
    <2>4. CASE ~(i \in b .. t - 1)
      BY <1>1, <2>4 DEF Rot
    <2>5. QED
      BY <2>1, <2>2, <2>3, <2>4
  <1>3. QED
    BY <1>1, <1>2 DEF Rot, c

\* What the loop works on while the rotation still to be made leads to R.
Turning(N, S, R) ==
  {r \in [argv : Cells(N, S), bottom : Nat, middle : Nat, top : Nat] :
     /\ r.bottom <= r.middle /\ r.middle <= r.top /\ r.top <= N
     /\ Rot(r.argv, r.bottom, r.middle, r.top) = R}

Turned(r) == ~(r.top > r.middle /\ r.middle > r.bottom)

\* With one of the runs empty there is nothing to rotate.
LEMMA RotNone ==
  ASSUME NEW N \in Nat, NEW S, NEW a \in Cells(N, S), NEW b \in Nat, NEW m \in Nat,
         NEW t \in Nat, b = m \/ m = t
  PROVE  Rot(a, b, m, t) = a
  <1>1. ASSUME NEW i \in 0 .. N - 1 PROVE Rot(a, b, m, t)[i] = a[i]
    <2>1. CASE b = m
      BY <2>1 DEF Rot, Cells
    <2>2. CASE m = t
      BY <2>2 DEF Rot, Cells
    <2>3. QED
      BY <2>1, <2>2
  <1>2. Rot(a, b, m, t) = [i \in 0 .. N - 1 |-> Rot(a, b, m, t)[i]]
    BY DEF Rot, Cells
  <1>3. QED
    BY <1>1, <1>2 DEF Cells

\* A loop that is done has made the rotation.
LEMMA NothingToTurn ==
  ASSUME NEW N \in Nat, NEW S, NEW R, NEW r \in Turning(N, S, R), Turned(r)
  PROVE  r.argv = R
  <1> DEFINE a == r.argv
             b == r.bottom
             m == r.middle
             t == r.top
  <1>1. /\ a \in Cells(N, S) /\ b \in Nat /\ m \in Nat /\ t \in Nat
        /\ b <= m /\ m <= t /\ Rot(a, b, m, t) = R
    BY DEF Turning
  <1>2. m = b \/ t = m
    BY <1>1 DEF Turned
  <1> HIDE DEF a, b, m, t
  <1>3. QED
    BY <1>1, <1>2, RotNone DEF a

\* Each round keeps what the loop is to make of the array and shortens what it works on.
LEMMA RoundTurns ==
  ASSUME NEW N \in Nat, NEW S, NEW R, NEW r \in Turning(N, S, R)
  PROVE  /\ Swapped(r) \in Turning(N, S, R)
         /\ ~Turned(r) => Swapped(r).top - Swapped(r).bottom <= r.top - r.bottom - 1
         /\ Turned(r) => Swapped(r) = r
  <1> DEFINE a == r.argv
             b == r.bottom
             m == r.middle
             t == r.top
             Fields(x, y, z, u) == [argv |-> x, bottom |-> y, middle |-> z, top |-> u]
  <1>1. /\ a \in Cells(N, S) /\ b \in Nat /\ m \in Nat /\ t \in Nat
        /\ b <= m /\ m <= t /\ t <= N /\ Rot(a, b, m, t) = R /\ r = Fields(a, b, m, t)
    BY DEF Turning
  <1>0. /\ a \in Cells(N, S) /\ b \in Nat /\ m \in Nat /\ t \in Nat
        /\ t <= N /\ Rot(a, b, m, t) = R
    BY <1>1
  <1>2. CASE Turned(r)
    BY <1>2 DEF Swapped, Turned
  <1>3. CASE ~Turned(r) /\ t - m > m - b
    <2> DEFINE c == SwapRuns(a, b, t - (m - b), m - b)
               u == t - (m - b)
    <2>1. b < m /\ m < t
      BY <1>1, <1>3 DEF Turned
    <2>2. Swapped(r) = Fields(c, b, m, u)
      BY <1>1, <1>3 DEF Swapped, Turned
    <2>3. c \in Cells(N, S)
      <3>1. m - b \in Nat /\ t - (m - b) \in Nat /\ b + (m - b) <= t - (m - b)
            /\ t - (m - b) + (m - b) <= N
        BY <1>1, <1>3, <2>1
      <3> HIDE DEF a, b, m, t
      <3>2. QED
        BY <1>1, <3>1, SwapRunsIs
    <2>4. Rot(c, b, m, u) = R
      <3>1. t - m > m - b
        BY <1>3
      <3> HIDE DEF a, b, m, t
      <3> DEFINE low == m - b
      <3>2. /\ low \in Nat /\ b + low <= m /\ m <= b + low
            /\ u \in Nat /\ m < u /\ u + low <= t /\ t <= u + low
        BY <1>0, <2>1, <3>1
      <3> HIDE DEF low, u
      <3>3. Rot(SwapRuns(a, b, u, low), b, m, u) = Rot(a, b, m, t)
        BY <1>0, <3>2, LowSwapped
      <3>4. QED
        BY <1>0, <3>3 DEF low, u
    <2>5. u \in Nat /\ m <= u /\ u <= N /\ u - b <= t - b - 1
      BY <1>1, <1>3, <2>1
    <2> HIDE DEF a, b, m, t, c, u
    <2>6. Fields(c, b, m, u) \in Turning(N, S, R)
      BY <1>1, <2>3, <2>4, <2>5 DEF Turning
    <2>7. QED
      BY <1>3, <2>2, <2>5, <2>6 DEF b, t
  <1>4. CASE ~Turned(r) /\ ~(t - m > m - b)
    <2> DEFINE c == SwapRuns(a, b, m, t - m)
               u == b + (t - m)
    <2>1. b < m /\ m < t
      BY <1>1, <1>4 DEF Turned
    <2>2. Swapped(r) = Fields(c, u, m, t)
      BY <1>1, <1>4 DEF Swapped, Turned
    <2>3. c \in Cells(N, S)
      <3>1. t - m \in Nat /\ b + (t - m) <= m /\ m + (t - m) <= N
        BY <1>1, <1>4, <2>1
      <3> HIDE DEF a, b, m, t
      <3>2. QED
        BY <1>1, <3>1, SwapRunsIs
    <2>4. Rot(c, u, m, t) = R
      <3>1. t - m <= m - b
        BY <1>1, <1>4
      <3> HIDE DEF a, b, m, t
      <3>2. QED
        BY <1>0, <2>1, <3>1, HighSwapped
    <2>5. u \in Nat /\ u <= m /\ t - u <= t - b - 1
      BY <1>1, <1>4, <2>1
    <2> HIDE DEF a, b, m, t, c, u
    <2>6. Fields(c, u, m, t) \in Turning(N, S, R)
      BY <1>1, <2>3, <2>4, <2>5 DEF Turning
    <2>7. QED
      BY <1>4, <2>2, <2>5, <2>6 DEF b, t
  <1>5. QED
    BY <1>2, <1>3, <1>4

\* exchange() rotates: the run at the top comes first, and neither loses its order.
LEMMA RotatedIs ==
  ASSUME NEW N \in Nat, NEW S, NEW a \in Cells(N, S),
         NEW b \in Nat, NEW m \in Nat, NEW t \in Nat, b <= m, m <= t, t <= N
  PROVE  Rotated(a, b, m, t) = Rot(a, b, m, t) /\ Rotated(a, b, m, t) \in Cells(N, S)
  <1> DEFINE n == t - b
             R == Rot(a, b, m, t)
             V == Turning(N, S, R)
             first == [argv |-> a, bottom |-> b, middle |-> m, top |-> t]
             g == [i \in 1 .. n |-> [r \in V |-> Swapped(r)]]
             Loop(f) == f = [i \in 0 .. n |-> IF i = 0 THEN first ELSE Swapped(f[i - 1])]
             u == CHOOSE f : Loop(f)
  <1>1. n \in Nat /\ first \in V
    BY DEF Turning
  <1> HIDE DEF n
  <1>2. g \in [1 .. n -> [V -> V]]
    <2> HIDE DEF V
    <2>1. \A r \in V : Swapped(r) \in V
      BY RoundTurns DEF V
    <2>2. QED
      BY <2>1
  <1>3. PICK f \in [0 .. n -> V] : Rounds(n, first, g, f)
    <2> HIDE DEF V, first, g
    <2>1. QED
      BY <1>1, <1>2, Iteration
  <1> HIDE DEF V, first
  <1>4. f[0] = first /\ \A i \in 1 .. n : f[i - 1] \in V /\ f[i] = Swapped(f[i - 1])
    <2>1. f[0] = first /\ \A i \in 1 .. n : f[i] = g[i][f[i - 1]]
      <3> HIDE DEF g
      <3>1. QED
        BY <1>3 DEF Rounds
    <2>2. ASSUME NEW i \in 1 .. n PROVE f[i - 1] \in V
      <3>1. i - 1 \in 0 .. n
        BY <1>1
      <3>2. QED
        BY <1>3, <3>1
    <2>3. QED
      BY <2>1, <2>2
  <1>5. Loop(f)
    <2>1. f = [i \in 0 .. n |-> f[i]]
      BY <1>3
    <2>2. \A i \in 0 .. n : f[i] = IF i = 0 THEN first ELSE Swapped(f[i - 1])
      BY <1>1, <1>4
    <2>3. QED
      BY <2>1, <2>2
  <1>6. Loop(u)
    <2> HIDE DEF Loop
    <2>1. QED
      BY <1>5, Zenon
  <1>7. Rotated(a, b, m, t) = u[n].argv
    BY Zenon DEF Rotated, n, first
  <1> HIDE DEF u
  <1>8. u[0] = first /\ \A i \in 1 .. n : u[i] = Swapped(u[i - 1])
    BY <1>1, <1>6
  <1> DEFINE P == {i \in Nat : i <= n => /\ u[i] \in V
                                         /\ Turned(u[i]) \/ u[i].top - u[i].bottom <= n - i}
  <1> HIDE DEF Loop
  <1>9. 0 \in P
    BY <1>1, <1>8 DEF first, n
  <1>10. ASSUME NEW i \in Nat, i \in P PROVE i + 1 \in P
    <2>1. SUFFICES ASSUME i + 1 <= n
                   PROVE  /\ u[i + 1] \in V
                          /\ Turned(u[i + 1]) \/ u[i + 1].top - u[i + 1].bottom <= n - (i + 1)
      OBVIOUS
    <2>2. i + 1 \in 1 .. n /\ i <= n /\ u[i + 1] = Swapped(u[i])
      <3>1. i + 1 \in 1 .. n /\ (i + 1) - 1 = i
        BY <1>1, <2>1
      <3>2. QED
        BY <1>1, <1>8, <3>1
    <2>3. u[i] \in V /\ (Turned(u[i]) \/ u[i].top - u[i].bottom <= n - i)
      BY <1>10, <2>2
    <2>4. /\ Swapped(u[i]) \in V
          /\ ~Turned(u[i]) => Swapped(u[i]).top - Swapped(u[i]).bottom <= u[i].top - u[i].bottom - 1
          /\ Turned(u[i]) => Swapped(u[i]) = u[i]
      BY <2>3, RoundTurns DEF V
    <2>5. CASE Turned(u[i])
      BY <2>2, <2>4, <2>5
    <2>6. CASE ~Turned(u[i])
      <3>1. u[i].top \in Int /\ u[i].bottom \in Int /\ Swapped(u[i]).top \in Int /\ Swapped(u[i]).bottom \in Int
        BY <2>3, <2>4 DEF V, Turning
      <3>2. Swapped(u[i]).top - Swapped(u[i]).bottom <= n - (i + 1)
        BY <1>1, <2>3, <2>4, <2>6, <3>1
      <3>3. QED
        BY <2>2, <2>4, <3>2
    <2>7. QED
      BY <2>5, <2>6
  <1>11. n \in P
    <2> HIDE DEF P
    <2>1. QED
      BY <1>1, <1>9, <1>10, Induction
  <1>12. u[n] \in V /\ Turned(u[n])
    <2>1. u[n] \in V /\ (Turned(u[n]) \/ u[n].top - u[n].bottom <= 0)
      BY <1>1, <1>11
    <2>2. /\ u[n].top \in Nat /\ u[n].bottom \in Nat /\ u[n].middle \in Nat
          /\ u[n].bottom <= u[n].middle /\ u[n].middle <= u[n].top
      BY <2>1 DEF V, Turning
    <2>3. QED
      BY <2>1, <2>2 DEF Turned
  <1>13. u[n].argv = R /\ u[n].argv \in Cells(N, S)
    <2>1. u[n] \in Turning(N, S, R) /\ Turned(u[n])
      BY <1>12 DEF V
    <2> HIDE DEF R
    <2>2. u[n].argv = R
      BY <2>1, NothingToTurn
    <2>3. u[n].argv \in Cells(N, S)
      BY <2>1 DEF Turning
    <2>4. QED
      BY <2>2, <2>3
  <1>14. QED
    BY <1>7, <1>13

Positions(c) == 1 .. Argc(c)
Contexts == [optind : Nat, optopt : Seq(STRING), nextchar : Seq(STRING), first : Nat, last : Nat]

\* What a call works on.
Works(c) ==
  [argv : Cells(Argc(c), Positions(c)), optind : Nat, optopt : Seq(STRING),
   nextchar : Seq(STRING), first : Nat, last : Nat]

Steady(c, s) ==
  /\ s \in Works(c)
  /\ 1 <= s.first /\ s.first <= s.last /\ s.last <= s.optind /\ s.optind <= Argc(c)

\* What a call makes of where it starts when it permutes, up to an option.
Passed(c, s, p) ==
  /\ Steady(c, p) /\ p.nextchar = s.nextchar /\ p.optopt = s.optopt
  /\ p.argv = Rot(s.argv, s.first, s.last, s.optind)
  /\ p.first = s.first + (s.optind - s.last) /\ p.last = p.optind /\ s.optind <= p.optind
  /\ \A i \in s.optind .. p.optind - 1 : ~IsOption(WordAt(c, p.argv, i))
  /\ p.optind = Argc(c) \/ IsOption(WordAt(c, p.argv, p.optind))

AllPassed(c, p, t) ==
  /\ Steady(c, t) /\ t.nextchar = p.nextchar /\ t.optopt = p.optopt
  /\ t.argv = Rot(p.argv, p.first, p.last, p.optind + 1)
  /\ t.first = p.first + (p.optind + 1 - p.last) /\ t.last = Argc(c) /\ t.optind = Argc(c)

\* Min of a set of numbers is in it and below the others.
LEMMA SmallestOf ==
  ASSUME NEW S, S \subseteq Nat, NEW n \in S
  PROVE  \E i \in S : \A k \in S : i <= k
  <1> DEFINE T == {m \in Nat : \A k \in 0 .. m : k \notin S}
  <1>1. SUFFICES ASSUME \A i \in S : \E k \in S : k < i
                 PROVE  FALSE
    OBVIOUS
  <1>2. 0 \in T
    BY <1>1
  <1>3. ASSUME NEW m \in Nat, m \in T PROVE m + 1 \in T
    <2>1. m + 1 \notin S
      <3>1. SUFFICES ASSUME m + 1 \in S PROVE FALSE
        OBVIOUS
      <3>2. PICK k \in S : k < m + 1
        BY <1>1, <3>1
      <3>3. k \in 0 .. m
        BY <3>2
      <3>4. QED
        BY <1>3, <3>2, <3>3
    <2>2. \A k \in 0 .. m + 1 : k \in 0 .. m \/ k = m + 1
      OBVIOUS
    <2>3. QED
      BY <1>3, <2>1, <2>2
  <1>4. n \in T
    <2> HIDE DEF T
    <2>1. QED
      BY <1>2, <1>3, Induction
  <1>5. QED
    BY <1>4

\* exchange() on a context: operands and options change places.
LEMMA ExchangeIs ==
  ASSUME NEW c, NEW s \in Works(c), Argc(c) \in Nat,
         s.first <= s.last, s.last <= s.optind, s.optind <= Argc(c)
  PROVE  /\ Exchange(s) \in Works(c)
         /\ Exchange(s).argv = Rot(s.argv, s.first, s.last, s.optind)
         /\ Exchange(s).first = s.first + (s.optind - s.last)
         /\ Exchange(s).last = s.optind /\ Exchange(s).optind = s.optind
         /\ Exchange(s).nextchar = s.nextchar /\ Exchange(s).optopt = s.optopt
  <1>1. /\ s.argv \in Cells(Argc(c), Positions(c)) /\ s.first \in Nat /\ s.last \in Nat
        /\ s.optind \in Nat
    BY DEF Works
  <1>2. /\ Rotated(s.argv, s.first, s.last, s.optind) = Rot(s.argv, s.first, s.last, s.optind)
        /\ Rotated(s.argv, s.first, s.last, s.optind) \in Cells(Argc(c), Positions(c))
    BY <1>1, RotatedIs
  <1>3. s.first + (s.optind - s.last) \in Nat
    BY <1>1
  <1>4. QED
    BY <1>1, <1>2, <1>3 DEF Exchange, Works

\* Where the search for the next option stops, and what it does to argv.
LEMMA PassOverPasses ==
  ASSUME NEW c, NEW s, Steady(c, s), Argc(c) \in Nat
  PROVE  Passed(c, s, PassOver(c, s))
  <1> DEFINE g == IF s.first # s.last /\ s.last # s.optind THEN Exchange(s)
                  ELSE IF s.last # s.optind THEN [s EXCEPT !.first = s.optind] ELSE s
             Stops == {i \in s.optind .. Argc(c) : i = Argc(c) \/ IsOption(WordAt(c, g.argv, i))}
             stop == Min(Stops)
  <1>1. /\ s \in Works(c) /\ s.argv \in Cells(Argc(c), Positions(c))
        /\ s.first \in Nat /\ s.last \in Nat /\ s.optind \in Nat
        /\ 1 <= s.first /\ s.first <= s.last /\ s.last <= s.optind /\ s.optind <= Argc(c)
    BY DEF Steady, Works
  <1>2. /\ g \in Works(c) /\ g.argv = Rot(s.argv, s.first, s.last, s.optind)
        /\ g.first = s.first + (s.optind - s.last) /\ g.optind = s.optind
        /\ g.nextchar = s.nextchar /\ g.optopt = s.optopt
    <2>1. CASE s.first # s.last /\ s.last # s.optind
      BY <1>1, <2>1, ExchangeIs
    <2>2. CASE ~(s.first # s.last /\ s.last # s.optind)
      <3>1. Rot(s.argv, s.first, s.last, s.optind) = s.argv
        BY <1>1, <2>2, RotNone
      <3>2. g = IF s.last # s.optind THEN [s EXCEPT !.first = s.optind] ELSE s
        BY <2>2
      <3>3. CASE s.last # s.optind
        <4>1. g = [s EXCEPT !.first = s.optind] /\ s.first = s.last
          BY <2>2, <3>2, <3>3
        <4> HIDE DEF g
        <4>2. QED
          BY <1>1, <3>1, <4>1 DEF Works
      <3>4. CASE s.last = s.optind
        <4>1. g = s
          BY <3>2, <3>4
        <4> HIDE DEF g
        <4>2. QED
          BY <1>1, <3>1, <3>4, <4>1
      <3>5. QED
        BY <3>3, <3>4
    <2>3. QED
      BY <2>1, <2>2
  <1>3. PassOver(c, s) = [g EXCEPT !.optind = stop, !.last = stop]
    BY DEF PassOver
  <1> HIDE DEF g
  <1>4. stop \in Stops /\ \A i \in Stops : stop <= i
    <2>1. Stops \subseteq Nat /\ Argc(c) \in Stops
      BY <1>1
    <2> HIDE DEF Stops
    <2>2. PICK i \in Stops : \A k \in Stops : i <= k
      BY <2>1, SmallestOf
    <2>3. QED
      BY <2>2 DEF Min
  <1>5. stop \in Nat /\ s.optind <= stop /\ stop <= Argc(c)
    BY <1>1, <1>4
  <1>6. \A i \in s.optind .. stop - 1 : ~IsOption(WordAt(c, g.argv, i))
    <2>1. SUFFICES ASSUME NEW i \in s.optind .. stop - 1, IsOption(WordAt(c, g.argv, i))
                   PROVE  FALSE
      OBVIOUS
    <2>2. i \in Stops
      <3>1. i \in s.optind .. Argc(c)
        BY <1>1, <1>5
      <3>2. QED
        BY <2>1, <3>1
    <2>3. stop <= i
      BY <1>4, <2>2
    <2>4. QED
      BY <1>1, <1>5, <2>3
  <1>7. stop = Argc(c) \/ IsOption(WordAt(c, g.argv, stop))
    BY <1>4
  <1>8. g.first <= stop /\ 1 <= g.first
    BY <1>1, <1>2, <1>5
  <1> DEFINE p == PassOver(c, s)
  <1> HIDE DEF stop, p
  <1>9. /\ p \in Works(c) /\ p.argv = g.argv /\ p.optind = stop /\ p.last = stop
        /\ p.first = g.first /\ p.nextchar = g.nextchar /\ p.optopt = g.optopt
    <2>1. p = [g EXCEPT !.optind = stop, !.last = stop]
      BY <1>3 DEF p
    <2>2. g \in Works(c)
      BY <1>2
    <2>3. QED
      BY <1>5, <2>1, <2>2 DEF Works
  <1>10. Steady(c, p)
    BY <1>5, <1>8, <1>9 DEF Steady
  <1>11. Passed(c, s, p)
    BY <1>1, <1>2, <1>5, <1>6, <1>7, <1>9, <1>10 DEF Passed
  <1>12. QED
    BY <1>11 DEF p

\* What "--" does to argv.
LEMMA TerminatedPasses ==
  ASSUME NEW c, NEW s, Steady(c, s), Argc(c) \in Nat, s.optind < Argc(c)
  PROVE  AllPassed(c, s, Terminated(c, s))
  <1> DEFINE past == [s EXCEPT !.optind = s.optind + 1]
             g == IF s.first # s.last /\ s.last # past.optind THEN Exchange(past)
                  ELSE IF s.first = s.last THEN [past EXCEPT !.first = past.optind]
                  ELSE past
  <1>1. /\ s \in Works(c) /\ s.argv \in Cells(Argc(c), Positions(c))
        /\ s.first \in Nat /\ s.last \in Nat /\ s.optind \in Nat
        /\ 1 <= s.first /\ s.first <= s.last /\ s.last <= s.optind /\ s.optind <= Argc(c)
    BY DEF Steady, Works
  <1>2. /\ past \in Works(c) /\ past.optind = s.optind + 1 /\ past.argv = s.argv
        /\ past.first = s.first /\ past.last = s.last
        /\ past.nextchar = s.nextchar /\ past.optopt = s.optopt
    BY <1>1 DEF Works
  <1>3. Terminated(c, s) = [g EXCEPT !.last = Argc(c), !.optind = Argc(c)]
    BY DEF Terminated
  <1> HIDE DEF past
  <1>4. /\ g \in Works(c) /\ g.argv = Rot(s.argv, s.first, s.last, s.optind + 1)
        /\ g.first = s.first + (s.optind + 1 - s.last)
        /\ g.nextchar = s.nextchar /\ g.optopt = s.optopt
    <2>1. CASE s.first # s.last
      <3>1. g = Exchange(past)
        BY <1>1, <1>2, <2>1
      <3>2. past.first <= past.last /\ past.last <= past.optind /\ past.optind <= Argc(c)
        BY <1>1, <1>2
      <3> HIDE DEF g
      <3>3. past \in Works(c)
        BY <1>2
      <3>4. /\ Exchange(past) \in Works(c)
            /\ Exchange(past).argv = Rot(past.argv, past.first, past.last, past.optind)
            /\ Exchange(past).first = past.first + (past.optind - past.last)
            /\ Exchange(past).nextchar = past.nextchar /\ Exchange(past).optopt = past.optopt
        BY <3>2, <3>3, ExchangeIs
      <3>5. past.first + (past.optind - past.last) = s.first + (s.optind + 1 - s.last)
        BY <1>1, <1>2
      <3>6. g \in Works(c)
        BY <3>1, <3>4
      <3>7. QED
        BY <1>2, <3>1, <3>4, <3>5, <3>6
    <2>2. CASE s.first = s.last
      <3>1. Rot(s.argv, s.first, s.last, s.optind + 1) = s.argv
        BY <1>1, <2>2, RotNone
      <3>2. g = [past EXCEPT !.first = past.optind]
        BY <2>2
      <3> HIDE DEF g
      <3>3. past.optind \in Nat /\ g \in Works(c) /\ g.argv = past.argv /\ g.first = past.optind
            /\ g.nextchar = past.nextchar /\ g.optopt = past.optopt
        BY <1>1, <1>2, <3>2 DEF Works
      <3>4. past.optind = s.first + (s.optind + 1 - s.last)
        BY <1>1, <1>2, <2>2
      <3>5. QED
        BY <1>2, <3>1, <3>3, <3>4
    <2>3. QED
      BY <2>1, <2>2
  <1> HIDE DEF g
  <1>5. 1 <= g.first /\ g.first <= Argc(c)
    BY <1>1, <1>4
  <1> DEFINE t == Terminated(c, s)
  <1> HIDE DEF t
  <1>6. /\ t \in Works(c) /\ t.argv = g.argv /\ t.optind = Argc(c) /\ t.last = Argc(c)
        /\ t.first = g.first /\ t.nextchar = g.nextchar /\ t.optopt = g.optopt
    <2>1. t = [g EXCEPT !.last = Argc(c), !.optind = Argc(c)]
      BY <1>3 DEF t
    <2>2. g \in Works(c)
      BY <1>4
    <2>3. QED
      BY <2>1, <2>2 DEF Works
  <1>7. Steady(c, t)
    BY <1>5, <1>6 DEF Steady
  <1>8. AllPassed(c, s, t)
    BY <1>4, <1>6, <1>7 DEF AllPassed
  <1>9. QED
    BY <1>8 DEF t

Stages == {"None", "Scanning", "Ended"}

Typed ==
  /\ job \in Jobs /\ ordering \in Orderings
  /\ stage \in [Ctx -> Stages] /\ si \in [Ctx -> Contexts] /\ rescanned \in [Ctx -> BOOLEAN]
  /\ DOMAIN argv = Ctx /\ DOMAIN said = Ctx

\* Where a context stands in its command line, for a caller that does not call
\* again after EOF.
Ranged(c) ==
  /\ argv[c] \in Cells(Argc(c), Positions(c))
  /\ stage[c] = "None" => si[c] = Zeroed
  /\ stage[c] = "Ended" => ~Fresh(c)
  /\ ~Fresh(c) => /\ si[c].optind <= Argc(c) /\ 1 <= si[c].first
                  /\ si[c].first <= si[c].last /\ si[c].last <= Argc(c)
  /\ stage[c] = "Scanning" /\ ~Fresh(c) => si[c].last <= si[c].optind
  /\ si[c].nextchar # <<>> => stage[c] = "Scanning" /\ ~Fresh(c) /\ si[c].optind < Argc(c)

RangeInv == Typed /\ \A c \in Ctx : Ranged(c)

\* No character is a NUL, and an ordering is asked for by a prefix.
Plain(w) == "" \notin Range(w)
PrefixSigns == {"", "-", "+"}

\* What JobsAssumption says of the job a context has.
LEMMA JobIs ==
  ASSUME NEW c \in Ctx, Typed
  PROVE  /\ Argc(c) \in Nat /\ 1 <= Argc(c)
         /\ job[c].words \in Seq(Seq(STRING)) /\ \A i \in 1 .. Argc(c) : Plain(job[c].words[i])
         /\ job[c].prefix \in PrefixSigns
         /\ \A ch \in DOMAIN job[c].short : job[c].short[ch] \in 0 .. 2
  <1> DEFINE j == job[c]
  <1>1. /\ j.words \in Seq(Seq(STRING)) /\ j.words # <<>>
        /\ \A i \in DOMAIN j.words : Plain(j.words[i])
        /\ j.prefix \in PrefixSigns
        /\ \A ch \in DOMAIN j.short : j.short[ch] \in 0 .. 2
    BY JobsAssumption, Zenon DEF Typed, Plain, PrefixSigns
  <1> HIDE DEF j
  <1>2. Len(j.words) \in Nat /\ 1 <= Len(j.words) /\ DOMAIN j.words = 1 .. Len(j.words)
    <2> DEFINE w == j.words
    <2>1. w \in Seq(Seq(STRING)) /\ w # <<>>
      BY <1>1
    <2> HIDE DEF w
    <2>2. Len(w) \in Nat /\ 1 <= Len(w) /\ DOMAIN w = 1 .. Len(w)
      BY <2>1, EmptySeq
    <2>3. QED
      BY <2>2 DEF w
  <1>3. Argc(c) = Len(j.words)
    BY DEF Argc, j
  <1>4. QED
    BY <1>1, <1>2, <1>3, Zenon DEF j

\* Every pointer of argv is to a word of the command line.
LEMMA WordIs ==
  ASSUME NEW c \in Ctx, Typed, NEW a \in Cells(Argc(c), Positions(c)), NEW i \in 0 .. Argc(c) - 1
  PROVE  WordAt(c, a, i) \in Seq(STRING) /\ Plain(WordAt(c, a, i))
  <1>1. a[i] \in 1 .. Argc(c)
    BY JobIs DEF Cells, Positions
  <1>2. job[c].words \in Seq(Seq(STRING)) /\ Argc(c) = Len(job[c].words)
    BY JobIs DEF Argc
  <1>3. job[c].words[a[i]] \in Seq(STRING)
    BY <1>1, <1>2
  <1>4. Plain(job[c].words[a[i]])
    BY <1>1, JobIs
  <1>5. QED
    BY <1>3, <1>4 DEF WordAt

\* Where the call stands, permuted or not, and the terminator passed or not.
Stands(c, s, r) ==
  IF s.nextchar # <<>> THEN r = s
  ELSE \E p : /\ IF Mode(c) = "PERMUTE" THEN Passed(c, s, p) ELSE p = s
              /\ IF p.optind # Argc(c) /\ WordAt(c, p.argv, p.optind) = Terminator
                 THEN AllPassed(c, p, r) ELSE r = p

\* The first call of a scan begins at word 1, a later one where the last has left off.
LEMMA EnteredSteady ==
  ASSUME NEW c \in Ctx, Typed, Ranged(c), stage[c] = "Scanning"
  PROVE  /\ Steady(c, Entered(c)) /\ si[c].optind <= Entered(c).optind
         /\ Entered(c).nextchar # <<>> => Entered(c).optind < Argc(c)
         /\ Entered(c).argv = argv[c] /\ Entered(c).optopt = si[c].optopt
         /\ Fresh(c) => /\ Entered(c).nextchar = <<>> /\ Entered(c).optind = 1
                        /\ Entered(c).first = 1 /\ Entered(c).last = 1
         /\ ~Fresh(c) => /\ Entered(c).nextchar = si[c].nextchar /\ Entered(c).optind = si[c].optind
                         /\ Entered(c).first = si[c].first /\ Entered(c).last = si[c].last
  <1> DEFINE s == [argv |-> argv[c], optind |-> si[c].optind, optopt |-> si[c].optopt,
                   nextchar |-> si[c].nextchar, first |-> si[c].first, last |-> si[c].last]
  <1>1. /\ argv[c] \in Cells(Argc(c), Positions(c)) /\ si[c].optind \in Nat
        /\ si[c].optopt \in Seq(STRING) /\ si[c].nextchar \in Seq(STRING)
        /\ si[c].first \in Nat /\ si[c].last \in Nat
    BY DEF Typed, Ranged, Contexts
  <1>2. Argc(c) \in Nat /\ 1 <= Argc(c)
    BY JobIs
  <1>3. s \in Works(c)
    BY <1>1 DEF Works
  <1>4. CASE Fresh(c)
    <2>1. Entered(c) = [s EXCEPT !.optind = 1, !.first = 1, !.last = 1, !.nextchar = <<>>]
      BY <1>4 DEF Entered, Initialized
    <2>2. <<>> \in Seq(STRING) /\ si[c].optind = 0
      BY <1>4 DEF Fresh
    <2> DEFINE e == Entered(c)
    <2> HIDE DEF e
    <2>3. /\ e \in Works(c) /\ e.argv = argv[c] /\ e.optopt = si[c].optopt /\ e.nextchar = <<>>
          /\ e.optind = 1 /\ e.first = 1 /\ e.last = 1
      <3>1. e = [s EXCEPT !.optind = 1, !.first = 1, !.last = 1, !.nextchar = <<>>]
        BY <2>1 DEF e
      <3>2. s.argv = argv[c] /\ s.optopt = si[c].optopt
        OBVIOUS
      <3> HIDE DEF s
      <3>3. QED
        BY <1>3, <2>2, <3>1, <3>2 DEF Works
    <2>4. Steady(c, e)
      BY <1>2, <2>3 DEF Steady
    <2>5. QED
      BY <1>4, <2>2, <2>3, <2>4 DEF e
  <1>5. CASE ~Fresh(c)
    <2>1. Entered(c) = s
      BY <1>5 DEF Entered
    <2>2. /\ si[c].optind <= Argc(c) /\ 1 <= si[c].first /\ si[c].first <= si[c].last
          /\ si[c].last <= si[c].optind
          /\ si[c].nextchar # <<>> => si[c].optind < Argc(c)
      BY <1>5 DEF Ranged
    <2>3. Steady(c, s)
      BY <1>3, <2>2 DEF Steady
    <2>4. QED
      BY <1>1, <1>5, <2>1, <2>2, <2>3
  <1>6. QED
    BY <1>4, <1>5

\* A call first passes over operands, then over "--".
LEMMA ReachedStands ==
  ASSUME NEW c \in Ctx, Typed, Ranged(c), stage[c] = "Scanning"
  PROVE  Stands(c, Entered(c), Reached(c))
  <1> DEFINE s == Entered(c)
             p == IF Mode(c) = "PERMUTE" THEN PassOver(c, s) ELSE s
  <1>1. Steady(c, s) /\ Argc(c) \in Nat
    BY EnteredSteady, JobIs
  <1>2. Reached(c) = IF s.nextchar # <<>> THEN s
                     ELSE IF p.optind # Argc(c) /\ WordAt(c, p.argv, p.optind) = Terminator
                          THEN Terminated(c, p) ELSE p
    BY DEF Reached
  <1> HIDE DEF s
  <1>3. Steady(c, p) /\ IF Mode(c) = "PERMUTE" THEN Passed(c, s, p) ELSE p = s
    BY <1>1, PassOverPasses DEF Passed
  <1> HIDE DEF p
  <1>4. IF s.nextchar # <<>> THEN Reached(c) = s
        ELSE IF p.optind # Argc(c) /\ WordAt(c, p.argv, p.optind) = Terminator
             THEN AllPassed(c, p, Reached(c)) ELSE Reached(c) = p
    <2>1. p.optind # Argc(c) => AllPassed(c, p, Terminated(c, p))
      <3>1. p.optind \in Nat /\ p.optind <= Argc(c)
        BY <1>3 DEF Steady, Works
      <3>2. QED
        BY <1>1, <1>3, <3>1, TerminatedPasses
    <2>2. QED
      BY <1>2, <2>1
  <1>5. Stands(c, s, Reached(c))
    BY <1>3, <1>4 DEF Stands
  <1>6. QED
    BY <1>5 DEF s

\* What every call can go by.
LEMMA ReachedSteady ==
  ASSUME NEW c \in Ctx, Typed, Ranged(c), stage[c] = "Scanning", NEW r, r = Reached(c)
  PROVE  /\ Steady(c, r) /\ r.nextchar = Entered(c).nextchar /\ r.optopt = si[c].optopt
         /\ Entered(c).optind <= r.optind
         /\ r.nextchar # <<>> => r = Entered(c) /\ r.optind < Argc(c)
  <1> DEFINE s == Entered(c)
  <1>1. Steady(c, s) /\ (s.nextchar # <<>> => s.optind < Argc(c)) /\ s.optopt = si[c].optopt
    BY EnteredSteady
  <1>2. Stands(c, s, r)
    BY ReachedStands
  <1>3. s.optind \in Nat /\ s.optind <= Argc(c) /\ Argc(c) \in Nat
    BY <1>1, JobIs DEF Steady, Works
  <1> HIDE DEF s
  <1>4. CASE s.nextchar # <<>>
    BY <1>1, <1>2, <1>3, <1>4 DEF Stands, s
  <1>5. CASE s.nextchar = <<>>
    <2>1. PICK p : /\ IF Mode(c) = "PERMUTE" THEN Passed(c, s, p) ELSE p = s
                   /\ IF p.optind # Argc(c) /\ WordAt(c, p.argv, p.optind) = Terminator
                      THEN AllPassed(c, p, r) ELSE r = p
      BY <1>2, <1>5 DEF Stands
    <2>2. Steady(c, p) /\ p.nextchar = s.nextchar /\ p.optopt = s.optopt /\ s.optind <= p.optind
      BY <1>1, <1>3, <2>1 DEF Passed
    <2>3. Steady(c, r) /\ r.nextchar = p.nextchar /\ r.optopt = p.optopt /\ s.optind <= r.optind
      BY <1>3, <2>1, <2>2 DEF AllPassed
    <2>4. QED
      BY <1>1, <1>5, <2>2, <2>3 DEF s
  <1>6. QED
    BY <1>4, <1>5

Suffix(w, k) == SubSeq(w, k, Len(w))

\* The rest of a word: its head, its tail, its length.
LEMMA SuffixIs ==
  ASSUME NEW w \in Seq(STRING), NEW k \in 1 .. Len(w)
  PROVE  /\ Suffix(w, k) \in Seq(STRING) /\ Suffix(w, k) # <<>>
         /\ Head(Suffix(w, k)) = w[k] /\ Tail(Suffix(w, k)) = Suffix(w, k + 1)
         /\ Suffix(w, k + 1) \in Seq(STRING) /\ Len(Suffix(w, k + 1)) < Len(Suffix(w, k))
         /\ Suffix(w, k + 1) = <<>> <=> k = Len(w)
  <1> DEFINE t == Suffix(w, k)
             u == Suffix(w, k + 1)
             n == Len(w)
  <1>1. n \in Nat /\ k \in Nat /\ 1 <= k /\ k <= n /\ \A i \in 1 .. n : w[i] \in STRING
    BY ElementOfSeq, LenProperties
  <1>2. t \in Seq(STRING) /\ Len(t) = n - k + 1 /\ \A i \in 1 .. n - k + 1 : t[i] = w[k + i - 1]
    <2>1. k \in 1 .. n + 1 /\ n \in k - 1 .. n
      BY <1>1
    <2>2. QED
      BY <1>1, <2>1, SubSeqProperties DEF Suffix
  <1>3. u \in Seq(STRING) /\ Len(u) = n - k /\ \A i \in 1 .. n - k : u[i] = w[k + i]
    <2>1. k + 1 \in 1 .. n + 1 /\ n \in (k + 1) - 1 .. n
      BY <1>1
    <2>2. /\ u \in Seq(STRING) /\ Len(u) = n - (k + 1) + 1
          /\ \A i \in 1 .. n - (k + 1) + 1 : u[i] = w[(k + 1) + i - 1]
      BY <1>1, <2>1, SubSeqProperties DEF Suffix
    <2>3. n - (k + 1) + 1 = n - k /\ \A i \in 1 .. n - k : (k + 1) + i - 1 = k + i
      BY <1>1
    <2>4. QED
      BY <2>2, <2>3
  <1> HIDE DEF t, u, n
  <1>4. t # <<>> /\ (u = <<>> <=> k = n)
    BY <1>1, <1>2, <1>3, EmptySeq
  <1>5. Head(t) = w[k]
    <2>1. Head(t) = t[1] /\ 1 \in 1 .. n - k + 1 /\ k + 1 - 1 = k
      BY <1>1, <1>2, <1>4
    <2>2. QED
      BY <1>2, <2>1
  <1>6. Tail(t) = u
    <2>1. Tail(t) \in Seq(STRING) /\ Len(Tail(t)) = n - k /\ \A i \in 1 .. n - k : Tail(t)[i] = t[i + 1]
      <3>1. /\ Tail(t) \in Seq(STRING) /\ Len(Tail(t)) = Len(t) - 1
            /\ \A i \in 1 .. Len(Tail(t)) : Tail(t)[i] = t[i + 1]
        BY <1>2, <1>4, HeadTailProperties
      <3>2. QED
        BY <1>1, <1>2, <3>1
    <2>2. ASSUME NEW i \in 1 .. n - k PROVE Tail(t)[i] = u[i]
      <3>1. i + 1 \in 1 .. n - k + 1 /\ k + (i + 1) - 1 = k + i
        BY <1>1
      <3>2. QED
        BY <1>2, <1>3, <2>1, <3>1
    <2>3. QED
      BY <1>3, <2>1, <2>2, SeqEqual
  <1>7. QED
    BY <1>1, <1>2, <1>3, <1>4, <1>5, <1>6 DEF t, u, n

\* Where the text of a word starts, after its dashes.
Start(j, w) == IF j.entry # "sgetopt" /\ w[2] = "-" THEN 3 ELSE 2

\* What a call is about that does not say EOF or give an operand.
LEMMA AtWord ==
  ASSUME NEW c \in Ctx, Typed, Ranged(c), stage[c] = "Scanning", NEW r, r = Reached(c),
         AtOption(c, r), NEW w, w = WordAt(c, r.argv, r.optind)
  PROVE  /\ r.optind < Argc(c) /\ w \in Seq(STRING) /\ Plain(w)
         /\ r.nextchar # <<>> => Text(c, r) = r.nextchar
         /\ r.nextchar = <<>> => /\ IsOption(w) /\ w # Terminator
                                 /\ Start(job[c], w) \in 1 .. Len(w)
                                 /\ Text(c, r) = Suffix(w, Start(job[c], w))
  <1>1. /\ Steady(c, r) /\ Argc(c) \in Nat /\ (r.nextchar # <<>> => r.optind < Argc(c))
        /\ r.nextchar = Entered(c).nextchar
    BY ReachedSteady, JobIs
  <1>2. r.optind < Argc(c)
    BY <1>1 DEF AtOption
  <1>3. r.argv \in Cells(Argc(c), Positions(c)) /\ r.optind \in 0 .. Argc(c) - 1
    BY <1>1, <1>2 DEF Steady, Works
  <1>4. w \in Seq(STRING) /\ Plain(w)
    BY <1>3, WordIs
  <1>5. ASSUME r.nextchar = <<>>
        PROVE  /\ IsOption(w) /\ w # Terminator /\ Start(job[c], w) \in 1 .. Len(w)
               /\ Text(c, r) = Suffix(w, Start(job[c], w))
    <2>1. IsOption(w)
      BY <1>5 DEF AtOption
    <2>2. w # Terminator
      <3>1. Stands(c, Entered(c), r)
        BY ReachedStands
      <3>2. PICK p : IF p.optind # Argc(c) /\ WordAt(c, p.argv, p.optind) = Terminator
                     THEN AllPassed(c, p, r) ELSE r = p
        BY <1>1, <1>5, <3>1 DEF Stands
      <3>3. r.optind # Argc(c)
        BY <1>1, <1>2 DEF Steady, Works
      <3>4. QED
        BY <3>2, <3>3 DEF AllPassed
    <2>3. Len(w) \in Nat /\ Len(w) >= 2 /\ w[1] = "-"
      BY <1>4, <2>1, LenProperties DEF IsOption
    <2>4. w[2] = "-" => Len(w) # 2
      <3>1. SUFFICES ASSUME w[2] = "-", Len(w) = 2 PROVE w = Terminator
        BY <2>2
      <3>2. Terminator \in Seq(STRING) /\ Len(Terminator) = 2 /\ Terminator[1] = "-" /\ Terminator[2] = "-"
        <4>1. \A d \in STRING : <<d, d>> \in Seq(STRING) /\ Len(<<d, d>>) = 2 /\ <<d, d>>[1] = d /\ <<d, d>>[2] = d
          OBVIOUS
        <4>2. "-" \in STRING
          <5>1. w[1] \in STRING
            BY <1>4, <2>3, ElementOfSeq
          <5>2. QED
            BY <2>3, <5>1, Zenon
        <4>3. QED
          BY <4>1, <4>2, Zenon DEF Terminator
      <3>3. \A i \in 1 .. 2 : w[i] = Terminator[i]
        BY <2>3, <3>1, <3>2
      <3>4. QED
        BY <1>4, <3>1, <3>2, <3>3, SeqEqual
    <2>5. Start(job[c], w) \in 1 .. Len(w)
      <3>1. Start(job[c], w) = 2 \/ (Start(job[c], w) = 3 /\ w[2] = "-")
        BY Zenon DEF Start
      <3>2. Start(job[c], w) = 2 \/ (Start(job[c], w) = 3 /\ Len(w) # 2)
        BY <2>4, <3>1, Zenon
      <3>3. Len(w) \in Nat /\ Len(w) >= 2
        BY <2>3
      <3> DEFINE k == Start(job[c], w)
                 n == Len(w)
      <3>4. (k = 2 \/ (k = 3 /\ n # 2)) /\ n \in Nat /\ n >= 2
        BY <3>2, <3>3
      <3> HIDE DEF k, n
      <3>5. k \in 1 .. n
        <4>1. CASE k = 2
          BY <3>4, <4>1
        <4>2. CASE k = 3 /\ n # 2
          BY <3>4, <4>2
        <4>3. QED
          BY <3>4, <4>1, <4>2
      <3>6. QED
        BY <3>5 DEF k, n
    <2>6. Text(c, r) = Suffix(w, Start(job[c], w))
      <3> DEFINE long == job[c].entry # "sgetopt" /\ w[2] = "-"
      <3>1. Text(c, r) = SubSeq(w, (IF long THEN 2 ELSE 1) + 1, Len(w))
        BY <1>5, Zenon DEF Text
      <3>2. Start(job[c], w) = IF long THEN 3 ELSE 2
        BY Zenon DEF Start
      <3> HIDE DEF long
      <3>3. (IF long THEN 2 ELSE 1) + 1 = IF long THEN 3 ELSE 2
        OBVIOUS
      <3>4. QED
        BY <3>1, <3>2, <3>3 DEF Suffix
    <2>7. QED
      BY <2>1, <2>2, <2>5, <2>6
  <1>6. r.nextchar # <<>> => Text(c, r) = r.nextchar
    BY Zenon DEF Text
  <1>7. QED
    BY <1>2, <1>4, <1>5, <1>6

\* What a call changes that is about the word w, of which it reads the text t.
Steps(c, r, n, rest, opt) ==
  /\ argv' = [argv EXCEPT ![c] = r.argv]
  /\ si' = [si EXCEPT ![c] =
       [optind |-> r.optind + n, nextchar |-> rest, first |-> r.first, last |-> r.last,
        optopt |-> opt]]
  /\ ordering' = Mode(c) /\ job' = job /\ rescanned' = rescanned
  /\ \E result : said' = [said EXCEPT ![c] = result]

\* The text is taken for a long option, wants the next word for its argument,
\* leaves more of the word to be read.
AsLong(c, w, t) == LongForm(c, w) /\ ~(Meant(job[c], t) = {} /\ ~MustBeLong(c, w, t))
Wanting(c, w, t) ==
  IF AsLong(c, w, t) THEN \E p : Meant(job[c], t) = {p} /\ ~HasValue(t) /\ p.has_arg
  ELSE Takes(c, Head(t)) = 1 /\ Tail(t) = <<>>
Going(c, w, t) == ~AsLong(c, w, t) /\ Takes(c, Head(t)) <= 0 /\ Tail(t) # <<>>

OptionStep(c, r, w, t) ==
  \E n, opt, rest :
    /\ Steps(c, r, n, rest, opt) /\ opt \in Seq(STRING)
    /\ \/ Going(c, w, t) /\ n = 0 /\ rest = Tail(t)
       \/ /\ ~Going(c, w, t) /\ rest = <<>>
          /\ \/ n = 1 /\ (Wanting(c, w, t) => r.optind + 1 >= Argc(c))
             \/ n = 2 /\ Wanting(c, w, t) /\ r.optind + 1 < Argc(c)

\* A call that reads an option has found one, and text of it to read.
Found(c, r, w, t) ==
  /\ Typed /\ r = Reached(c) /\ Steady(c, r) /\ w = WordAt(c, r.argv, r.optind)
  /\ r.optind < Argc(c) /\ t = Text(c, r) /\ t # <<>> /\ t \in Seq(STRING)

\* A call that returns changes its context and the static variable only.
LEMMA ReturnsSteps ==
  ASSUME NEW c, NEW r, NEW n, NEW rest, NEW result, Returns(c, r, n, rest, result), r.optopt \in Seq(STRING),
         result.opt = NoArg \/ result.code = "option" \/ result.opt \in Seq(STRING)
  PROVE  \E opt : opt \in Seq(STRING) /\ Steps(c, r, n, rest, opt)
  <1> DEFINE opt == IF result.code \in {"?", ":"} /\ result.opt # NoArg THEN result.opt ELSE r.optopt
  <1>1. opt \in Seq(STRING)
    <2>1. CASE result.code \in {"?", ":"} /\ result.opt # NoArg
      <3>1. result.code # "option"
        BY <2>1
      <3>2. QED
        BY <2>1, <3>1
    <2>2. CASE ~(result.code \in {"?", ":"} /\ result.opt # NoArg)
      BY <2>2
    <2>3. QED
      BY <2>1, <2>2
  <1>2. Steps(c, r, n, rest, opt)
    BY Zenon DEF Returns, Steps
  <1> HIDE DEF opt
  <1>3. QED
    BY <1>1, <1>2

\* It leaves optopt as it was when no character was wrong,
LEMMA ReturnsNothing ==
  ASSUME NEW c, NEW r, NEW n, NEW rest, NEW code, NEW arg, r.optopt \in Seq(STRING),
         Returns(c, r, n, rest, Result(code, NoArg, arg))
  PROVE  \E opt : opt \in Seq(STRING) /\ Steps(c, r, n, rest, opt)
  <1>1. Result(code, NoArg, arg).opt = NoArg
    BY DEF Result
  <1>2. QED
    BY <1>1, ReturnsSteps

\* or when it has read a long option,
LEMMA ReturnsName ==
  ASSUME NEW c, NEW r, NEW n, NEW rest, NEW name, NEW arg, r.optopt \in Seq(STRING),
         Returns(c, r, n, rest, Result("option", name, arg))
  PROVE  \E opt : opt \in Seq(STRING) /\ Steps(c, r, n, rest, opt)
  <1>1. Result("option", name, arg).code = "option"
    BY DEF Result
  <1>2. QED
    BY <1>1, ReturnsSteps

\* and else sets it to the character.
LEMMA ReturnsLetter ==
  ASSUME NEW c, NEW r, NEW n, NEW rest, NEW code, NEW ch \in STRING, NEW arg, r.optopt \in Seq(STRING),
         Returns(c, r, n, rest, Result(code, <<ch>>, arg))
  PROVE  \E opt : opt \in Seq(STRING) /\ Steps(c, r, n, rest, opt)
  <1>1. Result(code, <<ch>>, arg).opt \in Seq(STRING)
    BY DEF Result
  <1>2. QED
    BY <1>1, ReturnsSteps

\* What sgetopt_long() does at a long option is one of the steps of OptionStep.
LEMMA LongSteps ==
  ASSUME NEW c, NEW r, NEW w, NEW t, Found(c, r, w, t), LongOption(c)
  PROVE  OptionStep(c, r, w, t) /\ stage' = stage
  <1> DEFINE meant == Meant(job[c], t)
             Taken(n, p, arg) == Returns(c, r, n, <<>>, Result("option", p.name, arg))
             Some(n) == \E opt : opt \in Seq(STRING) /\ Steps(c, r, n, <<>>, opt)
             Next1 == r.optind + 1 < Argc(c)
             Last1 == r.optind + 1 >= Argc(c)
  <1>1. /\ LongForm(c, w) /\ stage' = stage
        /\ \/ Cardinality(meant) > 1 /\ Refuses(c, r, "?")
           \/ meant = {} /\ MustBeLong(c, w, t) /\ Refuses(c, r, "?")
           \/ \E p \in meant :
                /\ meant = {p}
                /\ \/ HasValue(t) /\ p.has_arg /\ Taken(1, p, ValueIn(t))
                   \/ HasValue(t) /\ ~p.has_arg /\ Refuses(c, r, "?")
                   \/ ~HasValue(t) /\ ~p.has_arg /\ Taken(1, p, NoArg)
                   \/ /\ ~HasValue(t) /\ p.has_arg /\ Next1
                      /\ Taken(2, p, WordAt(c, r.argv, r.optind + 1))
                   \/ ~HasValue(t) /\ p.has_arg /\ Last1 /\ Refuses(c, r, Missing(c))
    BY Zenon DEF LongOption, Found
  <1>2. r.optopt \in Seq(STRING)
    BY DEF Found, Steady, Works
  <1>3. ASSUME NEW code, Refuses(c, r, code) PROVE Some(1)
    BY <1>2, <1>3, ReturnsNothing DEF Refuses
  <1>4. ASSUME NEW n, NEW p, NEW arg, Taken(n, p, arg) PROVE Some(n)
    BY <1>2, <1>4, ReturnsName
  <1> HIDE DEF meant, Taken, Next1, Last1
  <1>5. AsLong(c, w, t) /\ ~Going(c, w, t)
    <2>1. ~(meant = {} /\ ~MustBeLong(c, w, t))
      <3>1. Cardinality({}) = 0 /\ ~(0 > 1)
        BY FS_EmptySet
      <3>2. QED
        BY <1>1, <3>1, Zenon
    <2>2. QED
      BY <1>1, <2>1, Zenon DEF AsLong, Going, meant
  <1>6. Wanting(c, w, t) <=> \E p : meant = {p} /\ ~HasValue(t) /\ p.has_arg
    BY <1>5, Zenon DEF Wanting, meant
  <1>7. (Some(1) /\ (Wanting(c, w, t) => Last1)) \/ (Some(2) /\ Wanting(c, w, t) /\ Next1)
    <2>1. CASE Cardinality(meant) > 1 /\ Refuses(c, r, "?")
      <3>1. ASSUME NEW p, meant = {p} PROVE FALSE
        <4>1. Cardinality({p}) = 1
          BY FS_Singleton, Zenon
        <4>2. ~(1 > 1)
          OBVIOUS
        <4>3. QED
          BY <2>1, <3>1, <4>1, <4>2, Zenon
      <3>2. QED
        BY <1>3, <1>6, <2>1, <3>1, Zenon
    <2>2. CASE meant = {} /\ Refuses(c, r, "?")
      BY <1>3, <1>6, <2>2, Zenon
    <2>3. ASSUME NEW p \in meant, meant = {p},
                 \/ HasValue(t) /\ p.has_arg /\ Taken(1, p, ValueIn(t))
                 \/ HasValue(t) /\ ~p.has_arg /\ Refuses(c, r, "?")
                 \/ ~HasValue(t) /\ ~p.has_arg /\ Taken(1, p, NoArg)
                 \/ /\ ~HasValue(t) /\ p.has_arg /\ Next1
                    /\ Taken(2, p, WordAt(c, r.argv, r.optind + 1))
                 \/ ~HasValue(t) /\ p.has_arg /\ Last1 /\ Refuses(c, r, Missing(c))
          PROVE  (Some(1) /\ (Wanting(c, w, t) => Last1)) \/ (Some(2) /\ Wanting(c, w, t) /\ Next1)
      <3>1. \A q : meant = {q} => q = p
        BY <2>3
      <3> HIDE DEF Some
      <3>2. QED
        BY <1>3, <1>4, <1>6, <2>3, <3>1, Zenon
    <2>4. QED
      BY <1>1, <2>1, <2>2, <2>3, Zenon
  <1>8. QED
    BY <1>1, <1>5, <1>7, Zenon DEF OptionStep, Next1, Last1

\* A character has up to two colons, or is no option.
LEMMA TakesIs ==
  ASSUME NEW c \in Ctx, Typed, NEW ch
  PROVE  Takes(c, ch) \in -1 .. 2
  <1>1. ch \in DOMAIN job[c].short => job[c].short[ch] \in 0 .. 2
    BY JobIs
  <1>2. Takes(c, ch) = 1 \/ Takes(c, ch) = 0 \/ Takes(c, ch) = -1
        \/ (ch \in DOMAIN job[c].short /\ Takes(c, ch) = job[c].short[ch])
    BY Zenon DEF Takes
  <1>3. QED
    BY <1>1, <1>2

\* So is what it does at an option character.
LEMMA ShortSteps ==
  ASSUME NEW c \in Ctx, NEW r, NEW w, NEW t, Found(c, r, w, t), ShortOption(c)
  PROVE  OptionStep(c, r, w, t) /\ stage' = stage
  <1> DEFINE opt == Head(t)
             more == Tail(t)
             takes == Takes(c, opt)
             used == WordsUsed(more, takes)
             Some(n, rest) == \E o : o \in Seq(STRING) /\ Steps(c, r, n, rest, o)
  <1>1. /\ LongForm(c, w) => Meant(job[c], t) = {} /\ ~MustBeLong(c, w, t)
        /\ stage' = stage
        /\ \/ takes = -1 /\ Returns(c, r, used, more, Result("?", <<opt>>, NoArg))
           \/ takes = 0 /\ Returns(c, r, used, more, Result("option", <<opt>>, NoArg))
           \/ takes > 0 /\ more # <<>> /\ Returns(c, r, used, <<>>, Result("option", <<opt>>, more))
           \/ takes = 2 /\ more = <<>> /\ Returns(c, r, used, <<>>, Result("option", <<opt>>, NoArg))
           \/ /\ takes = 1 /\ more = <<>> /\ r.optind + 1 = Argc(c)
              /\ Returns(c, r, 1, <<>>, Result(Missing(c), <<opt>>, NoArg))
           \/ /\ takes = 1 /\ more = <<>> /\ r.optind + 1 < Argc(c)
              /\ Returns(c, r, 2, <<>>, Result("option", <<opt>>, WordAt(c, r.argv, r.optind + 1)))
    BY Zenon DEF ShortOption, Found
  <1>2. /\ r.optopt \in Seq(STRING) /\ r.optind \in Nat /\ Argc(c) \in Nat
        /\ opt \in STRING /\ takes \in -1 .. 2
    <2>1. opt \in STRING
      BY HeadTailProperties DEF Found
    <2>2. takes \in -1 .. 2 /\ Argc(c) \in Nat
      BY TakesIs, JobIs DEF Found
    <2>3. QED
      BY <2>1, <2>2 DEF Found, Steady, Works
  <1>3. ASSUME NEW n, NEW rest, NEW code, NEW arg, Returns(c, r, n, rest, Result(code, <<opt>>, arg))
        PROVE  Some(n, rest)
    <2> HIDE DEF opt
    <2>1. QED
      BY <1>2, <1>3, ReturnsLetter
  <1> HIDE DEF opt, more, takes, Some
  <1>4. ~AsLong(c, w, t)
    BY <1>1, Zenon DEF AsLong
  <1>5. /\ Wanting(c, w, t) <=> takes = 1 /\ more = <<>>
        /\ Going(c, w, t) <=> takes <= 0 /\ more # <<>>
    BY <1>4, Zenon DEF Wanting, Going, takes, more, opt
  <1>6. used = IF more = <<>> \/ takes > 0 THEN 1 ELSE 0
    BY Zenon DEF WordsUsed
  <1> HIDE DEF used
  <1>7. \/ Going(c, w, t) /\ Some(0, more)
        \/ ~Going(c, w, t) /\ Some(1, <<>>) /\ (Wanting(c, w, t) => r.optind + 1 >= Argc(c))
        \/ ~Going(c, w, t) /\ Some(2, <<>>) /\ Wanting(c, w, t) /\ r.optind + 1 < Argc(c)
    <2>1. CASE takes <= 0 /\ Some(used, more)
      <3>1. CASE more = <<>>
        BY <1>2, <1>5, <1>6, <2>1, <3>1
      <3>2. CASE more # <<>>
        <4>1. used = 0
          BY <1>2, <1>6, <2>1, <3>2
        <4>2. QED
          BY <1>5, <2>1, <3>2, <4>1
      <3>3. QED
        BY <3>1, <3>2
    <2>2. CASE takes > 0 /\ more # <<>> /\ Some(used, <<>>)
      <3>1. used = 1 /\ ~(takes <= 0)
        BY <1>2, <1>6, <2>2
      <3>2. QED
        BY <1>5, <2>2, <3>1
    <2>3. CASE takes = 2 /\ more = <<>> /\ Some(used, <<>>)
      <3>1. used = 1 /\ ~(takes <= 0) /\ takes # 1
        BY <1>2, <1>6, <2>3
      <3>2. QED
        BY <1>5, <2>3, <3>1
    <2>4. CASE takes = 1 /\ more = <<>> /\ r.optind + 1 = Argc(c) /\ Some(1, <<>>)
      BY <1>2, <1>5, <2>4
    <2>5. CASE takes = 1 /\ more = <<>> /\ r.optind + 1 < Argc(c) /\ Some(2, <<>>)
      BY <1>2, <1>5, <2>5
    <2>6. takes = -1 => takes <= 0
      OBVIOUS
    <2>7. takes = 0 => takes <= 0
      OBVIOUS
    <2>8. QED
      BY <1>1, <1>3, <2>1, <2>2, <2>3, <2>4, <2>5, <2>6, <2>7, Zenon
  <1>8. QED
    BY <1>1, <1>7, Zenon DEF OptionStep, Some, more

\* Both together, from where the call stands.
LEMMA OptionSteps ==
  ASSUME NEW c \in Ctx, Typed, Ranged(c), stage[c] = "Scanning",
         LongOption(c) \/ ShortOption(c), NEW r, r = Reached(c)
  PROVE  /\ AtOption(c, r) /\ stage' = stage
         /\ Found(c, r, WordAt(c, r.argv, r.optind), Text(c, r))
         /\ OptionStep(c, r, WordAt(c, r.argv, r.optind), Text(c, r))
  <1> DEFINE w == WordAt(c, r.argv, r.optind)
             t == Text(c, r)
  <1>1. AtOption(c, r)
    BY Zenon DEF LongOption, ShortOption
  <1>2. Steady(c, r)
    BY ReachedSteady
  <1>3. /\ r.optind < Argc(c) /\ w \in Seq(STRING)
        /\ r.nextchar # <<>> => t = r.nextchar
        /\ r.nextchar = <<>> => /\ Start(job[c], w) \in 1 .. Len(w)
                                /\ t = Suffix(w, Start(job[c], w))
    BY <1>1, AtWord
  <1> HIDE DEF w, t
  <1>4. t # <<>> /\ t \in Seq(STRING)
    <2>1. CASE r.nextchar # <<>>
      BY <1>2, <1>3, <2>1 DEF Steady, Works
    <2>2. CASE r.nextchar = <<>>
      BY <1>3, <2>2, SuffixIs
    <2>3. QED
      BY <2>1, <2>2
  <1>5. Found(c, r, w, t)
    BY <1>2, <1>3, <1>4 DEF Found, w, t
  <1>6. OptionStep(c, r, w, t) /\ stage' = stage
    BY <1>5, LongSteps, ShortSteps
  <1>7. QED
    BY <1>1, <1>5, <1>6 DEF w, t

\* A call that gives an operand back uses one word.
LEMMA OperandSteps ==
  ASSUME NEW c \in Ctx, Typed, Ranged(c), stage[c] = "Scanning", NonOption(c), NEW r, r = Reached(c)
  PROVE  /\ ~AtOption(c, r) /\ r.optind < Argc(c) /\ Mode(c) # "REQUIRE_ORDER" /\ stage' = stage
         /\ \E opt : opt \in Seq(STRING) /\ Steps(c, r, 1, <<>>, opt)
  <1>1. /\ ~AtOption(c, r) /\ r.optind # Argc(c) /\ Mode(c) # "REQUIRE_ORDER" /\ stage' = stage
        /\ Returns(c, r, 1, r.nextchar, Result("operand", NoArg, WordAt(c, r.argv, r.optind)))
    BY Zenon DEF NonOption
  <1>2. Steady(c, r) /\ Argc(c) \in Nat
    BY ReachedSteady, JobIs
  <1>3. r.optind < Argc(c) /\ r.optopt \in Seq(STRING)
    BY <1>1, <1>2 DEF Steady, Works
  <1>4. r.nextchar = <<>>
    BY <1>1 DEF AtOption
  <1>5. QED
    BY <1>1, <1>3, <1>4, ReturnsNothing

\* Where the caller finds the operands after EOF.
EndsAt(c, r) == IF r.optind = Argc(c) /\ r.first # r.last THEN r.first ELSE r.optind

\* A call that says EOF puts optind at the operands gathered.
LEMMA EndSteps ==
  ASSUME NEW c \in Ctx, Typed, Ranged(c), stage[c] = "Scanning", EndOfScan(c), NEW r, r = Reached(c)
  PROVE  /\ ~AtOption(c, r) /\ (r.optind = Argc(c) \/ Mode(c) = "REQUIRE_ORDER")
         /\ stage' = [stage EXCEPT ![c] = "Ended"] /\ said' = [said EXCEPT ![c] = Result("EOF", NoArg, NoArg)]
         /\ \E e, opt : /\ e \in Works(c) /\ e.argv = r.argv /\ e.optind = EndsAt(c, r)
                        /\ e.first = r.first /\ e.last = r.last
                        /\ opt \in Seq(STRING) /\ Steps(c, e, 0, <<>>, opt)
  <1> DEFINE e == [r EXCEPT !.optind = IF r.optind = Argc(c) /\ r.first # r.last
                                       THEN r.first ELSE r.optind]
  <1>1. /\ ~AtOption(c, r) /\ (r.optind = Argc(c) \/ Mode(c) = "REQUIRE_ORDER")
        /\ stage' = [stage EXCEPT ![c] = "Ended"]
        /\ Returns(c, e, 0, r.nextchar, Result("EOF", NoArg, NoArg))
    BY Zenon DEF EndOfScan
  <1>2. Steady(c, r)
    BY ReachedSteady
  <1>3. /\ e \in Works(c) /\ e.argv = r.argv /\ e.optind = EndsAt(c, r) /\ e.first = r.first
        /\ e.last = r.last /\ e.optopt \in Seq(STRING)
    BY <1>2 DEF Steady, Works, EndsAt
  <1>4. r.nextchar = <<>>
    BY <1>1 DEF AtOption
  <1> HIDE DEF e
  <1>5. said' = [said EXCEPT ![c] = Result("EOF", NoArg, NoArg)]
    BY <1>1 DEF Returns
  <1>6. \E opt : opt \in Seq(STRING) /\ Steps(c, e, 0, <<>>, opt)
    BY <1>1, <1>3, <1>4, ReturnsNothing
  <1>7. QED
    BY <1>1, <1>3, <1>5, <1>6

\* A call is of no concern to other contexts.
LEMMA RangedKept ==
  ASSUME NEW d, Ranged(d), job' = job, stage'[d] = stage[d], argv'[d] = argv[d], si'[d] = si[d]
  PROVE  Ranged(d)'
  BY DEF Ranged, Argc, Positions, Fresh

\* Every call goes by one of the three orderings.
LEMMA ModeIs ==
  ASSUME NEW c, Typed
  PROVE  Mode(c) \in Orderings
  <1>1. ordering \in Orderings
    BY DEF Typed
  <1>2. OrderingOf(job[c].prefix) \in Orderings
    BY Zenon DEF OrderingOf, Orderings
  <1>3. QED
    BY <1>1, <1>2 DEF Mode

\* A call that advances within the command line keeps every context in its range.
LEMMA StepsRanged ==
  ASSUME NEW c \in Ctx, RangeInv, NEW e \in Works(c), NEW n \in 0 .. 2, NEW rest \in Seq(STRING),
         NEW opt \in Seq(STRING), Steps(c, e, n, rest, opt),
         1 <= e.optind, e.optind + n <= Argc(c), 1 <= e.first, e.first <= e.last, e.last <= Argc(c),
         stage' \in [Ctx -> Stages], stage'[c] \in {"Scanning", "Ended"},
         stage'[c] = "Scanning" => e.last <= e.optind,
         rest # <<>> => stage'[c] = "Scanning" /\ n = 0 /\ e.optind < Argc(c),
         \A d \in Ctx : d # c => stage'[d] = stage[d]
  PROVE  RangeInv'
  <1> DEFINE x == [optind |-> e.optind + n, nextchar |-> rest, first |-> e.first, last |-> e.last,
                   optopt |-> opt]
  <1>1. /\ argv' = [argv EXCEPT ![c] = e.argv] /\ si' = [si EXCEPT ![c] = x]
        /\ ordering' = Mode(c) /\ job' = job /\ rescanned' = rescanned
        /\ \E result : said' = [said EXCEPT ![c] = result]
    BY DEF Steps
  <1>2. /\ e.argv \in Cells(Argc(c), Positions(c)) /\ e.optind \in Nat /\ e.first \in Nat /\ e.last \in Nat
    BY DEF Works
  <1>3. x \in Contexts
    BY <1>2 DEF Contexts
  <1>4. Typed'
    <2>1. si' \in [Ctx -> Contexts]
      <3> HIDE DEF x
      <3>1. QED
        BY <1>1, <1>3 DEF RangeInv, Typed
    <2>2. ordering' \in Orderings
      BY <1>1, ModeIs DEF RangeInv
    <2>3. DOMAIN argv' = Ctx /\ DOMAIN said' = Ctx /\ rescanned' \in [Ctx -> BOOLEAN] /\ job' \in Jobs
      <3>1. DOMAIN argv = Ctx /\ DOMAIN said = Ctx /\ rescanned \in [Ctx -> BOOLEAN] /\ job \in Jobs
        BY DEF RangeInv, Typed
      <3>2. DOMAIN argv' = Ctx /\ DOMAIN said' = Ctx
        BY <1>1, <3>1
      <3>3. QED
        BY <1>1, <3>1, <3>2, Zenon
    <2>4. QED
      BY <2>1, <2>2, <2>3, Zenon DEF Typed
  <1>5. Ranged(c)'
    <2>1. argv'[c] = e.argv /\ si'[c] = x /\ Argc(c)' = Argc(c) /\ Positions(c)' = Positions(c)
      BY <1>1 DEF RangeInv, Typed, Argc, Positions
    <2>2. /\ si'[c].optind = e.optind + n /\ si'[c].nextchar = rest /\ si'[c].first = e.first
          /\ si'[c].last = e.last
      BY <2>1
    <2>4. si'[c].optind # 0 /\ (e.last <= e.optind => e.last <= e.optind + n) /\ Argc(c) \in Nat
      BY <1>2, <2>2, JobIs DEF RangeInv
    <2>5. n = 0 => e.optind + n = e.optind
      BY <1>2
    <2>6. stage'[c] # "None"
      OBVIOUS
    <2> HIDE DEF x
    <2>7. QED
      BY <1>2, <2>1, <2>2, <2>4, <2>5, <2>6 DEF Ranged, Fresh
  <1>6. ASSUME NEW d \in Ctx, d # c PROVE Ranged(d)'
    <2> HIDE DEF x
    <2>1. argv'[d] = argv[d] /\ si'[d] = si[d] /\ stage'[d] = stage[d] /\ Ranged(d)
      BY <1>1, <1>6 DEF RangeInv, Typed
    <2>2. QED
      BY <1>1, <2>1, RangedKept
  <1>7. QED
    BY <1>4, <1>5, <1>6 DEF RangeInv

\* Initially no scan is under way.
LEMMA RangeInit == Init => RangeInv
  <1> SUFFICES ASSUME Init PROVE RangeInv
    OBVIOUS
  <1>1. Zeroed \in Contexts
    BY DEF Zeroed, NoArg, Contexts
  <1>2. Typed
    <2>1. stage \in [Ctx -> Stages] /\ si \in [Ctx -> Contexts] /\ rescanned \in [Ctx -> BOOLEAN]
      BY <1>1 DEF Init, Stages
    <2>2. ordering \in Orderings /\ job \in Jobs /\ DOMAIN argv = Ctx /\ DOMAIN said = Ctx
      BY DEF Init, Orderings
    <2>3. QED
      BY <2>1, <2>2 DEF Typed
  <1>3. ASSUME NEW c \in Ctx PROVE Ranged(c)
    <2>1. stage[c] = "None" /\ si[c] = Zeroed /\ argv[c] = Given(job[c])
      BY DEF Init
    <2>2. Given(job[c]) \in Cells(Argc(c), Positions(c))
      BY <1>2, JobIs DEF Given, Cells, Positions, Argc
    <2>3. Zeroed.optind = 0 /\ Zeroed.nextchar = <<>>
      BY DEF Zeroed
    <2>4. QED
      BY <2>1, <2>2, <2>3 DEF Ranged, Fresh
  <1>4. QED
    BY <1>2, <1>3 DEF RangeInv

\* A caller that heeds EOF calls while it scans.
LEMMA CallingScans ==
  ASSUME NEW c \in Ctx, RangeInv, Heeds("Again"), Calling(c)
  PROVE  Typed /\ Ranged(c) /\ stage[c] = "Scanning"
  BY DEF RangeInv, Calling

\* Calls other than those that scan change neither job nor ordering.
LEMMA SameTyped ==
  ASSUME Typed, job' = job, ordering' = ordering, stage' \in [Ctx -> Stages], si' \in [Ctx -> Contexts],
         rescanned' \in [Ctx -> BOOLEAN], DOMAIN argv' = Ctx, DOMAIN said' = Ctx
  PROVE  Typed'
  <1>1. job' \in Jobs /\ ordering' \in Orderings
    BY DEF Typed
  <1>2. QED
    BY <1>1, Zenon DEF Typed

\* RangeInv is inductive: one case for each operation.
LEMMA RangeStep ==
  ASSUME RangeInv, Heeds("Again"), [Next]_vars
  PROVE  RangeInv'
  <1>1. CASE UNCHANGED vars
    BY <1>1 DEF RangeInv, Typed, Ranged, Fresh, Argc, Positions, vars
  <1>2. ASSUME NEW c \in Ctx, Create(c) PROVE RangeInv'
    <2>1. /\ stage[c] = "None" /\ stage' = [stage EXCEPT ![c] = "Scanning"]
          /\ ordering' = ordering /\ job' = job /\ argv' = argv /\ si' = si
          /\ said' = said /\ rescanned' = rescanned
      BY <1>2 DEF Create
    <2>2. Typed'
      BY <2>1, SameTyped DEF RangeInv, Typed, Stages
    <2>3. Ranged(c)'
      <3>1. /\ stage'[c] = "Scanning" /\ si[c] = Zeroed /\ Zeroed.optind = 0 /\ Zeroed.nextchar = <<>>
            /\ argv[c] \in Cells(Argc(c), Positions(c))
        BY <2>1 DEF RangeInv, Typed, Ranged, Zeroed
      <3>2. QED
        BY <2>1, <3>1 DEF Ranged, Fresh, Argc, Positions
    <2>4. ASSUME NEW d \in Ctx, d # c PROVE Ranged(d)'
      <3>1. stage'[d] = stage[d] /\ Ranged(d)
        BY <2>1, <2>4 DEF RangeInv, Typed
      <3>2. QED
        BY <2>1, <3>1, RangedKept
    <2>5. QED
      BY <2>2, <2>3, <2>4 DEF RangeInv
  <1>3. ASSUME NEW c \in Ctx, Delete(c) PROVE RangeInv'
    <2>1. /\ stage' = [stage EXCEPT ![c] = "None"] /\ si' = [si EXCEPT ![c] = Zeroed]
          /\ argv' = [argv EXCEPT ![c] = Given(job[c])] /\ said' = [said EXCEPT ![c] = Nothing]
          /\ rescanned' = [rescanned EXCEPT ![c] = FALSE] /\ ordering' = ordering /\ job' = job
      BY <1>3 DEF Delete
    <2>2. Typed'
      <3>1. Zeroed \in Contexts
        BY DEF Zeroed, NoArg, Contexts
      <3>2. QED
        BY <2>1, <3>1, SameTyped DEF RangeInv, Typed, Stages
    <2>3. Ranged(c)'
      <3>1. stage'[c] = "None" /\ si'[c] = Zeroed /\ Zeroed.optind = 0 /\ Zeroed.nextchar = <<>>
        BY <2>1 DEF RangeInv, Typed, Zeroed
      <3>2. argv'[c] = Given(job[c])
        BY <2>1 DEF RangeInv, Typed
      <3>3. Given(job[c]) \in Cells(Argc(c), Positions(c))
        BY JobIs DEF RangeInv, Given, Cells, Positions, Argc
      <3>4. QED
        BY <2>1, <3>1, <3>2, <3>3 DEF Ranged, Fresh, Argc, Positions
    <2>4. ASSUME NEW d \in Ctx, d # c PROVE Ranged(d)'
      <3>1. stage'[d] = stage[d] /\ argv'[d] = argv[d] /\ si'[d] = si[d] /\ Ranged(d)
        BY <2>1, <2>4 DEF RangeInv, Typed
      <3>2. QED
        BY <2>1, <3>1, RangedKept
    <2>5. QED
      BY <2>2, <2>3, <2>4 DEF RangeInv
  <1>4. ASSUME NEW c \in Ctx, Rescan(c) PROVE RangeInv'
    <2>1. /\ stage[c] = "Ended" /\ stage' = [stage EXCEPT ![c] = "Scanning"]
          /\ si' = [si EXCEPT ![c].optind = 0] /\ rescanned' = [rescanned EXCEPT ![c] = TRUE]
          /\ argv' = argv /\ said' = said /\ ordering' = ordering /\ job' = job
      BY <1>4 DEF Rescan
    <2>2. Typed'
      <3>1. \A x \in Contexts : [x EXCEPT !.optind = 0] \in Contexts
        BY DEF Contexts
      <3>2. si' \in [Ctx -> Contexts]
        BY <2>1, <3>1 DEF RangeInv, Typed
      <3>3. QED
        BY <2>1, <3>2, SameTyped DEF RangeInv, Typed, Stages
    <2>3. Ranged(c)'
      <3>1. stage'[c] = "Scanning" /\ si'[c].optind = 0 /\ si'[c].nextchar = si[c].nextchar
        BY <2>1 DEF RangeInv, Typed, Contexts
      <3>2. si[c].nextchar = <<>> /\ argv[c] \in Cells(Argc(c), Positions(c))
        BY <2>1 DEF RangeInv, Ranged
      <3>3. QED
        BY <2>1, <3>1, <3>2 DEF Ranged, Fresh, Argc, Positions
    <2>4. ASSUME NEW d \in Ctx, d # c PROVE Ranged(d)'
      <3>1. stage'[d] = stage[d] /\ argv'[d] = argv[d] /\ si'[d] = si[d] /\ Ranged(d)
        BY <2>1, <2>4 DEF RangeInv, Typed
      <3>2. QED
        BY <2>1, <3>1, RangedKept
    <2>5. QED
      BY <2>2, <2>3, <2>4 DEF RangeInv
  <1>5. ASSUME NEW c \in Ctx, ClearOptopt(c) PROVE RangeInv'
    <2>1. /\ si' = [si EXCEPT ![c].optopt = NoArg] /\ said' = [said EXCEPT ![c] = Nothing]
          /\ ordering' = ordering /\ stage' = stage /\ job' = job /\ argv' = argv
          /\ rescanned' = rescanned
      BY <1>5 DEF ClearOptopt
    <2>2. Typed'
      <3>0. NoArg \in Seq(STRING)
        BY DEF NoArg
      <3>1. \A x \in Contexts : [x EXCEPT !.optopt = NoArg] \in Contexts
        BY <3>0 DEF Contexts
      <3>2. si' \in [Ctx -> Contexts]
        BY <2>1, <3>1 DEF RangeInv, Typed
      <3>3. QED
        BY <2>1, <3>2, SameTyped DEF RangeInv, Typed
    <2>3. Ranged(c)'
      <3>1. /\ si'[c].optind = si[c].optind /\ si'[c].nextchar = si[c].nextchar
            /\ si'[c].first = si[c].first /\ si'[c].last = si[c].last
        BY <2>1 DEF RangeInv, Typed, Contexts
      <3>2. stage[c] # "None" /\ Ranged(c)
        BY <1>5 DEF ClearOptopt, RangeInv
      <3>3. QED
        BY <2>1, <3>1, <3>2 DEF Ranged, Fresh, Argc, Positions
    <2>4. ASSUME NEW d \in Ctx, d # c PROVE Ranged(d)'
      <3>1. si'[d] = si[d] /\ Ranged(d)
        BY <2>1, <2>4 DEF RangeInv, Typed
      <3>2. QED
        BY <2>1, <3>1, RangedKept
    <2>5. QED
      BY <2>2, <2>3, <2>4 DEF RangeInv
  <1>6. ASSUME NEW c \in Ctx, EndOfScan(c) PROVE RangeInv'
    <2>1. Calling(c)
      BY <1>6 DEF EndOfScan
    <2>2. Typed /\ Ranged(c) /\ stage[c] = "Scanning"
      BY <2>1, CallingScans
    <2> DEFINE r == Reached(c)
    <2>3. Steady(c, r) /\ Argc(c) \in Nat
      BY <2>2, ReachedSteady, JobIs
    <2>4. /\ stage' = [stage EXCEPT ![c] = "Ended"]
          /\ \E e, opt : /\ e \in Works(c) /\ e.argv = r.argv /\ e.optind = EndsAt(c, r)
                         /\ e.first = r.first /\ e.last = r.last
                         /\ opt \in Seq(STRING) /\ Steps(c, e, 0, <<>>, opt)
      BY <1>6, <2>2, EndSteps
    <2>5. PICK e, opt : /\ e \in Works(c) /\ e.argv = r.argv /\ e.optind = EndsAt(c, r)
                        /\ e.first = r.first /\ e.last = r.last
                        /\ opt \in Seq(STRING) /\ Steps(c, e, 0, <<>>, opt)
      BY <2>4
    <2>6. /\ 1 <= e.optind /\ e.optind + 0 <= Argc(c) /\ 1 <= e.first /\ e.first <= e.last
          /\ e.last <= Argc(c)
      BY <2>3, <2>5 DEF Steady, Works, EndsAt
    <2>7. /\ stage' \in [Ctx -> Stages] /\ stage'[c] = "Ended"
          /\ \A d \in Ctx : d # c => stage'[d] = stage[d]
      BY <2>2, <2>4 DEF Typed, Stages
    <2>8. 0 \in 0 .. 2 /\ <<>> \in Seq(STRING)
      OBVIOUS
    <2> HIDE DEF r
    <2>9. QED
      BY <2>5, <2>6, <2>7, <2>8, StepsRanged
  <1>7. ASSUME NEW c \in Ctx, NonOption(c) PROVE RangeInv'
    <2>1. Calling(c)
      BY <1>7 DEF NonOption
    <2>2. Typed /\ Ranged(c) /\ stage[c] = "Scanning"
      BY <2>1, CallingScans
    <2> DEFINE r == Reached(c)
    <2>3. Steady(c, r) /\ Argc(c) \in Nat
      BY <2>2, ReachedSteady, JobIs
    <2>4. r.optind < Argc(c) /\ stage' = stage /\ \E opt : opt \in Seq(STRING) /\ Steps(c, r, 1, <<>>, opt)
      BY <1>7, <2>2, OperandSteps
    <2>5. /\ r \in Works(c) /\ 1 <= r.optind /\ r.optind + 1 <= Argc(c) /\ 1 <= r.first
          /\ r.first <= r.last /\ r.last <= Argc(c) /\ r.last <= r.optind
      BY <2>3, <2>4 DEF Steady, Works
    <2>6. stage' \in [Ctx -> Stages] /\ stage'[c] = "Scanning"
      BY <2>2, <2>4 DEF Typed
    <2>7. 1 \in 0 .. 2 /\ <<>> \in Seq(STRING)
      OBVIOUS
    <2> HIDE DEF r
    <2>8. QED
      BY <2>4, <2>5, <2>6, <2>7, StepsRanged
  <1>8. ASSUME NEW c \in Ctx, LongOption(c) \/ ShortOption(c) PROVE RangeInv'
    <2>1. Calling(c)
      BY <1>8 DEF LongOption, ShortOption
    <2>2. Typed /\ Ranged(c) /\ stage[c] = "Scanning"
      BY <2>1, CallingScans
    <2> DEFINE r == Reached(c)
               w == WordAt(c, r.argv, r.optind)
               t == Text(c, r)
    <2>3. stage' = stage /\ Found(c, r, w, t) /\ OptionStep(c, r, w, t)
      BY <1>8, <2>2, OptionSteps
    <2> HIDE DEF r, w, t
    <2>4. PICK n, opt, rest :
            /\ Steps(c, r, n, rest, opt) /\ opt \in Seq(STRING)
            /\ \/ Going(c, w, t) /\ n = 0 /\ rest = Tail(t)
               \/ /\ ~Going(c, w, t) /\ rest = <<>>
                  /\ \/ n = 1 /\ (Wanting(c, w, t) => r.optind + 1 >= Argc(c))
                     \/ n = 2 /\ Wanting(c, w, t) /\ r.optind + 1 < Argc(c)
      BY <2>3 DEF OptionStep
    <2>5. /\ r \in Works(c) /\ r.optind \in Nat /\ Argc(c) \in Nat /\ r.optind < Argc(c)
          /\ 1 <= r.optind /\ 1 <= r.first
          /\ r.first <= r.last /\ r.last <= Argc(c) /\ r.last <= r.optind
      BY <2>2, <2>3, JobIs DEF Found, Steady, Works
    <2>6. /\ n \in 0 .. 2 /\ r.optind + n <= Argc(c) /\ rest \in Seq(STRING)
          /\ rest # <<>> => n = 0
      <3>1. Tail(t) \in Seq(STRING)
        BY <2>3, HeadTailProperties DEF Found
      <3>2. CASE n = 0
        BY <2>4, <2>5, <3>1, <3>2
      <3>3. CASE n = 1
        BY <2>4, <2>5, <3>3
      <3>4. CASE n = 2
        BY <2>4, <2>5, <3>4
      <3>5. QED
        BY <2>4, <3>2, <3>3, <3>4
    <2>7. stage' \in [Ctx -> Stages] /\ stage'[c] = "Scanning"
      BY <2>2, <2>3 DEF Typed
    <2>8. QED
      BY <2>3, <2>4, <2>5, <2>6, <2>7, StepsRanged
  <1>9. QED
    BY <1>1, <1>2, <1>3, <1>4, <1>5, <1>6, <1>7, <1>8 DEF Next

\* Where a context stands in its command line is always what the calls go by.
THEOREM RangeHolds == Heeds("Again") => (Spec => []RangeInv)
  <1> SUFFICES ASSUME Heeds("Again") PROVE Spec => []RangeInv
    OBVIOUS
  <1>1. Init => RangeInv
    BY RangeInit
  <1>2. RangeInv /\ [Next]_vars => RangeInv'
    BY RangeStep
  <1>3. QED
    BY <1>1, <1>2, PTL DEF Spec

\* A call that does not say EOF advances in its context.
LEMMA CallAdvances ==
  ASSUME RangeInv, Heeds("Again"), NEW c \in Ctx, NonOption(c) \/ LongOption(c) \/ ShortOption(c)
  PROVE  \/ si'[c].optind > si[c].optind
         \/ /\ si'[c].optind = si[c].optind /\ si'[c].nextchar # <<>>
            /\ si[c].nextchar = <<>> \/ Len(si'[c].nextchar) < Len(si[c].nextchar)
  <1> DEFINE r == Reached(c)
  <1>1. Calling(c)
    BY DEF NonOption, LongOption, ShortOption
  <1>2. Typed /\ Ranged(c) /\ stage[c] = "Scanning" /\ DOMAIN si = Ctx
    BY <1>1, CallingScans DEF Typed
  <1>3. /\ Steady(c, r) /\ Entered(c).optind <= r.optind /\ r.nextchar = Entered(c).nextchar
        /\ si[c].optind <= Entered(c).optind /\ Steady(c, Entered(c))
        /\ ~Fresh(c) => Entered(c).nextchar = si[c].nextchar
        /\ Fresh(c) => si[c].optind = 0
    BY <1>2, ReachedSteady, EnteredSteady DEF Fresh
  <1>4. /\ si[c].optind \in Nat /\ r.optind \in Nat /\ Entered(c).optind \in Nat /\ 1 <= r.optind
        /\ si[c].optind <= r.optind
    BY <1>2, <1>3 DEF Steady, Works, Typed, Contexts
  <1>5. ASSUME NEW n \in 1 .. 2, NEW rest, NEW opt, Steps(c, r, n, rest, opt)
        PROVE  si'[c].optind > si[c].optind
    <2>1. si'[c].optind = r.optind + n
      BY <1>2, <1>5 DEF Steps
    <2>2. QED
      BY <1>4, <2>1
  <1>6. CASE NonOption(c)
    <2>1. \E opt : opt \in Seq(STRING) /\ Steps(c, r, 1, <<>>, opt)
      BY <1>2, <1>6, OperandSteps
    <2>2. 1 \in 1 .. 2
      OBVIOUS
    <2>3. QED
      BY <1>5, <2>1, <2>2
  <1>7. CASE LongOption(c) \/ ShortOption(c)
    <2> DEFINE w == WordAt(c, r.argv, r.optind)
               t == Text(c, r)
    <2>1. Found(c, r, w, t) /\ OptionStep(c, r, w, t) /\ AtOption(c, r)
      BY <1>2, <1>7, OptionSteps
    <2>2. r.nextchar # <<>> => t = r.nextchar
      BY <1>2, <2>1, AtWord
    <2> HIDE DEF r, w, t
    <2>3. PICK n, opt, rest :
            /\ Steps(c, r, n, rest, opt) /\ opt \in Seq(STRING)
            /\ \/ Going(c, w, t) /\ n = 0 /\ rest = Tail(t)
               \/ /\ ~Going(c, w, t) /\ rest = <<>>
                  /\ \/ n = 1 /\ (Wanting(c, w, t) => r.optind + 1 >= Argc(c))
                     \/ n = 2 /\ Wanting(c, w, t) /\ r.optind + 1 < Argc(c)
      BY <2>1 DEF OptionStep
    <2>4. CASE n \in 1 .. 2
      BY <1>5, <2>3, <2>4
    <2>5. CASE Going(c, w, t) /\ n = 0 /\ rest = Tail(t)
      <3>1. si'[c].optind = r.optind /\ si'[c].nextchar = Tail(t)
        BY <1>2, <1>4, <2>3, <2>5 DEF Steps
      <3>2. Tail(t) # <<>>
        BY <2>5 DEF Going
      <3>3. t # <<>> /\ t \in Seq(STRING)
        BY <2>1 DEF Found
      <3>4. Len(Tail(t)) = Len(t) - 1 /\ Len(t) \in Nat
        BY <3>3, HeadTailProperties, LenProperties
      <3>5. CASE r.optind > si[c].optind
        BY <3>1, <3>5
      <3>6. CASE r.optind = si[c].optind
        <4>1. ~Fresh(c)
          BY <1>3, <1>4, <3>6
        <4>2. r.nextchar = si[c].nextchar
          BY <1>3, <4>1 DEF r
        <4>3. CASE si[c].nextchar = <<>>
          BY <3>1, <3>2, <3>6, <4>3
        <4>4. CASE si[c].nextchar # <<>>
          <5>1. t = si[c].nextchar
            BY <2>2, <4>2, <4>4
          <5>2. QED
            BY <3>1, <3>2, <3>4, <3>6, <5>1
        <4>5. QED
          BY <4>3, <4>4
      <3>7. QED
        BY <1>4, <3>5, <3>6
    <2>6. QED
      BY <2>3, <2>4, <2>5
  <1>8. QED
    BY <1>6, <1>7

\* Every scan comes to its end for a caller that heeds EOF: a call goes on to a
\* later word or further into the word it is reading, whatever the ordering and
\* whoever else scans.
THEOREM CallsAdvance == Heeds("Again") => (Spec => ScanAdvances)
  <1> SUFFICES ASSUME Heeds("Again") PROVE Spec => ScanAdvances
    OBVIOUS
  <1> DEFINE Advance ==
               \A c \in Ctx :
                 NonOption(c) \/ LongOption(c) \/ ShortOption(c) =>
                   LET before == si[c]
                       after == si'[c]
                   IN  \/ after.optind > before.optind
                       \/ /\ after.optind = before.optind /\ after.nextchar # <<>>
                          /\ before.nextchar = <<>> \/ Len(after.nextchar) < Len(before.nextchar)
  <1>1. RangeInv /\ [Next]_vars => [Advance]_vars
    BY CallAdvances, Zenon
  <1>2. Spec => []RangeInv
    BY RangeHolds
  <1>3. QED
    BY <1>1, <1>2, PTL DEF Spec, ScanAdvances

\* A word whose option characters are being read is no long option as a whole.
Midway(c) ==
  si[c].nextchar # <<>> =>
    LET w == WordAt(c, argv[c], si[c].optind)
    IN  IsOption(w) /\ (LongForm(c, w) => Meant(job[c], Suffix(w, Start(job[c], w))) = {})

\* No error is left from before a scan.
Settled(c) ==
  /\ stage[c] = "None" => said[c].code = "none"
  /\ stage[c] = "Ended" => said[c].code = "EOF"

Named(c) ==
  said[c].code \in {"?", ":"} =>
    LET opt == si[c].optopt
        word == WordAt(c, argv[c], si[c].optind - 1)
    IN  IF opt = NoArg THEN IsOption(word) /\ Unusable(c, word)
        ELSE opt[1] \in DOMAIN job[c].short =>
           job[c].short[opt[1]] = 1 /\ si[c].optind = Argc(c)


\* No option character is also the prefix of its optstring.
PrefixesApart == \A jobs \in Jobs : \A c \in Ctx : jobs[c].prefix \notin DOMAIN jobs[c].short

\* No use of the text for a long option, at the last word or not.
Useless(j, t, last) ==
  ~\E p \in Meant(j, t) :
     /\ Meant(j, t) = {p}
     /\ HasValue(t) => p.has_arg
     /\ p.has_arg /\ ~HasValue(t) => ~last

\* What is said at a long option that cannot be used as it is.
LEMMA LongSays ==
  ASSUME NEW c \in Ctx, NEW r, NEW w, NEW t, Found(c, r, w, t), LongOption(c)
  PROVE  /\ LongForm(c, w)
         /\ \E n, result :
              /\ Returns(c, r, n, <<>>, result)
              /\ result.code \in {"?", ":"} =>
                   /\ result.opt = NoArg /\ n = 1
                   /\ Useless(job[c], t, r.optind + 1 = Argc(c))
  <1> DEFINE meant == Meant(job[c], t)
             Taken(n, p, arg) == Returns(c, r, n, <<>>, Result("option", p.name, arg))
             Next1 == r.optind + 1 < Argc(c)
             Last1 == r.optind + 1 >= Argc(c)
             last == r.optind + 1 = Argc(c)
             Goal == \E n, result :
                       /\ Returns(c, r, n, <<>>, result)
                       /\ result.code \in {"?", ":"} =>
                            result.opt = NoArg /\ n = 1 /\ Useless(job[c], t, last)
  <1>1. /\ LongForm(c, w)
        /\ \/ Cardinality(meant) > 1 /\ Refuses(c, r, "?")
           \/ meant = {} /\ MustBeLong(c, w, t) /\ Refuses(c, r, "?")
           \/ \E p \in meant :
                /\ meant = {p}
                /\ \/ HasValue(t) /\ p.has_arg /\ Taken(1, p, ValueIn(t))
                   \/ HasValue(t) /\ ~p.has_arg /\ Refuses(c, r, "?")
                   \/ ~HasValue(t) /\ ~p.has_arg /\ Taken(1, p, NoArg)
                   \/ /\ ~HasValue(t) /\ p.has_arg /\ Next1
                      /\ Taken(2, p, WordAt(c, r.argv, r.optind + 1))
                   \/ ~HasValue(t) /\ p.has_arg /\ Last1 /\ Refuses(c, r, Missing(c))
    BY Zenon DEF LongOption, Found
  <1>2. Last1 => last
    <2>1. r.optind \in Nat /\ Argc(c) \in Nat /\ r.optind < Argc(c)
      BY JobIs DEF Found, Steady, Works
    <2>2. QED
      BY <2>1
  <1>3. ASSUME NEW code, Refuses(c, r, code), Useless(job[c], t, last) PROVE Goal
    <2>1. Returns(c, r, 1, <<>>, Result(code, NoArg, NoArg))
      BY <1>3 DEF Refuses
    <2>2. Result(code, NoArg, NoArg).opt = NoArg
      BY DEF Result
    <2>3. QED
      BY <1>3, <2>1, <2>2, Zenon
  <1>4. ASSUME NEW n, NEW p, NEW arg, Taken(n, p, arg) PROVE Goal
    <2>1. ~(Result("option", p.name, arg).code \in {"?", ":"})
      BY DEF Result
    <2>2. QED
      BY <1>4, <2>1, Zenon
  <1> HIDE DEF Taken, Next1, Last1, Goal, last
  <1>5. ASSUME Cardinality(meant) > 1 /\ Refuses(c, r, "?") PROVE Goal
    <2>1. ASSUME NEW p, meant = {p} PROVE FALSE
      <3>1. Cardinality({p}) = 1
        BY FS_Singleton, Zenon
      <3>2. ~(1 > 1)
        OBVIOUS
      <3>3. QED
        BY <1>5, <2>1, <3>1, <3>2, Zenon
    <2>2. QED
      BY <1>3, <1>5, <2>1, Zenon DEF Useless
  <1>6. ASSUME meant = {} /\ Refuses(c, r, "?") PROVE Goal
    BY <1>3, <1>6, Zenon DEF Useless
  <1>7. ASSUME NEW p \in meant, meant = {p},
               \/ HasValue(t) /\ p.has_arg /\ Taken(1, p, ValueIn(t))
               \/ HasValue(t) /\ ~p.has_arg /\ Refuses(c, r, "?")
               \/ ~HasValue(t) /\ ~p.has_arg /\ Taken(1, p, NoArg)
               \/ /\ ~HasValue(t) /\ p.has_arg /\ Next1
                  /\ Taken(2, p, WordAt(c, r.argv, r.optind + 1))
               \/ ~HasValue(t) /\ p.has_arg /\ Last1 /\ Refuses(c, r, Missing(c))
        PROVE  Goal
    <2>1. \A q : meant = {q} => q = p
      BY <1>7
    <2>2. CASE HasValue(t) /\ ~p.has_arg /\ Refuses(c, r, "?")
      <3>1. Useless(job[c], t, last)
        BY <2>1, <2>2, Zenon DEF Useless
      <3>2. QED
        BY <1>3, <2>2, <3>1, Zenon
    <2>3. CASE ~HasValue(t) /\ p.has_arg /\ Last1 /\ Refuses(c, r, Missing(c))
      <3>1. Useless(job[c], t, last)
        BY <1>2, <2>1, <2>3, Zenon DEF Useless
      <3>2. QED
        BY <1>3, <2>3, <3>1, Zenon
    <2>4. QED
      BY <1>4, <1>7, <2>2, <2>3, Zenon
  <1>8. Goal
    BY <1>1, <1>5, <1>6, <1>7, Zenon
  <1>9. QED
    BY <1>1, <1>8, Zenon DEF Goal, last

\* What is said at an option character.
LEMMA ShortSays ==
  ASSUME NEW c \in Ctx, NEW r, NEW w, NEW t, Found(c, r, w, t), ShortOption(c)
  PROVE  /\ LongForm(c, w) => Meant(job[c], t) = {}
         /\ \E n, rest, code, arg :
              /\ Returns(c, r, n, rest, Result(code, <<Head(t)>>, arg))
              /\ rest # <<>> => n = 0
              /\ code \in {"?", ":"} => \/ Takes(c, Head(t)) = -1
                                        \/ Takes(c, Head(t)) = 1 /\ r.optind + n = Argc(c)
  <1> DEFINE opt == Head(t)
             more == Tail(t)
             takes == Takes(c, opt)
             used == WordsUsed(more, takes)
             Says(n, rest, code, arg) == Returns(c, r, n, rest, Result(code, <<opt>>, arg))
             Goal == \E n, rest, code, arg :
                       /\ Says(n, rest, code, arg) /\ (rest # <<>> => n = 0)
                       /\ code \in {"?", ":"} => takes = -1 \/ (takes = 1 /\ r.optind + n = Argc(c))
  <1>1. /\ LongForm(c, w) => Meant(job[c], t) = {}
        /\ \/ takes = -1 /\ Says(used, more, "?", NoArg)
           \/ takes = 0 /\ Says(used, more, "option", NoArg)
           \/ takes > 0 /\ more # <<>> /\ Says(used, <<>>, "option", more)
           \/ takes = 2 /\ more = <<>> /\ Says(used, <<>>, "option", NoArg)
           \/ /\ takes = 1 /\ more = <<>> /\ r.optind + 1 = Argc(c)
              /\ Says(1, <<>>, Missing(c), NoArg)
           \/ /\ takes = 1 /\ more = <<>> /\ r.optind + 1 < Argc(c)
              /\ Says(2, <<>>, "option", WordAt(c, r.argv, r.optind + 1))
    BY Zenon DEF ShortOption, Found
  <1>2. takes \in -1 .. 2
    BY TakesIs DEF Found
  <1> HIDE DEF opt, more, takes, Says
  <1>3. used = IF more = <<>> \/ takes > 0 THEN 1 ELSE 0
    BY Zenon DEF WordsUsed
  <1>4. takes = -1 \/ takes = 0 => (more # <<>> => used = 0)
    BY <1>2, <1>3
  <1> HIDE DEF used
  <1>5. "option" \notin {"?", ":"}
    OBVIOUS
  <1>6. ASSUME NEW n, NEW rest, NEW code, NEW arg, Says(n, rest, code, arg), rest # <<>> => n = 0,
               code \in {"?", ":"} => takes = -1 \/ (takes = 1 /\ r.optind + n = Argc(c))
        PROVE  Goal
    BY <1>6, Zenon
  <1> HIDE DEF Goal
  <1>7. ASSUME takes = -1 \/ takes = 0, NEW code, NEW arg, Says(used, more, code, arg),
               code \in {"?", ":"} => takes = -1
        PROVE  Goal
    BY <1>4, <1>6, <1>7, Zenon
  <1>8. ASSUME NEW n, NEW arg, Says(n, <<>>, "option", arg) PROVE Goal
    BY <1>5, <1>6, <1>8, Zenon
  <1>9. ASSUME takes = 1, r.optind + 1 = Argc(c), Says(1, <<>>, Missing(c), NoArg) PROVE Goal
    BY <1>6, <1>9, Zenon
  <1>10. Goal
    BY <1>1, <1>5, <1>7, <1>8, <1>9, Zenon
  <1>11. QED
    BY <1>1, <1>10, Zenon DEF Goal, Says, takes, opt

NamedAt(c) == Midway(c) /\ Settled(c) /\ Named(c)

\* What another context was told stays true.
LEMMA NamedKept ==
  ASSUME NEW d, NamedAt(d), job' = job, stage'[d] = stage[d], argv'[d] = argv[d], si'[d] = si[d],
         said'[d] = said[d]
  PROVE  NamedAt(d)'
  <1>1. Argc(d)' = Argc(d) /\ Fresh(d)' = Fresh(d) /\ \A ch : Takes(d, ch)' = Takes(d, ch)
    BY DEF Argc, Fresh, Takes
  <1>2. \A w : LongForm(d, w)' = LongForm(d, w) /\ Unusable(d, w)' = Unusable(d, w)
    <2>1. \A ch : Known(d, ch)' = Known(d, ch)
      BY <1>1 DEF Known
    <2>2. QED
      BY <1>1, <2>1 DEF LongForm, Unusable
  <1>3. /\ WordAt(d, argv[d], si[d].optind)' = WordAt(d, argv[d], si[d].optind)
        /\ WordAt(d, argv[d], si[d].optind - 1)' = WordAt(d, argv[d], si[d].optind - 1)
    BY DEF WordAt
  <1>4. Midway(d)' <=> Midway(d)
    BY <1>2, <1>3 DEF Midway
  <1>5. Settled(d)' <=> Settled(d)
    BY DEF Settled
  <1>6. Named(d)' <=> Named(d)
    BY <1>1, <1>2, <1>3 DEF Named
  <1>7. QED
    BY <1>4, <1>5, <1>6 DEF NamedAt

\* Only the first call of a scan knows the prefix from an option character.
LEMMA LongFormLater ==
  ASSUME NEW c, NEW w, job' = job, ~Fresh(c)', LongForm(c, w)'
  PROVE  LongForm(c, w)
  <1>1. Known(c, w[2]) => Known(c, w[2])'
    BY Zenon DEF Known
  <1>2. QED
    BY <1>1, Zenon DEF LongForm

\* The fields of a context after a call.
LEMMA Said ==
  ASSUME NEW c \in Ctx, Typed, NEW r \in Works(c), NEW n, NEW rest, NEW result, Returns(c, r, n, rest, result)
  PROVE  /\ argv'[c] = r.argv /\ said'[c] = result /\ job' = job
         /\ si'[c].optind = r.optind + n /\ si'[c].nextchar = rest
         /\ si'[c].optopt = IF result.code \in {"?", ":"} /\ result.opt # NoArg THEN result.opt ELSE r.optopt
         /\ \A d \in Ctx : d # c => argv'[d] = argv[d] /\ si'[d] = si[d] /\ said'[d] = said[d]
  <1> DEFINE o == IF result.code \in {"?", ":"} /\ result.opt # NoArg THEN result.opt ELSE r.optopt
             x == [optind |-> r.optind + n, nextchar |-> rest, first |-> r.first, last |-> r.last,
                   optopt |-> o]
  <1>1. /\ argv' = [argv EXCEPT ![c] = r.argv] /\ si' = [si EXCEPT ![c] = x]
        /\ said' = [said EXCEPT ![c] = result] /\ job' = job
    BY Zenon DEF Returns
  <1>2. DOMAIN argv = Ctx /\ DOMAIN si = Ctx /\ DOMAIN said = Ctx
    BY DEF Typed
  <1>3. si'[c] = x
    <2> HIDE DEF x
    <2>1. QED
      BY <1>1, <1>2
  <1>4. /\ argv'[c] = r.argv /\ said'[c] = result
        /\ \A d \in Ctx : d # c => argv'[d] = argv[d] /\ si'[d] = si[d] /\ said'[d] = said[d]
    <2> HIDE DEF x
    <2>1. QED
      BY <1>1, <1>2
  <1>5. si'[c].optind = r.optind + n /\ si'[c].nextchar = rest /\ si'[c].optopt = o
    <2> HIDE DEF o
    <2>1. QED
      BY <1>3
  <1>6. QED
    BY <1>1, <1>4, <1>5, Zenon

\* An error without a character is named by the word before optind.
LEMMA LongErrorNamed ==
  ASSUME NEW c, NEW w, NEW k \in Nat, Argc(c) \in Nat, k < Argc(c), job' = job, IsOption(w),
         job[c].entry # "sgetopt", WordAt(c, argv'[c], k) = w, si'[c].optind = k + 1,
         si'[c].optopt = NoArg, Useless(job[c], Suffix(w, Start(job[c], w)), k + 1 = Argc(c))
  PROVE  Named(c)'
  <1> DEFINE full == Suffix(w, Start(job[c], w))
             last == k + 1 = Argc(c)
  <1>1. si'[c].optind - 1 = k /\ (last <=> ~(si'[c].optind < Argc(c))) /\ Argc(c)' = Argc(c)
    BY DEF Argc
  <1>2. WordAt(c, argv[c], si[c].optind - 1)' = w
    BY <1>1 DEF WordAt
  <1>3. SubSeq(w, IF w[2] = "-" THEN 3 ELSE 2, Len(w)) = full
    BY Zenon DEF Start, Suffix
  <1> HIDE DEF full, last
  <1>4. Useless(job[c], full, last)
    BY Zenon DEF full, last
  <1>5. Unusable(c, w)'
    BY <1>1, <1>3, <1>4, Zenon DEF Unusable, Useless
  <1>6. QED
    BY <1>2, <1>5, Zenon DEF Named

\* A call that is about an option: it says the error by name, or by character.
LEMMA LongNamed ==
  ASSUME NEW c \in Ctx, RangeInv, Ranged(c), stage[c] = "Scanning", NamedAt(c), si[c].optopt = NoArg,
         LongOption(c)
  PROVE  /\ NamedAt(c)'
         /\ \A d \in Ctx : d # c => argv'[d] = argv[d] /\ si'[d] = si[d] /\ said'[d] = said[d]
  <1> DEFINE r == Reached(c)
             w == WordAt(c, r.argv, r.optind)
             t == Text(c, r)
             full == Suffix(w, Start(job[c], w))
             last == r.optind + 1 = Argc(c)
  <1>1. /\ Typed /\ AtOption(c, r) /\ stage' = stage /\ Found(c, r, w, t)
    BY OptionSteps DEF RangeInv
  <1>2. /\ r.nextchar # <<>> => t = r.nextchar /\ r = Entered(c)
        /\ r.nextchar = <<>> => IsOption(w) /\ t = full
        /\ r.nextchar = Entered(c).nextchar /\ r.optopt = NoArg
    <2>1. /\ r.nextchar # <<>> => r = Entered(c)
          /\ r.nextchar = Entered(c).nextchar /\ r.optopt = NoArg
      BY <1>1, ReachedSteady
    <2>2. /\ r.nextchar # <<>> => t = r.nextchar
          /\ r.nextchar = <<>> => IsOption(w) /\ t = full
      BY <1>1, AtWord
    <2>3. QED
      BY <2>1, <2>2
  <1>3. /\ LongForm(c, w)
        /\ \E n, result :
              /\ Returns(c, r, n, <<>>, result)
              /\ result.code \in {"?", ":"} =>
                   /\ result.opt = NoArg /\ n = 1 /\ Useless(job[c], t, last)
    BY <1>1, LongSays
  <1>4. IsOption(w) /\ (Useless(job[c], t, last) => Useless(job[c], full, last))
    <2>1. CASE r.nextchar = <<>>
      BY <1>2, <2>1
    <2>2. CASE r.nextchar # <<>>
      <3>1. ~Fresh(c) /\ si[c].nextchar # <<>> /\ r.argv = argv[c] /\ r.optind = si[c].optind
        BY <1>1, <1>2, <2>2, EnteredSteady DEF r
      <3>2. IsOption(w) /\ Meant(job[c], full) = {}
        <4>1. w = WordAt(c, argv[c], si[c].optind)
          BY <3>1
        <4> HIDE DEF w
        <4>2. QED
          BY <1>3, <3>1, <4>1, Zenon DEF NamedAt, Midway
      <3> HIDE DEF full, last
      <3>3. QED
        BY <3>2, Zenon DEF Useless
    <2>3. QED
      BY <2>1, <2>2
  <1>5. r \in Works(c) /\ r.optind \in Nat /\ Argc(c) \in Nat /\ r.optind < Argc(c)
    BY <1>1, JobIs DEF Found, Steady, Works
  <1> HIDE DEF r, t
  <1>6. PICK n, result :
              /\ Returns(c, r, n, <<>>, result)
              /\ result.code \in {"?", ":"} =>
                   /\ result.opt = NoArg /\ n = 1 /\ Useless(job[c], t, last)
    BY <1>3
  <1>7. /\ argv'[c] = r.argv /\ said'[c] = result /\ job' = job
        /\ si'[c].optind = r.optind + n /\ si'[c].nextchar = <<>>
        /\ si'[c].optopt = IF result.code \in {"?", ":"} /\ result.opt # NoArg THEN result.opt ELSE r.optopt
        /\ \A d \in Ctx : d # c => argv'[d] = argv[d] /\ si'[d] = si[d] /\ said'[d] = said[d]
    BY <1>1, <1>5, <1>6, Said
  <1>8. Midway(c)'
    BY <1>7 DEF Midway
  <1>9. Settled(c)'
    BY <1>1 DEF Settled
  <1>10. Named(c)'
    <2>1. SUFFICES ASSUME result.code \in {"?", ":"} PROVE Named(c)'
      BY <1>7, Zenon DEF Named
    <2>2. n = 1 /\ si'[c].optopt = NoArg /\ Useless(job[c], full, last)
      BY <1>2, <1>4, <1>6, <1>7, <2>1, Zenon
    <2>3. job[c].entry # "sgetopt"
      BY <1>3, Zenon DEF LongForm
    <2>4. WordAt(c, argv'[c], r.optind) = w /\ si'[c].optind = r.optind + 1
      BY <1>7, <2>2 DEF WordAt
    <2> HIDE DEF w
    <2>5. QED
      BY <1>4, <1>5, <1>7, <2>2, <2>3, <2>4, LongErrorNamed DEF full, last
  <1>11. QED
    BY <1>7, <1>8, <1>9, <1>10 DEF NamedAt

\* An error with a character is named by optopt.
LEMMA LetterNamed ==
  ASSUME NEW c \in Ctx, NEW ch, Typed, PrefixesApart, job' = job, si'[c].optopt = <<ch>>,
         \/ Takes(c, ch) = -1
         \/ Takes(c, ch) = 1 /\ si'[c].optind = Argc(c)
  PROVE  Named(c)'
  <1>1. <<ch>> # NoArg /\ <<ch>>[1] = ch
    BY DEF NoArg
  <1>2. ASSUME ch \in DOMAIN job[c].short
        PROVE  job[c].short[ch] = 1 /\ si'[c].optind = Argc(c)
    <2>1. Takes(c, ch) = job[c].short[ch]
      <3>1. ch # job[c].prefix
        BY <1>2, Zenon DEF PrefixesApart, Typed
      <3>2. QED
        BY <1>2, <3>1, Zenon DEF Takes
    <2>2. job[c].short[ch] \in 0 .. 2
      BY <1>2, JobIs
    <2>3. QED
      BY <2>1, <2>2
  <1>3. Argc(c)' = Argc(c)
    BY DEF Argc
  <1>4. QED
    BY <1>1, <1>2, <1>3, Zenon DEF Named

\* A call at an option character says by optopt what was wrong.
LEMMA ShortNamed ==
  ASSUME NEW c \in Ctx, RangeInv, Ranged(c), stage[c] = "Scanning", NamedAt(c), PrefixesApart,
         ShortOption(c)
  PROVE  /\ NamedAt(c)'
         /\ \A d \in Ctx : d # c => argv'[d] = argv[d] /\ si'[d] = si[d] /\ said'[d] = said[d]
  <1> DEFINE r == Reached(c)
             w == WordAt(c, r.argv, r.optind)
             t == Text(c, r)
             full == Suffix(w, Start(job[c], w))
  <1>1. /\ Typed /\ AtOption(c, r) /\ stage' = stage /\ Found(c, r, w, t)
    BY OptionSteps DEF RangeInv
  <1>2. /\ r.nextchar # <<>> => t = r.nextchar /\ r = Entered(c)
        /\ r.nextchar = <<>> => IsOption(w) /\ t = full
        /\ r.nextchar = Entered(c).nextchar
    <2>1. /\ r.nextchar # <<>> => r = Entered(c)
          /\ r.nextchar = Entered(c).nextchar
      BY <1>1, ReachedSteady
    <2>2. /\ r.nextchar # <<>> => t = r.nextchar
          /\ r.nextchar = <<>> => IsOption(w) /\ t = full
      BY <1>1, AtWord
    <2>3. QED
      BY <2>1, <2>2
  <1>3. /\ LongForm(c, w) => Meant(job[c], t) = {}
        /\ \E n, rest, code, arg :
              /\ Returns(c, r, n, rest, Result(code, <<Head(t)>>, arg))
              /\ rest # <<>> => n = 0
              /\ code \in {"?", ":"} => \/ Takes(c, Head(t)) = -1
                                        \/ Takes(c, Head(t)) = 1 /\ r.optind + n = Argc(c)
    BY <1>1, ShortSays
  <1>4. IsOption(w) /\ (LongForm(c, w) => Meant(job[c], full) = {})
    <2>1. CASE r.nextchar = <<>>
      BY <1>2, <1>3, <2>1
    <2>2. CASE r.nextchar # <<>>
      <3>1. ~Fresh(c) /\ si[c].nextchar # <<>> /\ r.argv = argv[c] /\ r.optind = si[c].optind
        BY <1>1, <1>2, <2>2, EnteredSteady DEF r
      <3>2. w = WordAt(c, argv[c], si[c].optind)
        BY <3>1
      <3> HIDE DEF w
      <3>3. QED
        BY <3>1, <3>2, Zenon DEF NamedAt, Midway
    <2>3. QED
      BY <2>1, <2>2
  <1>5. r \in Works(c) /\ r.optind \in Nat /\ 1 <= r.optind
    BY <1>1 DEF Found, Steady, Works
  <1> HIDE DEF r
  <1>6. PICK n, rest, code, arg :
              /\ Returns(c, r, n, rest, Result(code, <<Head(t)>>, arg))
              /\ rest # <<>> => n = 0
              /\ code \in {"?", ":"} => \/ Takes(c, Head(t)) = -1
                                        \/ Takes(c, Head(t)) = 1 /\ r.optind + n = Argc(c)
    BY <1>3
  <1> HIDE DEF t
  <1> DEFINE result == Result(code, <<Head(t)>>, arg)
  <1>7. result.code = code /\ result.opt = <<Head(t)>> /\ <<Head(t)>> # NoArg
    BY DEF Result, NoArg
  <1> HIDE DEF result
  <1>8. /\ argv'[c] = r.argv /\ said'[c] = result /\ job' = job
        /\ si'[c].optind = r.optind + n /\ si'[c].nextchar = rest
        /\ si'[c].optopt = IF result.code \in {"?", ":"} /\ result.opt # NoArg THEN result.opt ELSE r.optopt
        /\ \A d \in Ctx : d # c => argv'[d] = argv[d] /\ si'[d] = si[d] /\ said'[d] = said[d]
    <2>1. Returns(c, r, n, rest, result)
      BY <1>6, Zenon DEF result
    <2>2. QED
      BY <1>1, <1>5, <2>1, Said
  <1>9. Midway(c)'
    <2>1. CASE rest = <<>>
      BY <1>8, <2>1 DEF Midway
    <2>2. CASE rest # <<>>
      <3>1. si'[c].optind = r.optind /\ ~Fresh(c)'
        BY <1>5, <1>6, <1>8, <2>2 DEF Fresh
      <3>2. WordAt(c, argv[c], si[c].optind)' = w
        BY <1>8, <3>1 DEF WordAt
      <3>3. \A x : LongForm(c, x)' => LongForm(c, x)
        BY <1>8, <3>1, LongFormLater
      <3>4. \A x : x = WordAt(c, argv[c], si[c].optind)' /\ IsOption(x)
                   /\ (LongForm(c, x) => Meant(job[c], Suffix(x, Start(job[c], x))) = {})
                   => Midway(c)'
        BY <1>8, <3>3, Zenon DEF Midway
      <3> HIDE DEF w
      <3>5. QED
        BY <1>4, <3>2, <3>4, Zenon DEF full
    <2>3. QED
      BY <2>1, <2>2
  <1>10. Settled(c)'
    BY <1>1 DEF Settled
  <1>11. Named(c)'
    <2>1. CASE ~(code \in {"?", ":"})
      BY <1>7, <1>8, <2>1, Zenon DEF Named
    <2>2. CASE code \in {"?", ":"}
      <3>1. si'[c].optopt = <<Head(t)>>
        BY <1>7, <1>8, <2>2, Zenon
      <3>2. \/ Takes(c, Head(t)) = -1
            \/ Takes(c, Head(t)) = 1 /\ si'[c].optind = Argc(c)
        BY <1>6, <1>8, <2>2, Zenon
      <3>3. \A ch : si'[c].optopt = <<ch>> /\ (Takes(c, ch) = -1 \/ (Takes(c, ch) = 1 /\ si'[c].optind = Argc(c)))
                    => Named(c)'
        BY <1>1, <1>8, LetterNamed, Zenon
      <3>4. QED
        BY <3>1, <3>2, <3>3, Zenon
    <2>3. QED
      BY <2>1, <2>2
  <1>12. QED
    BY <1>8, <1>9, <1>10, <1>11 DEF NamedAt

\* Initially nothing has been said.
LEMMA NamedInit == Init => \A c \in Ctx : NamedAt(c)
  <1> SUFFICES ASSUME Init, NEW c \in Ctx PROVE NamedAt(c)
    OBVIOUS
  <1>1. said[c].code = "none" /\ si[c].nextchar = <<>> /\ stage[c] = "None"
    BY DEF Init, Nothing, Result, Zeroed
  <1>2. QED
    BY <1>1 DEF NamedAt, Midway, Settled, Named

\* One case for each operation: the calls that say nothing of an error, and the two above.
LEMMA NamedStep ==
  ASSUME RangeInv, \A c \in Ctx : NamedAt(c), [Next]_vars, PrefixesApart, Heeds("Again"), Heeds("Keep")
  PROVE  \A c \in Ctx : NamedAt(c)'
  <1>1. CASE UNCHANGED vars
    BY <1>1, NamedKept DEF vars
  <1>2. ASSUME NEW c \in Ctx, NamedAt(c)', job' = job,
               \A d \in Ctx : d # c => /\ stage'[d] = stage[d] /\ argv'[d] = argv[d]
                                       /\ si'[d] = si[d] /\ said'[d] = said[d]
        PROVE  \A d \in Ctx : NamedAt(d)'
    <2>1. ASSUME NEW d \in Ctx, d # c PROVE NamedAt(d)'
      <3>1. /\ stage'[d] = stage[d] /\ argv'[d] = argv[d] /\ si'[d] = si[d] /\ said'[d] = said[d]
            /\ NamedAt(d)
        BY <1>2, <2>1
      <3>2. QED
        BY <1>2, <3>1, NamedKept
    <2>2. QED
      BY <1>2, <2>1
  <1>3. ASSUME NEW c \in Ctx, Create(c) PROVE \A d \in Ctx : NamedAt(d)'
    <2>1. /\ stage[c] = "None" /\ stage' = [stage EXCEPT ![c] = "Scanning"] /\ job' = job
          /\ argv' = argv /\ si' = si /\ said' = said /\ si[c].nextchar = <<>> /\ said[c].code = "none"
      BY <1>3 DEF Create, RangeInv, Ranged, NamedAt, Settled
    <2>2. stage'[c] = "Scanning" /\ \A d \in Ctx : d # c => stage'[d] = stage[d]
      BY <2>1 DEF RangeInv, Typed
    <2>3. NamedAt(c)'
      BY <2>1, <2>2 DEF NamedAt, Midway, Settled, Named
    <2>4. QED
      BY <1>2, <2>1, <2>2, <2>3
  <1>4. ASSUME NEW c \in Ctx, Delete(c) PROVE \A d \in Ctx : NamedAt(d)'
    <2>1. /\ stage' = [stage EXCEPT ![c] = "None"] /\ si' = [si EXCEPT ![c] = Zeroed]
          /\ argv' = [argv EXCEPT ![c] = Given(job[c])] /\ said' = [said EXCEPT ![c] = Nothing]
          /\ job' = job
      BY <1>4 DEF Delete
    <2>2. /\ stage'[c] = "None" /\ si'[c] = Zeroed /\ said'[c] = Nothing
          /\ \A d \in Ctx : d # c => /\ stage'[d] = stage[d] /\ argv'[d] = argv[d]
                                     /\ si'[d] = si[d] /\ said'[d] = said[d]
      BY <2>1 DEF RangeInv, Typed
    <2>3. Zeroed.nextchar = <<>> /\ Nothing.code = "none"
      BY DEF Zeroed, Nothing, Result
    <2>4. NamedAt(c)'
      BY <2>2, <2>3 DEF NamedAt, Midway, Settled, Named
    <2>5. QED
      BY <1>2, <2>1, <2>2, <2>4
  <1>5. ASSUME NEW c \in Ctx, Rescan(c) PROVE \A d \in Ctx : NamedAt(d)'
    <2>1. /\ stage[c] = "Ended" /\ stage' = [stage EXCEPT ![c] = "Scanning"] /\ job' = job
          /\ si' = [si EXCEPT ![c].optind = 0] /\ argv' = argv /\ said' = said
      BY <1>5 DEF Rescan
    <2>2. /\ stage'[c] = "Scanning" /\ si'[c].nextchar = si[c].nextchar
          /\ \A d \in Ctx : d # c => stage'[d] = stage[d] /\ si'[d] = si[d]
      BY <2>1 DEF RangeInv, Typed, Contexts
    <2>3. si[c].nextchar = <<>> /\ said[c].code = "EOF"
      BY <2>1 DEF RangeInv, Ranged, NamedAt, Settled
    <2>4. NamedAt(c)'
      BY <2>1, <2>2, <2>3 DEF NamedAt, Midway, Settled, Named
    <2>5. QED
      BY <1>2, <2>1, <2>2, <2>4
  <1>6. ASSUME NEW c \in Ctx, ClearOptopt(c) PROVE \A d \in Ctx : NamedAt(d)'
    <2>1. /\ stage[c] = "Scanning" /\ si' = [si EXCEPT ![c].optopt = NoArg] /\ job' = job
          /\ argv' = argv /\ stage' = stage /\ said' = [said EXCEPT ![c] = Nothing]
      BY <1>6 DEF ClearOptopt
    <2>2. /\ si'[c].nextchar = si[c].nextchar /\ si'[c].optind = si[c].optind
          /\ said'[c] = Nothing
          /\ \A d \in Ctx : d # c => said'[d] = said[d] /\ si'[d] = si[d]
      BY <2>1 DEF RangeInv, Typed, Contexts
    <2>3. Midway(c)'
      <3>1. Fresh(c)' = Fresh(c) /\ \A ch : Known(c, ch)' = Known(c, ch)
        BY <2>1, <2>2 DEF Fresh, Known
      <3>2. /\ \A w : LongForm(c, w)' = LongForm(c, w)
            /\ WordAt(c, argv[c], si[c].optind)' = WordAt(c, argv[c], si[c].optind)
        BY <2>1, <2>2, <3>1 DEF LongForm, WordAt
      <3>3. Midway(c)
        BY DEF NamedAt
      <3>4. QED
        BY <2>1, <2>2, <3>2, <3>3 DEF Midway
    <2>4. Settled(c)' /\ Named(c)'
      BY <2>1, <2>2 DEF Settled, Named, Nothing, Result
    <2>5. QED
      BY <1>2, <2>1, <2>2, <2>3, <2>4 DEF NamedAt
  <1>7. ASSUME NEW c \in Ctx, EndOfScan(c) PROVE \A d \in Ctx : NamedAt(d)'
    <2> DEFINE r == Reached(c)
    <2>1. Typed /\ Ranged(c) /\ stage[c] = "Scanning"
      BY <1>7, CallingScans DEF EndOfScan
    <2>2. PICK e, opt :
            /\ stage' = [stage EXCEPT ![c] = "Ended"]
            /\ said' = [said EXCEPT ![c] = Result("EOF", NoArg, NoArg)]
            /\ Steps(c, e, 0, <<>>, opt)
      BY <1>7, <2>1, EndSteps, Zenon
    <2>3. /\ stage'[c] = "Ended" /\ said'[c].code = "EOF" /\ job' = job
          /\ \A d \in Ctx : d # c => stage'[d] = stage[d] /\ said'[d] = said[d]
      BY <2>1, <2>2 DEF Typed, Result, Steps
    <2>4. /\ si'[c].nextchar = <<>>
          /\ \A d \in Ctx : d # c => argv'[d] = argv[d] /\ si'[d] = si[d]
      BY <2>1, <2>2 DEF Typed, Steps
    <2>5. NamedAt(c)'
      BY <2>3, <2>4 DEF NamedAt, Midway, Settled, Named
    <2>6. QED
      BY <1>2, <2>3, <2>4, <2>5
  <1>8. ASSUME NEW c \in Ctx, NonOption(c) PROVE \A d \in Ctx : NamedAt(d)'
    <2> DEFINE r == Reached(c)
               result == Result("operand", NoArg, WordAt(c, r.argv, r.optind))
    <2>1. Typed /\ Ranged(c) /\ stage[c] = "Scanning"
      BY <1>8, CallingScans DEF NonOption
    <2>2. ~AtOption(c, r) /\ stage' = stage /\ Returns(c, r, 1, r.nextchar, result)
      BY <1>8, Zenon DEF NonOption
    <2>3. r.nextchar = <<>> /\ r \in Works(c)
      BY <2>1, <2>2, ReachedSteady DEF AtOption, Steady
    <2>4. result.code = "operand"
      BY DEF Result
    <2> HIDE DEF r, result
    <2>5. /\ said'[c] = result /\ job' = job /\ si'[c].nextchar = <<>>
          /\ \A d \in Ctx : d # c => argv'[d] = argv[d] /\ si'[d] = si[d] /\ said'[d] = said[d]
      BY <2>1, <2>2, <2>3, Said
    <2>6. NamedAt(c)'
      BY <2>1, <2>2, <2>4, <2>5 DEF NamedAt, Midway, Settled, Named
    <2>7. QED
      BY <1>2, <2>2, <2>5, <2>6
  <1>9. ASSUME NEW c \in Ctx, LongOption(c) PROVE \A d \in Ctx : NamedAt(d)'
    <2>1. Typed /\ Ranged(c) /\ stage[c] = "Scanning" /\ si[c].optopt = NoArg
      BY <1>9, CallingScans DEF LongOption, Calling
    <2>2. stage' = stage /\ job' = job
      BY <1>9 DEF LongOption, Refuses, Returns
    <2>3. QED
      BY <1>2, <1>9, <2>1, <2>2, LongNamed
  <1>10. ASSUME NEW c \in Ctx, ShortOption(c) PROVE \A d \in Ctx : NamedAt(d)'
    <2>1. Typed /\ Ranged(c) /\ stage[c] = "Scanning"
      BY <1>10, CallingScans DEF ShortOption
    <2>2. stage' = stage /\ job' = job
      BY <1>10 DEF ShortOption, Returns
    <2>3. QED
      BY <1>2, <1>10, <2>1, <2>2, ShortNamed
  <1>11. QED
    BY <1>1, <1>3, <1>4, <1>5, <1>6, <1>7, <1>8, <1>9, <1>10 DEF Next

\* After an error the caller can tell what was wrong, for every caller that heeds
\* EOF and clears optopt, unless the prefix of its optstring is an option too.
THEOREM ErrorsNamed ==
  Heeds("Again") /\ Heeds("Keep") /\ PrefixesApart => (Spec => []ErrorNamed)
  <1> SUFFICES ASSUME Heeds("Again"), Heeds("Keep"), PrefixesApart PROVE Spec => []ErrorNamed
    OBVIOUS
  <1> DEFINE Inv == RangeInv /\ \A c \in Ctx : NamedAt(c)
  <1>1. Init => Inv
    BY RangeInit, NamedInit
  <1>2. Inv /\ [Next]_vars => Inv'
    BY RangeStep, NamedStep, Zenon
  <1>3. Inv => ErrorNamed
    BY Zenon DEF NamedAt, Named, ErrorNamed
  <1>4. QED
    BY <1>1, <1>2, <1>3, PTL DEF Spec

\* How a job reads a word when no prefix is asked for.
Colons(j, ch) == IF ch \in DOMAIN j.short THEN j.short[ch] ELSE -1
LongWord(j, w) ==
  \/ j.entry # "sgetopt" /\ w[2] = "-"
  \/ j.entry = "long_only" /\ (Len(w) > 2 \/ ~InOptstring(j, w[2]))
LongOnly(j, w, t) == j.entry # "long_only" \/ w[2] = "-" \/ ~InOptstring(j, Head(t))
LongText(j, w, t) == LongWord(j, w) /\ ~(Meant(j, t) = {} /\ ~LongOnly(j, w, t))
Wants(j, w, t) ==
  IF LongText(j, w, t) THEN \E p : Meant(j, t) = {p} /\ ~HasValue(t) /\ p.has_arg
  ELSE Colons(j, Head(t)) = 1 /\ Tail(t) = <<>>
Goes(j, w, t) == ~LongText(j, w, t) /\ Colons(j, Head(t)) <= 0 /\ Tail(t) # <<>>

\* The characters of a word before the k-th are option characters, and those that
\* come last want the next word.
ReadTo(j, w, k) == \A i \in Start(j, w) .. k - 1 : Goes(j, w, Suffix(w, i))
Wanted(j, w) == \E k \in Start(j, w) .. Len(w) : ReadTo(j, w, k) /\ Wants(j, w, Suffix(w, k))

Opens(w) == IsOption(w) /\ w # Terminator
Wd(j, a, i) == j.words[a[i]]

\* Of the first o words, those from f to l are operands passed over, and the
\* others have been read in the order given, one option after the other, which
\* start at the places B.
KeptAt(a, f, l, i) == IF i < f THEN a[i] ELSE a[i + (l - f)]
Kept(f, l, o) == o - (l - f)

Untouched(N, a, o) == \A i \in o .. N - 1 : a[i] = i + 1
Below(a, o) == \A i \in 0 .. o - 1 : a[i] <= o
KeptInOrder(a, f, l, o) ==
  \A i, k \in 0 .. Kept(f, l, o) - 1 : i < k => KeptAt(a, f, l, i) < KeptAt(a, f, l, k)
Operands(j, a, f, l) == \A i \in f .. l - 1 : ~IsOption(Wd(j, a, i))
OptionAt(j, w, n, last, B, i) ==
  Opens(w) /\ IF Wanted(j, w) THEN i + 2 \in B \/ (i + 1 = n /\ last) ELSE i + 1 \in B
Parsed(j, N, a, f, l, o, B) ==
  /\ B \subseteq 1 .. Kept(f, l, o) /\ 1 \in B /\ Kept(f, l, o) \in B
  /\ \A i \in B : i < Kept(f, l, o) =>
       OptionAt(j, j.words[KeptAt(a, f, l, i)], Kept(f, l, o), o = N, B, i)

Shape(j, N, a, f, l, o) ==
  /\ N \in Nat /\ a \in Cells(N, 1 .. N) /\ f \in Nat /\ l \in Nat /\ o \in Nat
  /\ 1 <= f /\ f <= l /\ l <= o /\ o <= N
Arranged(j, N, a, f, l, o) ==
  /\ Untouched(N, a, o) /\ Below(a, o) /\ KeptInOrder(a, f, l, o)
  /\ InOrder(a, f, l - 1) /\ Operands(j, a, f, l)
  /\ \E B : Parsed(j, N, a, f, l, o, B)

\* The cells of an array that has been rotated.
LEMMA RotCell ==
  ASSUME NEW N \in Nat, NEW S, NEW a \in Cells(N, S), NEW b \in Nat, NEW m \in Nat, NEW t \in Nat,
         b <= m, m <= t, t <= N, NEW i \in 0 .. N - 1
  PROVE  /\ i < b => Rot(a, b, m, t)[i] = a[i]
         /\ b <= i /\ i < b + (t - m) => Rot(a, b, m, t)[i] = a[i + (m - b)]
         /\ b + (t - m) <= i /\ i < t => Rot(a, b, m, t)[i] = a[i - (t - m)]
         /\ t <= i => Rot(a, b, m, t)[i] = a[i]
  <1>1. Rot(a, b, m, t)[i] = IF i \in b .. b + (t - m) - 1 THEN a[i + (m - b)]
                             ELSE IF i \in b + (t - m) .. t - 1 THEN a[i - (t - m)] ELSE a[i]
    BY DEF Rot, Cells
  <1>2. QED
    BY <1>1

\* A rotation moves words about, and changes none.
LEMMA RotWithin ==
  ASSUME NEW N \in Nat, NEW S, NEW a \in Cells(N, S), NEW b \in Nat, NEW m \in Nat, NEW t \in Nat,
         b <= m, m <= t, t <= N
  PROVE  Rot(a, b, m, t) \in Cells(N, S)
  <1>1. ASSUME NEW i \in 0 .. N - 1 PROVE Rot(a, b, m, t)[i] \in S
    <2>1. CASE i < b \/ t <= i
      <3>1. Rot(a, b, m, t)[i] = a[i]
        BY <2>1, RotCell
      <3>2. QED
        BY <3>1 DEF Cells
    <2>2. CASE b <= i /\ i < b + (t - m)
      <3>1. i + (m - b) \in 0 .. N - 1
        BY <2>2
      <3>2. Rot(a, b, m, t)[i] = a[i + (m - b)]
        BY <2>2, RotCell
      <3>3. QED
        BY <3>1, <3>2 DEF Cells
    <2>3. CASE b + (t - m) <= i /\ i < t
      <3>1. i - (t - m) \in 0 .. N - 1 /\ Rot(a, b, m, t)[i] = a[i - (t - m)]
        BY <2>3, RotCell
      <3>2. QED
        BY <3>1 DEF Cells
    <2>4. QED
      BY <2>1, <2>2, <2>3
  <1>2. Rot(a, b, m, t) = [i \in 0 .. N - 1 |-> Rot(a, b, m, t)[i]]
    BY DEF Rot, Cells
  <1>3. QED
    BY <1>1, <1>2 DEF Cells

IsRot(b, a, f, l, o) == b = Rot(a, f, l, o)
IsKept(g, f, l, o) == g = Kept(f, l, o)

\* Passing over operands takes those skipped before behind the options since.
LEMMA PassedArranged ==
  ASSUME NEW j, NEW N, NEW a, NEW f, NEW l, NEW o, Shape(j, N, a, f, l, o), Arranged(j, N, a, f, l, o),
         NEW q \in Nat, o <= q, q <= N, NEW b, IsRot(b, a, f, l, o), NEW g, IsKept(g, f, l, o),
         \A i \in o .. q - 1 : ~IsOption(Wd(j, b, i))
  PROVE  Shape(j, N, b, g, q, q) /\ Arranged(j, N, b, g, q, q)
  <1>1. /\ N \in Nat /\ a \in Cells(N, 1 .. N) /\ f \in Nat /\ l \in Nat /\ o \in Nat
        /\ 1 <= f /\ f <= l /\ l <= o /\ o <= N
    BY DEF Shape
  <1>2. b \in Cells(N, 1 .. N)
    BY <1>1, RotWithin DEF IsRot
  <1>3. /\ g \in Nat /\ 1 <= g /\ g <= q /\ f <= g /\ g <= o
        /\ g = f + (o - l) /\ Kept(g, q, q) = g /\ Kept(f, l, o) = g
    BY <1>1 DEF Kept, IsKept
  <1>4. Shape(j, N, b, g, q, q)
    BY <1>1, <1>2, <1>3 DEF Shape
  <1>5. ASSUME NEW i \in 0 .. N - 1
        PROVE  /\ i < f => b[i] = a[i]
               /\ f <= i /\ i < g => b[i] = a[i + (l - f)]
               /\ g <= i /\ i < o => b[i] = a[i - (o - l)]
               /\ o <= i => b[i] = a[i]
    <2>1. /\ i < f => b[i] = a[i]
          /\ f <= i /\ i < f + (o - l) => b[i] = a[i + (l - f)]
          /\ f + (o - l) <= i /\ i < o => b[i] = a[i - (o - l)]
          /\ o <= i => b[i] = a[i]
      BY <1>1, RotCell DEF IsRot
    <2>2. QED
      BY <1>1, <1>3, <2>1
  <1>6. ASSUME NEW i \in 0 .. g - 1
        PROVE  b[i] = KeptAt(a, f, l, i) /\ KeptAt(b, g, q, i) = b[i]
    <2>1. i \in 0 .. N - 1 /\ i \in Nat /\ i < g
      BY <1>1, <1>3
    <2>2. /\ i < f => b[i] = a[i]
          /\ f <= i => b[i] = a[i + (l - f)]
      BY <1>5, <2>1
    <2>3. KeptAt(b, g, q, i) = b[i]
      BY <2>1 DEF KeptAt
    <2>4. i < f \/ f <= i
      BY <1>1, <2>1
    <2>5. b[i] = KeptAt(a, f, l, i)
      BY <1>1, <2>1, <2>2 DEF KeptAt
    <2>6. QED
      BY <2>3, <2>5
  <1>7. \A i \in 0 .. N - 1 : a[i] \in 1 .. N
    BY <1>1 DEF Cells
  <1>8. Untouched(N, a, o) /\ Below(a, o) /\ KeptInOrder(a, f, l, o) /\ InOrder(a, f, l - 1) /\ Operands(j, a, f, l)
    BY DEF Arranged
  <1>9. ASSUME NEW i \in o .. N - 1 PROVE b[i] = i + 1
    <2>1. a[i] = i + 1 /\ i \in 0 .. N - 1
      BY <1>1, <1>8 DEF Untouched
    <2>2. QED
      BY <1>1, <1>5, <2>1
  <1>10. Untouched(N, b, q)
    BY <1>1, <1>9 DEF Untouched
  <1>11. ASSUME NEW i \in 0 .. o - 1 PROVE b[i] <= o /\ b[i] \in Nat
    <2>1. PICK k \in 0 .. o - 1 : b[i] = a[k]
      <3>1. i \in 0 .. N - 1 /\ i \in Nat /\ i < o
        BY <1>1
      <3>2. CASE i < f
        BY <1>5, <3>1, <3>2
      <3>3. CASE f <= i /\ i < g
        <4>1. i + (l - f) \in 0 .. o - 1
          BY <1>1, <1>3, <3>1, <3>3
        <4>2. QED
          BY <1>5, <3>1, <3>3, <4>1
      <3>4. CASE g <= i
        <4>1. i - (o - l) \in 0 .. o - 1
          BY <1>1, <1>3, <3>1, <3>4
        <4>2. b[i] = a[i - (o - l)]
          BY <1>5, <3>1, <3>4
        <4>3. QED
          BY <4>1, <4>2
      <3>5. i < f \/ (f <= i /\ i < g) \/ g <= i
        BY <1>1, <1>3, <3>1
      <3>6. QED
        BY <3>2, <3>3, <3>4, <3>5
    <2>2. a[k] <= o /\ a[k] \in Nat
      BY <1>1, <1>7, <1>8 DEF Below
    <2>3. QED
      BY <2>1, <2>2
  <1>12. Below(b, q)
    <2>1. SUFFICES ASSUME NEW i \in 0 .. q - 1 PROVE b[i] <= q
      BY DEF Below
    <2>2. CASE i < o
      BY <1>1, <1>11, <2>2
    <2>3. CASE o <= i
      BY <1>1, <1>9, <2>3
    <2>4. QED
      BY <1>1, <2>2, <2>3
  <1>13. KeptInOrder(b, g, q, q)
    BY <1>3, <1>6, <1>8 DEF KeptInOrder
  <1>14. ASSUME NEW i \in g .. o - 1
         PROVE  i - (o - l) \in f .. l - 1 /\ b[i] = a[i - (o - l)]
    <2>1. i \in 0 .. N - 1 /\ g <= i /\ i < o
      BY <1>1, <1>3
    <2>2. i - (o - l) \in f .. l - 1
      BY <1>1, <1>3, <2>1
    <2>3. b[i] = a[i - (o - l)]
      BY <1>5, <2>1
    <2>4. QED
      BY <2>2, <2>3
  <1>15. InOrder(b, g, q - 1)
    <2>1. SUFFICES ASSUME NEW i \in g .. q - 1, NEW k \in g .. q - 1, i < k PROVE b[i] < b[k]
      BY DEF InOrder
    <2>2. CASE k < o
      <3>1. i \in g .. o - 1 /\ k \in g .. o - 1 /\ i - (o - l) < k - (o - l)
        BY <1>1, <1>3, <2>1, <2>2
      <3>2. a[i - (o - l)] < a[k - (o - l)]
        BY <1>8, <1>14, <3>1 DEF InOrder
      <3>3. QED
        BY <1>14, <3>1, <3>2
    <2>3. CASE i < o /\ o <= k
      <3>1. b[i] <= o /\ b[i] \in Nat
        BY <1>1, <1>3, <1>11, <2>3
      <3>2. b[k] = k + 1
        BY <1>1, <1>9, <2>3
      <3>3. QED
        BY <1>1, <2>3, <3>1, <3>2
    <2>4. CASE o <= i
      <3>1. b[i] = i + 1 /\ b[k] = k + 1
        BY <1>1, <1>9, <2>1, <2>4
      <3>2. QED
        BY <1>1, <2>1, <3>1
    <2>5. QED
      BY <1>1, <1>3, <2>2, <2>3, <2>4
  <1>16. Operands(j, b, g, q)
    <2>1. SUFFICES ASSUME NEW i \in g .. q - 1 PROVE ~IsOption(Wd(j, b, i))
      BY DEF Operands
    <2>2. CASE i < o
      <3>1. i - (o - l) \in f .. l - 1 /\ b[i] = a[i - (o - l)]
        BY <1>1, <1>3, <1>14, <2>2
      <3>2. QED
        BY <1>8, <3>1 DEF Operands, Wd
    <2>3. CASE o <= i
      BY <1>1, <1>3, <2>3
    <2>4. QED
      BY <1>1, <1>3, <2>2, <2>3
  <1>17. PICK B : Parsed(j, N, a, f, l, o, B)
    BY DEF Arranged
  <1>18. Parsed(j, N, b, g, q, q, B)
    <2>1. B \subseteq 1 .. g /\ 1 \in B /\ g \in B
      BY <1>3, <1>17 DEF Parsed
    <2>2. ASSUME NEW i \in B, i < g
          PROVE  OptionAt(j, j.words[KeptAt(b, g, q, i)], g, q = N, B, i)
      <3>1. i \in 0 .. g - 1
        BY <1>3, <2>1, <2>2
      <3>2. OptionAt(j, j.words[KeptAt(a, f, l, i)], g, o = N, B, i)
        BY <1>3, <1>17, <2>2 DEF Parsed
      <3>3. KeptAt(a, f, l, i) = KeptAt(b, g, q, i)
        BY <1>6, <3>1
      <3>4. o = N => q = N
        BY <1>1
      <3>5. QED
        BY <3>2, <3>3, <3>4, Zenon DEF OptionAt
    <2>3. QED
      BY <1>3, <2>1, <2>2 DEF Parsed
  <1>19. QED
    BY <1>3, <1>4, <1>8, <1>10, <1>12, <1>13, <1>15, <1>16, <1>18 DEF Arranged

\* An option is read at the o-th word, with the next word for its argument or not.
LEMMA ReadArranged ==
  ASSUME NEW j, NEW N, NEW a, NEW f, NEW l, NEW o, Shape(j, N, a, f, l, o), Arranged(j, N, a, f, l, o),
         NEW m \in 1 .. 2, o + m <= N, Opens(Wd(j, a, o)),
         m = 1 => (Wanted(j, Wd(j, a, o)) => o + 1 = N), m = 2 => Wanted(j, Wd(j, a, o))
  PROVE  Shape(j, N, a, f, l, o + m) /\ Arranged(j, N, a, f, l, o + m)
  <1> DEFINE n == Kept(f, l, o)
             w == Wd(j, a, o)
  <1>1. /\ N \in Nat /\ a \in Cells(N, 1 .. N) /\ f \in Nat /\ l \in Nat /\ o \in Nat
        /\ 1 <= f /\ f <= l /\ l <= o /\ o + m <= N /\ o < N
    BY DEF Shape
  <1>2. /\ n \in Nat /\ f <= n /\ n <= o /\ Kept(f, l, o + m) = n + m /\ n + (l - f) = o
    BY <1>1 DEF Kept
  <1>3. Shape(j, N, a, f, l, o + m)
    BY <1>1 DEF Shape
  <1>4. Untouched(N, a, o) /\ Below(a, o) /\ KeptInOrder(a, f, l, o) /\ InOrder(a, f, l - 1) /\ Operands(j, a, f, l)
    BY DEF Arranged
  <1>5. Untouched(N, a, o + m)
    BY <1>1, <1>4 DEF Untouched
  <1>6. \A i \in 0 .. N - 1 : a[i] \in 1 .. N
    BY <1>1 DEF Cells
  <1>7. ASSUME NEW i \in o .. o + m - 1 PROVE a[i] = i + 1
    <2>1. i \in o .. N - 1
      BY <1>1
    <2>2. QED
      BY <1>4, <2>1 DEF Untouched
  <1>8. ASSUME NEW i \in 0 .. o + m - 1 PROVE a[i] <= o + m
    <2>1. CASE i < o
      <3>1. i \in 0 .. o - 1 /\ i \in 0 .. N - 1
        BY <1>1, <2>1
      <3>2. a[i] <= o /\ a[i] \in Nat
        BY <1>4, <1>6, <3>1 DEF Below
      <3>3. QED
        BY <1>1, <3>2
    <2>2. CASE o <= i
      BY <1>1, <1>7, <2>2
    <2>3. QED
      BY <1>1, <2>1, <2>2
  <1>9. ASSUME NEW i \in 0 .. n - 1 PROVE KeptAt(a, f, l, i) \in Nat /\ KeptAt(a, f, l, i) <= o
    <2>1. i \in Nat /\ i < n
      BY <1>2
    <2>2. CASE i < f
      <3>1. i \in 0 .. o - 1 /\ i \in 0 .. N - 1
        BY <1>1, <1>2, <2>1
      <3>2. a[i] <= o /\ a[i] \in Nat
        BY <1>4, <1>6, <3>1 DEF Below
      <3>3. QED
        BY <2>2, <3>2 DEF KeptAt
    <2>3. CASE ~(i < f)
      <3>1. i + (l - f) \in 0 .. o - 1 /\ i + (l - f) \in 0 .. N - 1
        BY <1>1, <1>2, <2>1, <2>3
      <3>2. a[i + (l - f)] <= o /\ a[i + (l - f)] \in Nat
        BY <1>4, <1>6, <3>1 DEF Below
      <3>3. QED
        BY <2>3, <3>2 DEF KeptAt
    <2>4. QED
      BY <2>2, <2>3
  <1>10. ASSUME NEW i \in n .. n + m - 1 PROVE KeptAt(a, f, l, i) = a[i + (l - f)] /\ a[i + (l - f)] = i + (l - f) + 1
    <2>1. i \in Nat /\ ~(i < f) /\ i + (l - f) \in o .. o + m - 1
      BY <1>1, <1>2
    <2>2. QED
      BY <1>7, <2>1 DEF KeptAt
  <1> HIDE DEF n, w
  <1>11. KeptInOrder(a, f, l, o + m)
    <2>1. SUFFICES ASSUME NEW i \in 0 .. n + m - 1, NEW k \in 0 .. n + m - 1, i < k
                   PROVE  KeptAt(a, f, l, i) < KeptAt(a, f, l, k)
      BY <1>2 DEF KeptInOrder
    <2>2. CASE k < n
      <3>1. i \in 0 .. n - 1 /\ k \in 0 .. n - 1
        BY <1>2, <2>1, <2>2
      <3>2. QED
        BY <1>4, <2>1, <3>1 DEF KeptInOrder, n
    <2>3. CASE i < n /\ n <= k
      <3>1. i \in 0 .. n - 1 /\ k \in n .. n + m - 1
        BY <1>2, <2>1, <2>3
      <3>2. KeptAt(a, f, l, i) \in Nat /\ KeptAt(a, f, l, i) <= o
        BY <1>9, <3>1
      <3>3. KeptAt(a, f, l, k) = k + (l - f) + 1
        BY <1>10, <3>1
      <3>4. QED
        BY <1>1, <1>2, <3>1, <3>2, <3>3
    <2>4. CASE n <= i
      <3>1. i \in n .. n + m - 1 /\ k \in n .. n + m - 1
        BY <1>2, <2>1, <2>4
      <3>2. KeptAt(a, f, l, i) = i + (l - f) + 1 /\ KeptAt(a, f, l, k) = k + (l - f) + 1
        BY <1>10, <3>1
      <3>3. QED
        BY <1>1, <2>1, <3>1, <3>2
    <2>5. QED
      BY <1>2, <2>2, <2>3, <2>4
  <1>12. PICK B : Parsed(j, N, a, f, l, o, B)
    BY DEF Arranged
  <1>13. /\ B \subseteq 1 .. n /\ 1 \in B /\ n \in B
         /\ \A i \in B : i < n => OptionAt(j, j.words[KeptAt(a, f, l, i)], n, o = N, B, i)
    BY <1>12, Zenon DEF Parsed, n
  <1> DEFINE C == B \cup {n + m}
  <1>14. Parsed(j, N, a, f, l, o + m, C)
    <2>1. C \subseteq 1 .. n + m /\ 1 \in C /\ n + m \in C
      BY <1>2, <1>13
    <2>2. ASSUME NEW i \in C, i < n + m
          PROVE  OptionAt(j, j.words[KeptAt(a, f, l, i)], n + m, o + m = N, C, i)
      <3> HIDE DEF C
      <3>1. i \in B /\ i <= n /\ i \in Nat
        BY <1>2, <1>13, <2>1, <2>2 DEF C
      <3>2. \A k : k \in B => k \in C
        BY DEF C
      <3>3. CASE i < n
        <4>1. OptionAt(j, j.words[KeptAt(a, f, l, i)], n, o = N, B, i)
          BY <1>13, <3>1, <3>3
        <4>2. o # N
          BY <1>1
        <4>3. QED
          BY <3>2, <4>1, <4>2, Zenon DEF OptionAt
      <3>4. CASE i = n
        <4>1. n \in n .. n + m - 1
          BY <1>2
        <4>2. KeptAt(a, f, l, n) = a[o]
          BY <1>2, <1>10, <4>1
        <4>3. j.words[KeptAt(a, f, l, i)] = w
          BY <3>4, <4>2 DEF w, Wd
        <4>4. n + m \in C
          BY DEF C
        <4>5. Opens(w) /\ (m = 1 => (Wanted(j, w) => o + 1 = N)) /\ (m = 2 => Wanted(j, w))
          BY DEF w
        <4>6. CASE m = 1
          <5>1. Wanted(j, w) => o + m = N /\ i + 1 = n + m
            BY <3>4, <4>5, <4>6
          <5>2. i + 1 \in C
            BY <3>4, <4>4, <4>6
          <5>3. QED
            BY <4>3, <4>5, <5>1, <5>2, Zenon DEF OptionAt
        <4>7. CASE m = 2
          <5>1. i + 2 \in C
            BY <3>4, <4>4, <4>7
          <5>2. QED
            BY <4>3, <4>5, <4>7, <5>1, Zenon DEF OptionAt
        <4>8. QED
          BY <4>6, <4>7
      <3>5. QED
        BY <1>2, <3>1, <3>3, <3>4
    <2>3. Kept(f, l, o + m) = n + m
      BY <1>2 DEF n
    <2> HIDE DEF C
    <2>4. QED
      BY <2>1, <2>2, <2>3, Zenon DEF Parsed
  <1>15. Below(a, o + m)
    BY <1>1, <1>8 DEF Below
  <1>16. QED
    BY <1>3, <1>4, <1>5, <1>11, <1>14, <1>15, Zenon DEF Arranged

\* From i on there are operands only.  A line is safe to scan again when from each
\* of the places S the scan comes to another one, to the terminator, or to operands.
Calm(j, N, a, i) == \A k \in i .. N - 1 : ~IsOption(Wd(j, a, k))
SafeAt(j, N, a, S, i) ==
  \/ Calm(j, N, a, i)
  \/ i < N /\ Wd(j, a, i) = Terminator
  \/ /\ i < N /\ Opens(Wd(j, a, i))
     /\ IF Wanted(j, Wd(j, a, i)) THEN i + 1 = N \/ i + 2 \in S ELSE i + 1 \in S
Safe(j, N, a, S) == S \subseteq 1 .. N /\ 1 \in S /\ \A i \in S : SafeAt(j, N, a, S, i)

Halves(N, a, at) == InOrder(a, 0, at - 1) /\ InOrder(a, at, N - 1)

\* A line that is given is arranged, with the name of the program read.
LEMMA GivenArranged ==
  ASSUME NEW j, NEW N \in Nat, 1 <= N, NEW a \in Cells(N, 1 .. N), \A i \in 0 .. N - 1 : a[i] = i + 1
  PROVE  Shape(j, N, a, 1, 1, 1) /\ Arranged(j, N, a, 1, 1, 1)
  <1>1. Shape(j, N, a, 1, 1, 1)
    BY DEF Shape
  <1>2. Untouched(N, a, 1) /\ Below(a, 1) /\ KeptInOrder(a, 1, 1, 1) /\ InOrder(a, 1, 0) /\ Operands(j, a, 1, 1)
    BY DEF Untouched, Below, KeptInOrder, InOrder, Operands, Kept
  <1>3. Parsed(j, N, a, 1, 1, 1, {1})
    BY DEF Parsed, Kept
  <1>4. InOrder(a, 1, 1 - 1)
    BY <1>2
  <1>5. QED
    BY <1>1, <1>2, <1>3, <1>4, Zenon DEF Arranged

\* The end is reached behind operands that have been passed over.
LEMMA EndArranged ==
  ASSUME NEW j, NEW N, NEW a, NEW f, Shape(j, N, a, f, N, N), Arranged(j, N, a, f, N, N)
  PROVE  Halves(N, a, f) /\ \E S : Safe(j, N, a, S)
  <1>1. N \in Nat /\ f \in Nat /\ 1 <= f /\ f <= N /\ Kept(f, N, N) = f
    BY DEF Shape, Kept
  <1>2. KeptInOrder(a, f, N, N) /\ InOrder(a, f, N - 1) /\ Operands(j, a, f, N)
    BY DEF Arranged
  <1>3. \A i \in 0 .. f - 1 : KeptAt(a, f, N, i) = a[i]
    BY <1>1 DEF KeptAt
  <1>4. InOrder(a, 0, f - 1)
    BY <1>1, <1>2, <1>3 DEF KeptInOrder, InOrder
  <1>5. PICK B : Parsed(j, N, a, f, N, N, B)
    BY DEF Arranged
  <1>6. /\ B \subseteq 1 .. f /\ 1 \in B /\ f \in B
        /\ \A i \in B : i < f => OptionAt(j, j.words[KeptAt(a, f, N, i)], f, TRUE, B, i)
    BY <1>1, <1>5, Zenon DEF Parsed
  <1> DEFINE S == B \cup f .. N
  <1>7. S \subseteq 1 .. N /\ 1 \in S
    BY <1>1, <1>6
  <1>8. ASSUME NEW i \in S PROVE SafeAt(j, N, a, S, i)
    <2>1. CASE f <= i
      <3>1. Calm(j, N, a, i)
        BY <1>1, <1>2, <1>7, <2>1 DEF Calm, Operands
      <3>2. QED
        BY <3>1 DEF SafeAt
    <2>2. CASE i < f
      <3>1. i \in B /\ i \in Nat /\ i < N /\ i \in 0 .. f - 1
        BY <1>1, <1>7, <2>2
      <3>2. OptionAt(j, Wd(j, a, i), f, TRUE, B, i)
        BY <1>3, <1>6, <2>2, <3>1 DEF Wd
      <3>3. Opens(Wd(j, a, i)) /\ IF Wanted(j, Wd(j, a, i)) THEN i + 2 \in B \/ i + 1 = f ELSE i + 1 \in B
        BY <3>2, Zenon DEF OptionAt
      <3>4. i + 2 \in B \/ i + 1 = f => i + 1 = N \/ i + 2 \in S
        BY <1>1, <3>1
      <3>5. i + 1 \in B => i + 1 \in S
        OBVIOUS
      <3> HIDE DEF S
      <3>6. QED
        BY <3>1, <3>3, <3>4, <3>5, Zenon DEF SafeAt
    <2>3. QED
      BY <1>1, <1>7, <2>1, <2>2
  <1> HIDE DEF S
  <1>9. Safe(j, N, a, S)
    BY <1>7, <1>8 DEF Safe
  <1>10. QED
    BY <1>2, <1>4, <1>9 DEF Halves

\* Or at the terminator, which goes before them.
LEMMA EndTerminated ==
  ASSUME NEW j, NEW N, NEW a, NEW f, NEW q, Shape(j, N, a, f, q, q), Arranged(j, N, a, f, q, q),
         q < N, Wd(j, a, q) = Terminator, NEW b, IsRot(b, a, f, q, q + 1)
  PROVE  Halves(N, b, f + 1) /\ \E S : Safe(j, N, b, S)
  <1>1. /\ N \in Nat /\ f \in Nat /\ q \in Nat /\ 1 <= f /\ f <= q /\ Kept(f, q, q) = f
        /\ a \in Cells(N, 1 .. N)
    BY DEF Shape, Kept
  <1>2. Untouched(N, a, q) /\ Below(a, q) /\ KeptInOrder(a, f, q, q) /\ InOrder(a, f, q - 1)
    BY DEF Arranged
  <1>3. ASSUME NEW i \in 0 .. N - 1
        PROVE  /\ i < f => b[i] = a[i]
               /\ i = f => b[i] = q + 1
               /\ f < i /\ i <= q => b[i] = a[i - 1]
               /\ q < i => b[i] = i + 1
    <2>1. /\ i < f => b[i] = a[i]
          /\ f <= i /\ i < f + ((q + 1) - q) => b[i] = a[i + (q - f)]
          /\ f + ((q + 1) - q) <= i /\ i < q + 1 => b[i] = a[i - ((q + 1) - q)]
          /\ q + 1 <= i => b[i] = a[i]
      <3>1. q + 1 \in Nat /\ f <= q /\ q <= q + 1 /\ q + 1 <= N
        BY <1>1
      <3>2. QED
        BY <1>1, <3>1, RotCell DEF IsRot
    <2>2. a[q] = q + 1 /\ (q < i => a[i] = i + 1)
      BY <1>1, <1>2 DEF Untouched
    <2>3. i = f => b[i] = q + 1
      <3>1. i = f => i + (q - f) = q /\ i < f + ((q + 1) - q)
        BY <1>1
      <3>2. QED
        BY <1>1, <2>1, <2>2, <3>1
    <2>4. f < i /\ i <= q => b[i] = a[i - 1]
      <3>1. f < i /\ i <= q => f + ((q + 1) - q) <= i /\ i < q + 1 /\ i - ((q + 1) - q) = i - 1
        BY <1>1
      <3>2. QED
        BY <2>1, <3>1
    <2>5. q < i => b[i] = i + 1
      BY <1>1, <2>1, <2>2
    <2>6. QED
      BY <2>1, <2>3, <2>4, <2>5
  <1>4. \A i \in 0 .. N - 1 : a[i] \in 1 .. N
    BY <1>1 DEF Cells
  <1>5. \A i \in 0 .. q - 1 : a[i] \in Nat /\ a[i] <= q
    BY <1>1, <1>2, <1>4 DEF Below
  <1>6. \A i \in 0 .. f - 1 : KeptAt(a, f, q, i) = a[i]
    BY <1>1 DEF KeptAt
  <1>7. InOrder(b, 0, (f + 1) - 1)
    <2>1. ASSUME NEW i \in 0 .. f, NEW k \in 0 .. f, i < k PROVE b[i] < b[k]
      <3>1. i \in 0 .. f - 1 /\ i \in 0 .. N - 1 /\ k \in 0 .. N - 1 /\ i \in 0 .. q - 1 /\ i < f
        BY <1>1, <2>1
      <3>2. b[i] = a[i]
        BY <1>3, <3>1
      <3>3. CASE k = f
        BY <1>1, <1>3, <1>5, <3>1, <3>2, <3>3
      <3>4. CASE k < f
        <4>1. k \in 0 .. f - 1
          BY <1>1, <3>4
        <4>2. a[i] < a[k]
          BY <1>1, <1>2, <1>6, <2>1, <3>1, <4>1 DEF KeptInOrder
        <4>3. QED
          BY <1>3, <3>1, <3>2, <3>4, <4>2
      <3>5. QED
        BY <1>1, <3>3, <3>4
    <2>2. (f + 1) - 1 = f
      BY <1>1
    <2>3. QED
      BY <2>1, <2>2 DEF InOrder
  <1>8. InOrder(b, f + 1, N - 1)
    <2>1. SUFFICES ASSUME NEW i \in f + 1 .. N - 1, NEW k \in f + 1 .. N - 1, i < k PROVE b[i] < b[k]
      BY DEF InOrder
    <2>2. i \in 0 .. N - 1 /\ k \in 0 .. N - 1 /\ f < i /\ f < k
      BY <1>1
    <2>3. CASE k <= q
      <3>1. b[i] = a[i - 1] /\ b[k] = a[k - 1]
        BY <1>1, <1>3, <2>1, <2>2, <2>3
      <3>2. i - 1 \in f .. q - 1 /\ k - 1 \in f .. q - 1 /\ i - 1 < k - 1
        BY <1>1, <2>1, <2>2, <2>3
      <3>3. QED
        BY <1>2, <3>1, <3>2 DEF InOrder
    <2>4. CASE i <= q /\ q < k
      <3>1. b[i] = a[i - 1] /\ i - 1 \in 0 .. q - 1
        BY <1>1, <1>3, <2>2, <2>4
      <3>2. b[k] = k + 1
        BY <1>3, <2>2, <2>4
      <3>3. a[i - 1] \in Nat /\ a[i - 1] <= q
        BY <1>5, <3>1
      <3>4. QED
        BY <1>1, <2>2, <2>4, <3>1, <3>2, <3>3
    <2>5. CASE q < i
      <3>1. b[i] = i + 1 /\ b[k] = k + 1
        BY <1>1, <1>3, <2>1, <2>2, <2>5
      <3>2. QED
        BY <2>1, <2>2, <3>1
    <2>6. QED
      BY <1>1, <2>2, <2>3, <2>4, <2>5
  <1>9. PICK B : Parsed(j, N, a, f, q, q, B)
    BY DEF Arranged
  <1>10. /\ B \subseteq 1 .. f /\ 1 \in B /\ f \in B
         /\ \A i \in B : i < f => OptionAt(j, j.words[KeptAt(a, f, q, i)], f, q = N, B, i)
    BY <1>1, <1>9, Zenon DEF Parsed
  <1>11. ASSUME NEW i \in B PROVE SafeAt(j, N, b, B, i)
    <2>1. i \in Nat /\ i <= f /\ i < N /\ i \in 0 .. N - 1
      BY <1>1, <1>10
    <2>2. CASE i = f
      <3>1. b[i] = a[q]
        BY <1>1, <1>2, <1>3, <2>1, <2>2 DEF Untouched
      <3>2. Wd(j, b, i) = Terminator
        BY <3>1 DEF Wd
      <3>3. QED
        BY <2>1, <3>2 DEF SafeAt
    <2>3. CASE i < f
      <3>1. OptionAt(j, j.words[KeptAt(a, f, q, i)], f, q = N, B, i) /\ q # N
        BY <1>1, <1>10, <2>3
      <3>2. b[i] = a[i] /\ KeptAt(a, f, q, i) = a[i]
        BY <1>1, <1>3, <1>6, <2>1, <2>3
      <3>3. j.words[KeptAt(a, f, q, i)] = Wd(j, b, i)
        BY <3>2 DEF Wd
      <3>4. Opens(Wd(j, b, i)) /\ IF Wanted(j, Wd(j, b, i)) THEN i + 2 \in B ELSE i + 1 \in B
        BY <3>1, <3>3, Zenon DEF OptionAt
      <3>5. QED
        BY <2>1, <3>4, Zenon DEF SafeAt
    <2>4. QED
      BY <1>1, <2>1, <2>2, <2>3
  <1>12. Safe(j, N, b, B)
    <2>1. B \subseteq 1 .. N
      BY <1>1, <1>10
    <2>2. QED
      BY <1>10, <1>11, <2>1 DEF Safe
  <1>13. QED
    BY <1>7, <1>8, <1>12 DEF Halves

\* A job whose optstring has no prefix.
Signless(j) == j.prefix = ""

\* The contexts without a prefix are those that permute.
LEMMA SignlessIs ==
  ASSUME NEW c \in Ctx, Typed
  PROVE  Signless(job[c]) <=> OrderingOf(job[c].prefix) = "PERMUTE"
  <1>1. job[c].prefix \in PrefixSigns
    BY JobIs
  <1>2. QED
    BY <1>1, Zenon DEF PrefixSigns, Signless, OrderingOf

\* There every call reads a word as Wants and Goes say.
LEMMA CharIs ==
  ASSUME NEW c \in Ctx, Signless(job[c]), NEW w, w \in Seq(STRING), Plain(w), NEW k \in 1 .. Len(w)
  PROVE  Takes(c, w[k]) = Colons(job[c], w[k]) /\ (Known(c, w[k]) <=> InOptstring(job[c], w[k]))
  <1>1. w[k] \in Range(w)
    BY DEF Range
  <1>2. w[k] # job[c].prefix
    BY <1>1, Zenon DEF Plain, Signless
  <1>3. QED
    BY <1>2, Zenon DEF Takes, Colons, Known

\* What the code asks of an option character, in the terms of the job alone.
LEMMA ReadsSo ==
  ASSUME NEW c \in Ctx, Signless(job[c]), NEW w, w \in Seq(STRING), Plain(w), Opens(w), NEW k \in 1 .. Len(w)
  PROVE  /\ Going(c, w, Suffix(w, k)) <=> Goes(job[c], w, Suffix(w, k))
         /\ Wanting(c, w, Suffix(w, k)) <=> Wants(job[c], w, Suffix(w, k))
  <1> DEFINE t == Suffix(w, k)
  <1>1. Head(t) = w[k]
    BY SuffixIs
  <1>2. 2 \in 1 .. Len(w)
    <2>1. Len(w) \in Nat /\ Len(w) >= 2
      BY DEF Opens, IsOption
    <2>2. QED
      BY <2>1
  <1>3. /\ Takes(c, Head(t)) = Colons(job[c], Head(t))
        /\ Known(c, Head(t)) <=> InOptstring(job[c], Head(t))
        /\ Known(c, w[2]) <=> InOptstring(job[c], w[2])
    BY <1>1, <1>2, CharIs
  <1> HIDE DEF t
  <1>4. LongForm(c, w) <=> LongWord(job[c], w)
    BY <1>3, Zenon DEF LongForm, LongWord
  <1>5. MustBeLong(c, w, t) <=> LongOnly(job[c], w, t)
    BY <1>3, Zenon DEF MustBeLong, LongOnly
  <1>6. AsLong(c, w, t) <=> LongText(job[c], w, t)
    BY <1>4, <1>5, Zenon DEF AsLong, LongText
  <1>7. Going(c, w, t) <=> Goes(job[c], w, t)
    BY <1>3, <1>6, Zenon DEF Going, Goes
  <1>8. Wanting(c, w, t) <=> Wants(job[c], w, t)
    BY <1>3, <1>6, Zenon DEF Wanting, Wants
  <1>9. QED
    BY <1>7, <1>8 DEF t

\* A word wants the next one if the characters do that come last.
LEMMA WantedIs ==
  ASSUME NEW j, NEW w, w \in Seq(STRING), NEW k \in Start(j, w) .. Len(w), ReadTo(j, w, k),
         ~Goes(j, w, Suffix(w, k))
  PROVE  Wanted(j, w) <=> Wants(j, w, Suffix(w, k))
  <1>1. \A t : ~(Goes(j, w, t) /\ Wants(j, w, t))
    <2>1. \A x : ~(x = 1 /\ x <= 0)
      OBVIOUS
    <2>2. QED
      BY <2>1, Zenon DEF Goes, Wants
  <1>2. Start(j, w) \in Nat /\ Len(w) \in Nat
    BY DEF Start
  <1>3. ASSUME Wanted(j, w) PROVE Wants(j, w, Suffix(w, k))
    <2>1. PICK i \in Start(j, w) .. Len(w) : ReadTo(j, w, i) /\ Wants(j, w, Suffix(w, i))
      BY <1>3 DEF Wanted
    <2>2. CASE i < k
      <3>1. i \in Start(j, w) .. k - 1
        BY <1>2, <2>2
      <3>2. QED
        BY <1>1, <2>1, <3>1 DEF ReadTo
    <2>3. CASE k < i
      <3>1. k \in Start(j, w) .. i - 1
        BY <1>2, <2>3
      <3>2. QED
        BY <2>1, <3>1 DEF ReadTo
    <2>4. i = k \/ i < k \/ k < i
      BY <1>2
    <2>5. QED
      BY <2>1, <2>2, <2>3, <2>4
  <1>4. Wants(j, w, Suffix(w, k)) => Wanted(j, w)
    BY DEF Wanted
  <1>5. QED
    BY <1>3, <1>4

\* A word that is being read: so far it has gone character by character.
Mid(c) ==
  si[c].nextchar # <<>> =>
    LET w == WordAt(c, argv[c], si[c].optind)
    IN  Opens(w) /\ \E k \in Start(job[c], w) .. Len(w) : si[c].nextchar = Suffix(w, k) /\ ReadTo(job[c], w, k)

\* A call about an option reads on in its word, or goes to the next one, or to the
\* one after its argument.
Advances(c, r, w) ==
  \E n, opt, rest :
    /\ Steps(c, r, n, rest, opt)
    /\ \/ n = 0 /\ \E k \in Start(job[c], w) .. Len(w) : rest = Suffix(w, k) /\ ReadTo(job[c], w, k)
       \/ n = 1 /\ rest = <<>> /\ (Wanted(job[c], w) => r.optind + 1 = Argc(c))
       \/ n = 2 /\ rest = <<>> /\ Wanted(job[c], w) /\ r.optind + 2 <= Argc(c)

\* An option goes on within its word, past it, or past it and its argument.
LEMMA OptionAdvances ==
  ASSUME NEW c \in Ctx, Typed, Ranged(c), stage[c] = "Scanning", Signless(job[c]), Mid(c),
         LongOption(c) \/ ShortOption(c), NEW r, r = Reached(c), NEW w, w = WordAt(c, r.argv, r.optind)
  PROVE  r.optind < Argc(c) /\ Opens(w) /\ Advances(c, r, w) /\ stage' = stage
  <1> DEFINE t == Text(c, r)
             j == job[c]
  <1>1. AtOption(c, r) /\ stage' = stage /\ Found(c, r, w, t) /\ OptionStep(c, r, w, t)
    BY OptionSteps
  <1>2. /\ r.optind < Argc(c) /\ w \in Seq(STRING) /\ Plain(w)
        /\ r.nextchar # <<>> => t = r.nextchar
        /\ r.nextchar = <<>> => IsOption(w) /\ w # Terminator /\ Start(j, w) \in 1 .. Len(w) /\ t = Suffix(w, Start(j, w))
    BY <1>1, AtWord
  <1> HIDE DEF t
  <1>3. Opens(w) /\ \E k \in Start(j, w) .. Len(w) : t = Suffix(w, k) /\ ReadTo(j, w, k)
    <2>1. CASE r.nextchar = <<>>
      <3>1. ReadTo(j, w, Start(j, w))
        <4>1. Start(j, w) \in Nat
          BY DEF Start
        <4>2. \A i \in Start(j, w) .. Start(j, w) - 1 : FALSE
          BY <4>1
        <4>3. QED
          BY <4>2 DEF ReadTo
      <3>2. Start(j, w) \in Start(j, w) .. Len(w)
        BY <1>2, <2>1
      <3>3. QED
        BY <1>2, <2>1, <3>1, <3>2 DEF Opens
    <2>2. CASE r.nextchar # <<>>
      <3>1. r = Entered(c) /\ r.nextchar = Entered(c).nextchar
        BY <2>2, ReachedSteady
      <3>2. /\ Entered(c).argv = argv[c]
            /\ Fresh(c) => Entered(c).nextchar = <<>>
            /\ ~Fresh(c) => Entered(c).nextchar = si[c].nextchar /\ Entered(c).optind = si[c].optind
        BY EnteredSteady
      <3>3. r.argv = argv[c] /\ r.optind = si[c].optind /\ si[c].nextchar = t /\ si[c].nextchar # <<>>
        BY <1>2, <2>2, <3>1, <3>2
      <3>4. w = WordAt(c, argv[c], si[c].optind)
        BY <3>3
      <3>5. QED
        BY <3>3, <3>4, Zenon DEF Mid
    <2>3. QED
      BY <2>1, <2>2
  <1>4. PICK k \in Start(j, w) .. Len(w) : t = Suffix(w, k) /\ ReadTo(j, w, k)
    BY <1>3
  <1>5. Start(j, w) \in Nat /\ 1 <= Start(j, w) /\ Len(w) \in Nat /\ k \in 1 .. Len(w)
    BY <1>2, <1>4 DEF Start
  <1>6. (Going(c, w, t) <=> Goes(j, w, t)) /\ (Wanting(c, w, t) <=> Wants(j, w, t))
    BY <1>2, <1>3, <1>4, <1>5, ReadsSo
  <1>7. PICK n, opt, rest :
          /\ Steps(c, r, n, rest, opt) /\ opt \in Seq(STRING)
          /\ \/ Going(c, w, t) /\ n = 0 /\ rest = Tail(t)
             \/ /\ ~Going(c, w, t) /\ rest = <<>>
                /\ \/ n = 1 /\ (Wanting(c, w, t) => r.optind + 1 >= Argc(c))
                   \/ n = 2 /\ Wanting(c, w, t) /\ r.optind + 1 < Argc(c)
    BY <1>1, Zenon DEF OptionStep
  <1>8. r.optind \in Nat /\ Argc(c) \in Nat
    BY <1>1, JobIs DEF Found, Steady, Works
  <1>9. Advances(c, r, w)
    <2>1. CASE Going(c, w, t) /\ n = 0 /\ rest = Tail(t)
      <3>1. Goes(j, w, Suffix(w, k)) /\ Tail(t) # <<>>
        BY <1>4, <1>6, <2>1 DEF Going
      <3>2. Tail(t) = Suffix(w, k + 1) /\ k # Len(w)
        <4>1. Tail(Suffix(w, k)) = Suffix(w, k + 1) /\ (Suffix(w, k + 1) = <<>> <=> k = Len(w))
          BY <1>2, <1>5, SuffixIs
        <4>2. QED
          BY <1>4, <3>1, <4>1
      <3>3. k + 1 \in Start(j, w) .. Len(w)
        BY <1>5, <3>2
      <3>4. ReadTo(j, w, k + 1)
        <4>1. \A i \in Start(j, w) .. (k + 1) - 1 : i = k \/ i \in Start(j, w) .. k - 1
          BY <1>5
        <4>2. QED
          BY <1>4, <3>1, <4>1 DEF ReadTo
      <3>5. QED
        BY <1>7, <2>1, <3>2, <3>3, <3>4, Zenon DEF Advances
    <2>2. CASE ~Going(c, w, t) /\ rest = <<>>
      <3>1. Wanted(j, w) <=> Wanting(c, w, t)
        BY <1>2, <1>4, <1>6, <2>2, WantedIs
      <3>2. CASE n = 1 /\ (Wanting(c, w, t) => r.optind + 1 >= Argc(c))
        <4>1. r.optind + 1 >= Argc(c) => r.optind + 1 = Argc(c)
          BY <1>2, <1>8
        <4>2. QED
          BY <1>7, <2>2, <3>1, <3>2, <4>1, Zenon DEF Advances
      <3>3. CASE n = 2 /\ Wanting(c, w, t) /\ r.optind + 1 < Argc(c)
        <4>1. r.optind + 2 <= Argc(c)
          BY <1>8, <3>3
        <4>2. QED
          BY <1>7, <2>2, <3>1, <3>3, <4>1, Zenon DEF Advances
      <3>4. QED
        BY <1>7, <2>2, <3>2, <3>3
    <2>3. QED
      BY <1>7, <2>1, <2>2
  <1>10. QED
    BY <1>1, <1>2, <1>3, <1>9

\* Where a first scan comes to: to an option, with the words before it arranged, or
\* to the end.
LEMMA FirstReached ==
  ASSUME NEW c \in Ctx, Typed, Ranged(c), stage[c] = "Scanning", Mode(c) = "PERMUTE", NEW s, s = Entered(c),
         Arranged(job[c], Argc(c), s.argv, s.first, s.last, s.optind), NEW r, r = Reached(c)
  PROVE  /\ r.optind < Argc(c) => /\ Arranged(job[c], Argc(c), r.argv, r.first, r.last, r.optind)
                                  /\ r.nextchar = <<>> => IsOption(WordAt(c, r.argv, r.optind))
         /\ r.optind = Argc(c) => /\ Halves(Argc(c), r.argv, EndsAt(c, r))
                                  /\ \E S : Safe(job[c], Argc(c), r.argv, S)
  <1> DEFINE j == job[c]
             N == Argc(c)
  <1>1. Steady(c, s) /\ (s.nextchar # <<>> => s.optind < N)
    BY EnteredSteady
  <1>2. Stands(c, s, r)
    BY ReachedStands
  <1>3. /\ s.optind \in Nat /\ s.first \in Nat /\ s.last \in Nat /\ N \in Nat
        /\ s.argv \in Cells(N, 1 .. N) /\ 1 <= s.first /\ s.first <= s.last /\ s.last <= s.optind /\ s.optind <= N
    BY <1>1, JobIs DEF Steady, Works, Positions
  <1>4. Shape(j, N, s.argv, s.first, s.last, s.optind)
    BY <1>3 DEF Shape
  <1>5. CASE s.nextchar # <<>>
    <2>1. r = s /\ s.optind < N
      BY <1>1, <1>2, <1>5 DEF Stands
    <2>2. QED
      BY <1>3, <1>5, <2>1
  <1>6. CASE s.nextchar = <<>>
    <2>1. PICK p : /\ Passed(c, s, p)
                   /\ IF p.optind # N /\ WordAt(c, p.argv, p.optind) = Terminator
                      THEN AllPassed(c, p, r) ELSE r = p
      BY <1>2, <1>6 DEF Stands
    <2> DEFINE b == p.argv
               g == p.first
               q == p.optind
    <2>2. /\ b = Rot(s.argv, s.first, s.last, s.optind) /\ g = s.first + (s.optind - s.last)
          /\ p.last = q /\ s.optind <= q /\ \A i \in s.optind .. q - 1 : ~IsOption(Wd(j, b, i))
          /\ q = N \/ IsOption(Wd(j, b, q))
          /\ q \in Nat /\ g \in Nat /\ q <= N
      <3>1. \A i : WordAt(c, b, i) = Wd(j, b, i)
        BY DEF WordAt, Wd
      <3>2. q \in Nat /\ g \in Nat /\ q <= N
        BY <2>1 DEF Passed, Steady, Works
      <3>3. QED
        BY <2>1, <3>1, <3>2 DEF Passed
    <2>3. IsRot(b, s.argv, s.first, s.last, s.optind) /\ IsKept(g, s.first, s.last, s.optind)
      <3>1. g = s.optind - (s.last - s.first)
        BY <1>3, <2>2
      <3>2. QED
        BY <2>2, <3>1 DEF IsRot, IsKept, Kept
    <2> HIDE DEF b, g, q, j, N
    <2>4. Arranged(j, N, s.argv, s.first, s.last, s.optind)
      BY DEF j, N
    <2>5. Shape(j, N, b, g, q, q) /\ Arranged(j, N, b, g, q, q)
      BY <1>3, <1>4, <2>2, <2>3, <2>4, PassedArranged
    <2>6. CASE q = N
      <3>1. r = p
        BY <2>1, <2>6 DEF q, N
      <3>2. EndsAt(c, r) = g /\ r.argv = b /\ ~(r.optind < Argc(c))
        BY <1>3, <2>2, <2>6, <3>1 DEF EndsAt, g, q, b, N
      <3>3. Shape(j, N, b, g, N, N) /\ Arranged(j, N, b, g, N, N)
        BY <2>5, <2>6
      <3>4. Halves(N, b, g) /\ \E S : Safe(j, N, b, S)
        BY <3>3, EndArranged
      <3>5. QED
        BY <3>2, <3>4 DEF j, N
    <2>7. CASE q # N /\ Wd(j, b, q) = Terminator
      <3>1. AllPassed(c, p, r)
        BY <2>1, <2>7 DEF q, N, b, j, WordAt, Wd
      <3>2. /\ r.argv = Rot(b, g, p.last, q + 1) /\ r.first = g + (q + 1 - p.last) /\ r.last = N /\ r.optind = N
        BY <3>1 DEF AllPassed, b, g, q, N
      <3>3. IsRot(r.argv, b, g, q, q + 1) /\ r.first = g + 1
        BY <2>2, <3>2 DEF IsRot
      <3>4. EndsAt(c, r) = g + 1 /\ ~(r.optind < Argc(c))
        BY <1>3, <3>2, <3>3 DEF EndsAt, N
      <3>5. q < N
        BY <1>3, <2>2, <2>7
      <3>6. Halves(N, r.argv, g + 1) /\ \E S : Safe(j, N, r.argv, S)
        BY <2>5, <2>7, <3>3, <3>5, EndTerminated
      <3>7. QED
        BY <3>4, <3>6 DEF j, N
    <2>8. CASE q # N /\ Wd(j, b, q) # Terminator
      <3>1. r = p
        BY <2>1, <2>8 DEF q, N, b, j, WordAt, Wd
      <3>2. r.argv = b /\ r.first = g /\ r.last = q /\ r.optind = q /\ r.optind # Argc(c)
        BY <2>2, <2>8, <3>1 DEF b, g, q, N
      <3>3. IsOption(WordAt(c, r.argv, r.optind))
        BY <2>2, <2>8, <3>2 DEF WordAt, Wd, j
      <3>4. QED
        BY <2>5, <3>2, <3>3 DEF j, N
    <2>9. QED
      BY <2>6, <2>7, <2>8
  <1>7. QED
    BY <1>5, <1>6

\* Where a scan of an arranged line comes to: it goes from one of the places S to
\* the next and leaves the line as it is.
Follows(c, S) ==
  ~Fresh(c) => /\ si[c].first = si[c].last
               /\ si[c].optind \in S \/ (Calm(job[c], Argc(c), argv[c], si[c].optind) /\ si[c].nextchar = <<>>)

\* A second scan passes over nothing but the operands at the end.
LEMMA SecondReached ==
  ASSUME NEW c \in Ctx, Typed, Ranged(c), stage[c] = "Scanning", Mode(c) = "PERMUTE", NEW S,
         Safe(job[c], Argc(c), argv[c], S), Follows(c, S), NEW r, r = Reached(c)
  PROVE  /\ r.argv = argv[c]
         /\ r.optind < Argc(c) => /\ r.optind \in S /\ r.first = r.last
                                  /\ r.nextchar = <<>> => IsOption(WordAt(c, r.argv, r.optind))
  <1> DEFINE s == Entered(c)
             j == job[c]
             N == Argc(c)
             a == argv[c]
  <1>1. /\ Steady(c, s) /\ (s.nextchar # <<>> => s.optind < N) /\ s.argv = a
        /\ Fresh(c) => s.nextchar = <<>> /\ s.optind = 1 /\ s.first = 1 /\ s.last = 1
        /\ ~Fresh(c) => /\ s.nextchar = si[c].nextchar /\ s.optind = si[c].optind
                        /\ s.first = si[c].first /\ s.last = si[c].last
    BY EnteredSteady
  <1>2. Stands(c, s, r)
    BY ReachedStands
  <1> HIDE DEF s
  <1>3. /\ s.optind \in Nat /\ s.first \in Nat /\ s.last \in Nat /\ N \in Nat
        /\ a \in Cells(N, 1 .. N) /\ 1 <= s.first /\ s.first <= s.last /\ s.last <= s.optind /\ s.optind <= N
    BY <1>1, JobIs DEF Steady, Works, Positions
  <1>4. /\ s.first = s.last
        /\ s.optind \in S \/ (Calm(j, N, a, s.optind) /\ s.nextchar = <<>>)
    BY <1>1 DEF Follows, Safe
  <1>5. CASE s.nextchar # <<>>
    <2>1. r = s /\ s.optind < N
      BY <1>1, <1>2, <1>5 DEF Stands
    <2>2. QED
      BY <1>1, <1>4, <1>5, <2>1
  <1>6. CASE s.nextchar = <<>>
    <2>1. PICK p : /\ Passed(c, s, p)
                   /\ IF p.optind # N /\ WordAt(c, p.argv, p.optind) = Terminator
                      THEN AllPassed(c, p, r) ELSE r = p
      BY <1>2, <1>6 DEF Stands
    <2> DEFINE q == p.optind
    <2>2. Rot(a, s.first, s.last, s.optind) = a
      BY <1>3, <1>4, RotNone
    <2>3. /\ p.argv = a /\ p.first = s.optind /\ p.last = q /\ s.optind <= q
          /\ \A i \in s.optind .. q - 1 : ~IsOption(WordAt(c, a, i))
          /\ q = N \/ IsOption(WordAt(c, a, q))
          /\ q \in Nat /\ q <= N
      <3>1. q \in Nat /\ q <= N
        BY <2>1 DEF Passed, Steady, Works
      <3>2. s.first + (s.optind - s.last) = s.optind
        BY <1>3, <1>4
      <3>3. QED
        BY <1>1, <2>1, <2>2, <3>1, <3>2 DEF Passed
    <2>4. \A i : WordAt(c, a, i) = Wd(j, a, i)
      BY DEF WordAt, Wd
    <2>5. q = N \/ (q = s.optind /\ s.optind \in S)
      <3>1. CASE Calm(j, N, a, s.optind)
        <4>1. q < N => q \in s.optind .. N - 1
          BY <1>3, <2>3
        <4>2. q < N => ~IsOption(WordAt(c, a, q))
          BY <2>4, <3>1, <4>1 DEF Calm
        <4>3. QED
          BY <1>3, <2>3, <4>2
      <3>2. CASE s.optind \in S /\ ~Calm(j, N, a, s.optind)
        <4>1. SafeAt(j, N, a, S, s.optind)
          BY <3>2 DEF Safe
        <4>2. IsOption(Terminator)
          BY DEF IsOption, Terminator
        <4>3. IsOption(WordAt(c, a, s.optind))
          BY <2>4, <3>2, <4>1, <4>2 DEF SafeAt, Opens
        <4>4. s.optind < q => s.optind \in s.optind .. q - 1
          BY <1>3, <2>3
        <4>5. ~(s.optind < q)
          BY <2>3, <4>3, <4>4
        <4>6. QED
          BY <1>3, <2>3, <3>2, <4>5
      <3>3. QED
        BY <1>4, <3>1, <3>2
    <2>6. CASE q # N /\ WordAt(c, a, q) = Terminator
      <3>1. AllPassed(c, p, r)
        BY <2>1, <2>3, <2>6
      <3>2. r.argv = Rot(a, p.first, p.last, q + 1) /\ r.optind = N
        BY <2>3, <3>1 DEF AllPassed
      <3>3. p.first = p.last /\ p.first \in Nat /\ q + 1 \in Nat
        BY <2>3, <2>5, <2>6
      <3>4. Rot(a, p.first, p.last, q + 1) = a
        BY <1>3, <2>3, <3>3, RotNone
      <3>5. QED
        BY <1>3, <3>2, <3>4
    <2>7. CASE ~(q # N /\ WordAt(c, a, q) = Terminator)
      <3>1. r = p
        BY <2>1, <2>3, <2>7
      <3>2. q < N => q # N
        BY <1>3
      <3>3. QED
        BY <2>3, <2>5, <3>1, <3>2
    <2>8. QED
      BY <2>6, <2>7
  <1>7. QED
    BY <1>5, <1>6

\* Without permuting a scan leaves the line as it is.
LEMMA PlainReached ==
  ASSUME NEW c \in Ctx, Typed, Ranged(c), stage[c] = "Scanning", Mode(c) # "PERMUTE",
         ~Fresh(c) => si[c].first = si[c].last, NEW r, r = Reached(c)
  PROVE  r.argv = argv[c] /\ (r.optind < Argc(c) => r.first = r.last)
  <1> DEFINE s == Entered(c)
  <1>1. /\ Steady(c, s) /\ s.argv = argv[c]
        /\ Fresh(c) => s.first = 1 /\ s.last = 1
        /\ ~Fresh(c) => s.first = si[c].first /\ s.last = si[c].last
    BY EnteredSteady
  <1>2. Stands(c, s, r)
    BY ReachedStands
  <1> HIDE DEF s
  <1>3. /\ s.first = s.last /\ s.first \in Nat /\ s.optind \in Nat /\ Argc(c) \in Nat
        /\ argv[c] \in Cells(Argc(c), Positions(c))
    BY <1>1, JobIs DEF Steady, Works
  <1>4. r = s \/ AllPassed(c, s, r)
    BY <1>2 DEF Stands
  <1>5. CASE AllPassed(c, s, r)
    <2>1. r.argv = Rot(argv[c], s.first, s.last, s.optind + 1) /\ r.optind = Argc(c)
      BY <1>1, <1>5 DEF AllPassed
    <2>2. Rot(argv[c], s.first, s.last, s.optind + 1) = argv[c]
      <3>1. s.optind + 1 \in Nat /\ s.last \in Nat
        BY <1>3
      <3>2. QED
        BY <1>3, <3>1, RotNone
    <2>3. QED
      BY <1>3, <2>1, <2>2
  <1>6. QED
    BY <1>1, <1>3, <1>4, <1>5

\* No word is lost; being as many cells as words, none is doubled.
HasAll(N, a) == \A v \in 1 .. N : \E i \in 0 .. N - 1 : a[i] = v
AsGiven(N, a) == \A i \in 0 .. N - 1 : a[i] = i + 1

\* The words as given are all there, and either side of any place is in order.
LEMMA GivenIs ==
  ASSUME NEW N \in Nat, NEW a, AsGiven(N, a)
  PROVE  HasAll(N, a) /\ \A at \in 0 .. N : Halves(N, a, at)
  <1>1. HasAll(N, a)
    <2>1. SUFFICES ASSUME NEW v \in 1 .. N PROVE \E i \in 0 .. N - 1 : a[i] = v
      BY DEF HasAll
    <2>2. v - 1 \in 0 .. N - 1 /\ (v - 1) + 1 = v
      OBVIOUS
    <2>3. QED
      BY <2>2 DEF AsGiven
  <1>2. ASSUME NEW at \in 0 .. N PROVE Halves(N, a, at)
    <2>1. ASSUME NEW i \in 0 .. N - 1, NEW k \in 0 .. N - 1, i < k PROVE a[i] < a[k]
      BY <2>1 DEF AsGiven
    <2>2. at \in Nat /\ at <= N
      OBVIOUS
    <2>3. QED
      BY <2>1, <2>2 DEF Halves, InOrder
  <1>3. QED
    BY <1>1, <1>2

\* A rotation loses no word.
LEMMA RotHasAll ==
  ASSUME NEW N \in Nat, NEW S, NEW a \in Cells(N, S), NEW b \in Nat, NEW m \in Nat, NEW t \in Nat,
         b <= m, m <= t, t <= N, HasAll(N, a)
  PROVE  HasAll(N, Rot(a, b, m, t))
  <1> DEFINE R == Rot(a, b, m, t)
  <1>1. SUFFICES ASSUME NEW v \in 1 .. N PROVE \E i \in 0 .. N - 1 : R[i] = v
    BY DEF HasAll
  <1>2. PICK i \in 0 .. N - 1 : a[i] = v
    BY DEF HasAll
  <1>3. CASE i < b \/ t <= i
    <2>1. R[i] = a[i]
      BY <1>3, RotCell
    <2>2. QED
      BY <1>2, <2>1
  <1>4. CASE b <= i /\ i < m
    <2>1. i + (t - m) \in 0 .. N - 1 /\ b + (t - m) <= i + (t - m) /\ i + (t - m) < t /\ (i + (t - m)) - (t - m) = i
      BY <1>4
    <2>2. R[i + (t - m)] = a[(i + (t - m)) - (t - m)]
      BY <2>1, RotCell
    <2>3. R[i + (t - m)] = v
      BY <1>2, <2>1, <2>2
    <2> HIDE DEF R
    <2>4. QED
      BY <2>1, <2>3
  <1>5. CASE m <= i /\ i < t
    <2>1. i - (m - b) \in 0 .. N - 1 /\ b <= i - (m - b) /\ i - (m - b) < b + (t - m) /\ (i - (m - b)) + (m - b) = i
      BY <1>5
    <2>2. R[i - (m - b)] = a[(i - (m - b)) + (m - b)]
      BY <2>1, RotCell
    <2>3. R[i - (m - b)] = v
      BY <1>2, <2>1, <2>2
    <2> HIDE DEF R
    <2>4. QED
      BY <2>1, <2>3
  <1>6. QED
    BY <1>3, <1>4, <1>5

\* Nor does a call on its way to its word.
LEMMA ReachedHasAll ==
  ASSUME NEW c \in Ctx, Typed, Ranged(c), stage[c] = "Scanning", HasAll(Argc(c), argv[c]), NEW r, r = Reached(c)
  PROVE  HasAll(Argc(c), r.argv)
  <1> DEFINE s == Entered(c)
             N == Argc(c)
  <1>1. Steady(c, s) /\ s.argv = argv[c]
    BY EnteredSteady
  <1>2. Stands(c, s, r)
    BY ReachedStands
  <1> HIDE DEF s
  <1>3. ASSUME NEW x, Steady(c, x), HasAll(N, x.argv), NEW q \in Nat, x.optind <= q, q <= N
        PROVE  HasAll(N, Rot(x.argv, x.first, x.last, q))
    <2>1. /\ x.optind \in Nat /\ x.first \in Nat /\ x.last \in Nat /\ N \in Nat /\ x.argv \in Cells(N, Positions(c))
          /\ x.first <= x.last /\ x.last <= q
      BY <1>3, JobIs DEF Steady, Works
    <2>2. QED
      BY <1>3, <2>1, RotHasAll
  <1>4. CASE r = s
    BY <1>1, <1>4
  <1>5. ASSUME NEW p, p = s \/ Passed(c, s, p) PROVE Steady(c, p) /\ HasAll(N, p.argv) /\ p.optind \in Nat /\ N \in Nat /\ p.optind <= N
    <2>1. Steady(c, p)
      BY <1>1, <1>5 DEF Passed
    <2>2. p.optind \in Nat /\ N \in Nat /\ p.optind <= N /\ s.optind \in Nat /\ s.optind <= N
      BY <1>1, <2>1, JobIs DEF Steady, Works
    <2>3. HasAll(N, Rot(s.argv, s.first, s.last, s.optind))
      BY <1>1, <1>3, <2>2
    <2>4. HasAll(N, p.argv)
      BY <1>1, <1>5, <2>3 DEF Passed
    <2>5. QED
      BY <2>1, <2>2, <2>4
  <1>6. CASE r # s
    <2>1. PICK p : /\ p = s \/ Passed(c, s, p)
                   /\ r = p \/ (p.optind # N /\ AllPassed(c, p, r))
      BY <1>2, <1>6 DEF Stands
    <2>2. Steady(c, p) /\ HasAll(N, p.argv) /\ p.optind \in Nat /\ N \in Nat /\ p.optind <= N
      BY <1>5, <2>1
    <2>3. p.optind # N => p.optind + 1 \in Nat /\ p.optind <= p.optind + 1 /\ p.optind + 1 <= N
      BY <2>2
    <2>4. p.optind # N => HasAll(N, Rot(p.argv, p.first, p.last, p.optind + 1))
      BY <1>3, <2>2, <2>3
    <2>5. QED
      BY <2>1, <2>2, <2>4 DEF AllPassed
  <1>7. QED
    BY <1>4, <1>6

--------------------------------------------------------------------------------
\* What is so of a context between calls: a first scan has its words arranged, a
\* second one follows safe places.
MidOf(j, a, o, t) ==
  t # <<>> =>
    LET w == Wd(j, a, o)
    IN  Opens(w) /\ \E k \in Start(j, w) .. Len(w) : t = Suffix(w, k) /\ ReadTo(j, w, k)
FirstScan(j, N, a, o, f, l, t) == Arranged(j, N, a, f, l, o) /\ MidOf(j, a, o, t)
SecondScan(j, N, a, o, f, l, t) ==
  \E S : /\ Safe(j, N, a, S)
         /\ o # 0 => f = l /\ MidOf(j, a, o, t) /\ (o \in S \/ (Calm(j, N, a, o) /\ t = <<>>))

SplitOf(j, N, a, at, again, o, f, l, t) ==
  /\ HasAll(N, a)
  /\ at = "None" => ~again /\ AsGiven(N, a)
  /\ at = "Scanning" /\ ~again /\ o = 0 => AsGiven(N, a)
  /\ ~Signless(j) => AsGiven(N, a) /\ (at = "Scanning" /\ o # 0 => f = l)
  /\ Signless(j) =>
       /\ at = "Scanning" /\ ~again /\ o # 0 => FirstScan(j, N, a, o, f, l, t)
       /\ at = "Scanning" /\ again => SecondScan(j, N, a, o, f, l, t)
       /\ at = "Ended" => \E S : Safe(j, N, a, S)
  /\ at = "Ended" /\ ~again => Halves(N, a, o)
  /\ again => \E k \in 0 .. N : Halves(N, a, k)

SplitAt(c) ==
  SplitOf(job[c], Argc(c), argv[c], stage[c], rescanned[c], si[c].optind, si[c].first, si[c].last, si[c].nextchar)

\* All scans under way go by the one ordering.
Modes ==
  /\ \A c \in Ctx : stage[c] = "Scanning" /\ ~Fresh(c) => ordering = OrderingOf(job[c].prefix)
  /\ \A c, d \in Ctx : stage[c] = "Scanning" /\ stage[d] = "Scanning" =>
       OrderingOf(job[c].prefix) = OrderingOf(job[d].prefix)

\* The static variable is what the context asked for.
LEMMA ModeSo ==
  ASSUME NEW c \in Ctx, Typed, Modes, stage[c] = "Scanning"
  PROVE  Mode(c) = OrderingOf(job[c].prefix) /\ (Signless(job[c]) <=> Mode(c) = "PERMUTE")
  <1>1. Mode(c) = OrderingOf(job[c].prefix)
    BY Zenon DEF Mode, Modes
  <1>2. QED
    BY <1>1, SignlessIs

\* What a call sets, field by field.
LEMMA StepsIs ==
  ASSUME NEW c \in Ctx, Typed, NEW e, NEW n, NEW rest, NEW opt, Steps(c, e, n, rest, opt)
  PROVE  /\ argv'[c] = e.argv /\ si'[c].optind = e.optind + n /\ si'[c].nextchar = rest
         /\ si'[c].first = e.first /\ si'[c].last = e.last
         /\ job' = job /\ rescanned' = rescanned /\ ordering' = Mode(c) /\ Argc(c)' = Argc(c)
         /\ \A d \in Ctx : d # c => argv'[d] = argv[d] /\ si'[d] = si[d]
  <1> DEFINE x == [optind |-> e.optind + n, nextchar |-> rest, first |-> e.first, last |-> e.last, optopt |-> opt]
  <1>1. /\ argv' = [argv EXCEPT ![c] = e.argv] /\ si' = [si EXCEPT ![c] = x]
        /\ ordering' = Mode(c) /\ job' = job /\ rescanned' = rescanned
    BY DEF Steps
  <1>2. /\ x.optind = e.optind + n /\ x.nextchar = rest /\ x.first = e.first /\ x.last = e.last
    OBVIOUS
  <1> HIDE DEF x
  <1>3. c \in DOMAIN si /\ c \in DOMAIN argv
    BY DEF Typed
  <1>4. si'[c] = x /\ argv'[c] = e.argv /\ \A d \in Ctx : d # c => argv'[d] = argv[d] /\ si'[d] = si[d]
    BY <1>1, <1>3 DEF Typed
  <1>5. QED
    BY <1>1, <1>2, <1>4 DEF Argc

\* A context that is not touched stays split.
LEMMA SplitKept ==
  ASSUME NEW d \in Ctx, SplitAt(d), job' = job, stage'[d] = stage[d], rescanned'[d] = rescanned[d],
         argv'[d] = argv[d], si'[d] = si[d]
  PROVE  SplitAt(d)'
  <1>1. Argc(d)' = Argc(d)
    BY DEF Argc
  <1>2. QED
    BY <1>1 DEF SplitAt

\* What a scan stands on in its first calls and later ones.
LEMMA FirstStarts ==
  ASSUME NEW c \in Ctx, Typed, Ranged(c), SplitAt(c), stage[c] = "Scanning", Signless(job[c]), ~rescanned[c],
         NEW s, s = Entered(c)
  PROVE  Arranged(job[c], Argc(c), s.argv, s.first, s.last, s.optind) /\ Mid(c)
  <1> DEFINE j == job[c]
             N == Argc(c)
  <1>1. /\ s.argv = argv[c]
        /\ Fresh(c) => s.optind = 1 /\ s.first = 1 /\ s.last = 1
        /\ ~Fresh(c) => s.optind = si[c].optind /\ s.first = si[c].first /\ s.last = si[c].last
    BY EnteredSteady
  <1>2. N \in Nat /\ 1 <= N /\ argv[c] \in Cells(N, 1 .. N)
    BY JobIs DEF Ranged, Positions
  <1>3. CASE Fresh(c)
    <2>1. AsGiven(N, argv[c])
      BY <1>3 DEF SplitAt, SplitOf, Fresh
    <2>2. Arranged(j, N, argv[c], 1, 1, 1)
      BY <1>2, <2>1, GivenArranged DEF AsGiven
    <2>3. si[c].nextchar = <<>>
      BY <1>3 DEF Ranged
    <2>4. QED
      BY <1>1, <1>3, <2>2, <2>3 DEF Mid
  <1>4. CASE ~Fresh(c)
    <2>1. FirstScan(j, N, argv[c], si[c].optind, si[c].first, si[c].last, si[c].nextchar)
      BY <1>4 DEF SplitAt, SplitOf, Fresh
    <2>2. MidOf(j, argv[c], si[c].optind, si[c].nextchar) => Mid(c)
      BY Zenon DEF MidOf, Mid, Wd, WordAt
    <2>3. QED
      BY <1>1, <1>4, <2>1, <2>2 DEF FirstScan
  <1>5. QED
    BY <1>3, <1>4

\* The places safe for a second scan, from its start on.
LEMMA SecondStarts ==
  ASSUME NEW c \in Ctx, Typed, Ranged(c), SplitAt(c), stage[c] = "Scanning", Signless(job[c]), rescanned[c]
  PROVE  Mid(c) /\ \E S : Safe(job[c], Argc(c), argv[c], S) /\ Follows(c, S)
  <1> DEFINE j == job[c]
             N == Argc(c)
             o == si[c].optind
  <1>1. SecondScan(j, N, argv[c], o, si[c].first, si[c].last, si[c].nextchar)
    BY DEF SplitAt, SplitOf
  <1>2. PICK S : /\ Safe(j, N, argv[c], S)
                 /\ o # 0 => /\ si[c].first = si[c].last /\ MidOf(j, argv[c], o, si[c].nextchar)
                             /\ o \in S \/ (Calm(j, N, argv[c], o) /\ si[c].nextchar = <<>>)
    BY <1>1, Zenon DEF SecondScan
  <1>3. MidOf(j, argv[c], o, si[c].nextchar) => Mid(c)
    BY Zenon DEF MidOf, Mid, Wd, WordAt
  <1>4. Mid(c)
    <2>1. CASE Fresh(c)
      BY <2>1 DEF Ranged, Mid
    <2>2. CASE ~Fresh(c)
      BY <1>2, <1>3, <2>2 DEF Fresh
    <2>3. QED
      BY <2>1, <2>2
  <1>5. Follows(c, S)
    BY <1>2 DEF Follows, Fresh
  <1>6. QED
    BY <1>2, <1>4, <1>5

\* A call that gives an operand back does not permute.
LEMMA SplitOperand ==
  ASSUME NEW c \in Ctx, Typed, Ranged(c), SplitAt(c), Modes, stage[c] = "Scanning", NonOption(c)
  PROVE  SplitAt(c)' /\ stage' = stage /\ rescanned' = rescanned
         /\ \A d \in Ctx : d # c => argv'[d] = argv[d] /\ si'[d] = si[d]
  <1> DEFINE r == Reached(c)
             j == job[c]
             N == Argc(c)
  <1>1. /\ ~AtOption(c, r) /\ r.optind < N /\ Mode(c) # "REQUIRE_ORDER" /\ stage' = stage
        /\ \E opt : opt \in Seq(STRING) /\ Steps(c, r, 1, <<>>, opt)
    BY OperandSteps
  <1>2. (Signless(j) <=> Mode(c) = "PERMUTE") /\ N \in Nat
    BY ModeSo, JobIs
  <1>3. ~Signless(j)
    <2>1. SUFFICES ASSUME Signless(j) PROVE FALSE
      OBVIOUS
    <2>2. r.nextchar = <<>> /\ ~IsOption(WordAt(c, r.argv, r.optind))
      BY <1>1 DEF AtOption
    <2>3. CASE ~rescanned[c]
      BY <1>1, <1>2, <2>1, <2>2, <2>3, FirstStarts, FirstReached
    <2>4. CASE rescanned[c]
      BY <1>1, <1>2, <2>1, <2>2, <2>4, SecondStarts, SecondReached
    <2>5. QED
      BY <2>3, <2>4
  <1>4. AsGiven(N, argv[c]) /\ (~Fresh(c) => si[c].first = si[c].last)
    BY <1>3 DEF SplitAt, SplitOf, Fresh
  <1>5. r.argv = argv[c] /\ r.first = r.last
    BY <1>1, <1>2, <1>3, <1>4, PlainReached
  <1>6. Steady(c, r)
    BY ReachedSteady
  <1> HIDE DEF r
  <1>7. PICK opt : Steps(c, r, 1, <<>>, opt)
    BY <1>1
  <1>8. /\ argv'[c] = r.argv /\ si'[c].optind = r.optind + 1 /\ si'[c].nextchar = <<>>
        /\ si'[c].first = r.first /\ si'[c].last = r.last
        /\ job' = job /\ rescanned' = rescanned /\ N' = N
        /\ \A d \in Ctx : d # c => argv'[d] = argv[d] /\ si'[d] = si[d]
    BY <1>7, StepsIs
  <1>9. SplitOf(j, N, argv[c], "Scanning", rescanned[c], r.optind + 1, r.first, r.first, <<>>)
    <2>1. HasAll(N, argv[c]) /\ (rescanned[c] => \E k \in 0 .. N : Halves(N, argv[c], k))
      BY DEF SplitAt, SplitOf
    <2>2. r.optind + 1 # 0
      BY <1>6 DEF Steady, Works
    <2>3. QED
      BY <1>3, <1>4, <2>1, <2>2 DEF SplitOf
  <1>10. SplitAt(c)'
    BY <1>1, <1>5, <1>8, <1>9 DEF SplitAt
  <1>11. QED
    BY <1>1, <1>8, <1>10

\* The call that says EOF leaves the words in two halves.
LEMMA SplitEnd ==
  ASSUME NEW c \in Ctx, Typed, Ranged(c), SplitAt(c), Modes, stage[c] = "Scanning", EndOfScan(c)
  PROVE  SplitAt(c)' /\ stage' = [stage EXCEPT ![c] = "Ended"] /\ rescanned' = rescanned
         /\ \A d \in Ctx : d # c => argv'[d] = argv[d] /\ si'[d] = si[d]
  <1> DEFINE r == Reached(c)
             j == job[c]
             N == Argc(c)
  <1>1. /\ r.optind = N \/ Mode(c) = "REQUIRE_ORDER"
        /\ stage' = [stage EXCEPT ![c] = "Ended"]
        /\ \E e, opt : /\ e \in Works(c) /\ e.argv = r.argv /\ e.optind = EndsAt(c, r)
                       /\ e.first = r.first /\ e.last = r.last
                       /\ opt \in Seq(STRING) /\ Steps(c, e, 0, <<>>, opt)
    BY EndSteps
  <1>2. (Signless(j) <=> Mode(c) = "PERMUTE") /\ N \in Nat
    BY ModeSo, JobIs
  <1>3. Steady(c, r) /\ HasAll(N, r.argv)
    BY ReachedSteady, ReachedHasAll DEF SplitAt, SplitOf
  <1>4. EndsAt(c, r) \in 0 .. N /\ EndsAt(c, r) + 0 = EndsAt(c, r)
    BY <1>2, <1>3 DEF Steady, Works, EndsAt
  <1>5. rescanned[c] => \E k \in 0 .. N : Halves(N, argv[c], k)
    BY DEF SplitAt, SplitOf
  <1>6. SplitOf(j, N, r.argv, "Ended", rescanned[c], EndsAt(c, r), r.first, r.last, <<>>)
    <2>1. CASE ~Signless(j)
      <3>1. AsGiven(N, argv[c]) /\ (~Fresh(c) => si[c].first = si[c].last)
        BY <2>1 DEF SplitAt, SplitOf, Fresh
      <3>2. r.argv = argv[c]
        BY <1>2, <2>1, <3>1, PlainReached
      <3>3. Halves(N, argv[c], EndsAt(c, r))
        BY <1>2, <1>4, <3>1, GivenIs
      <3> HIDE DEF r, j, N
      <3>4. QED
        BY <1>3, <1>5, <2>1, <3>1, <3>2, <3>3 DEF SplitOf
    <2>2. CASE Signless(j) /\ ~rescanned[c]
      <3>1. r.optind = N
        BY <1>1, <1>2, <2>2
      <3>2. Halves(N, r.argv, EndsAt(c, r)) /\ \E S : Safe(j, N, r.argv, S)
        BY <1>2, <2>2, <3>1, FirstStarts, FirstReached
      <3> HIDE DEF r, j, N
      <3>3. QED
        BY <1>3, <2>2, <3>2 DEF SplitOf
    <2>3. CASE Signless(j) /\ rescanned[c]
      <3>1. PICK S : Safe(j, N, argv[c], S) /\ Follows(c, S)
        BY <2>3, SecondStarts
      <3>2. r.argv = argv[c]
        BY <1>2, <2>3, <3>1, SecondReached
      <3> HIDE DEF r, j, N
      <3>3. QED
        BY <1>3, <1>5, <2>3, <3>1, <3>2 DEF SplitOf
    <2>4. QED
      BY <2>1, <2>2, <2>3
  <1> HIDE DEF r
  <1>7. PICK e, opt : /\ e.argv = r.argv /\ e.optind = EndsAt(c, r) /\ e.first = r.first /\ e.last = r.last
                      /\ Steps(c, e, 0, <<>>, opt)
    BY <1>1
  <1>8. /\ argv'[c] = r.argv /\ si'[c].optind = EndsAt(c, r) /\ si'[c].nextchar = <<>>
        /\ si'[c].first = r.first /\ si'[c].last = r.last
        /\ job' = job /\ rescanned' = rescanned /\ N' = N
        /\ \A d \in Ctx : d # c => argv'[d] = argv[d] /\ si'[d] = si[d]
    BY <1>4, <1>7, StepsIs
  <1>9. stage'[c] = "Ended"
    BY <1>1 DEF Typed
  <1>10. SplitAt(c)'
    BY <1>6, <1>8, <1>9 DEF SplitAt
  <1>11. QED
    BY <1>1, <1>8, <1>10

\* A call about an option, in a scan that does not permute,
LEMMA PlainOption ==
  ASSUME NEW c \in Ctx, Typed, Ranged(c), SplitAt(c), Modes, stage[c] = "Scanning",
         LongOption(c) \/ ShortOption(c), ~Signless(job[c])
  PROVE  \E r, n, rest, opt :
           /\ Steps(c, r, n, rest, opt)
           /\ SplitOf(job[c], Argc(c), r.argv, "Scanning", rescanned[c], r.optind + n, r.first, r.last, rest)
  <1> DEFINE r == Reached(c)
             j == job[c]
             N == Argc(c)
             w == WordAt(c, r.argv, r.optind)
             t == Text(c, r)
  <1>1. Found(c, r, w, t) /\ OptionStep(c, r, w, t) /\ r.optind < N
    BY OptionSteps DEF Found
  <1>2. PICK n, opt, rest : Steps(c, r, n, rest, opt) /\ n \in 0 .. 2
    <2>1. \E n, opt, rest : Steps(c, r, n, rest, opt) /\ (n = 0 \/ n = 1 \/ n = 2)
      BY <1>1, Zenon DEF OptionStep
    <2>2. QED
      BY <2>1
  <1>3. AsGiven(N, argv[c]) /\ (~Fresh(c) => si[c].first = si[c].last)
    BY DEF SplitAt, SplitOf, Fresh
  <1>4. r.argv = argv[c] /\ r.first = r.last
    BY <1>1, <1>3, ModeSo, PlainReached
  <1>5. HasAll(N, argv[c]) /\ (rescanned[c] => \E k \in 0 .. N : Halves(N, argv[c], k))
    BY DEF SplitAt, SplitOf
  <1>6. r.optind + n # 0
    BY <1>1, <1>2 DEF Found, Steady, Works
  <1> HIDE DEF r, j, N
  <1>7. SplitOf(j, N, r.argv, "Scanning", rescanned[c], r.optind + n, r.first, r.last, rest)
    <2>1. ~Signless(j)
      BY DEF j
    <2>2. QED
      BY <1>3, <1>4, <1>5, <1>6, <2>1 DEF SplitOf
  <1>8. QED
    BY <1>2, <1>7 DEF j, N

\* in a first scan,
LEMMA FirstOption ==
  ASSUME NEW c \in Ctx, Typed, Ranged(c), SplitAt(c), Modes, stage[c] = "Scanning",
         LongOption(c) \/ ShortOption(c), Signless(job[c]), ~rescanned[c]
  PROVE  \E r, n, rest, opt :
           /\ Steps(c, r, n, rest, opt)
           /\ SplitOf(job[c], Argc(c), r.argv, "Scanning", rescanned[c], r.optind + n, r.first, r.last, rest)
  <1> DEFINE r == Reached(c)
             j == job[c]
             N == Argc(c)
             w == WordAt(c, r.argv, r.optind)
  <1>1. Mid(c)
    BY FirstStarts
  <1>2. r.optind < N /\ Opens(w) /\ Advances(c, r, w)
    BY <1>1, OptionAdvances
  <1>3. Arranged(j, N, r.argv, r.first, r.last, r.optind)
    BY <1>2, ModeSo, FirstStarts, FirstReached
  <1>4. HasAll(N, r.argv)
    BY ReachedHasAll DEF SplitAt, SplitOf
  <1>5. Steady(c, r) /\ N \in Nat
    BY ReachedSteady, JobIs
  <1> HIDE DEF r, j, N, w
  <1>6. /\ N \in Nat /\ r.argv \in Cells(N, 1 .. N) /\ r.first \in Nat /\ r.last \in Nat /\ r.optind \in Nat
        /\ 1 <= r.first /\ r.first <= r.last /\ r.last <= r.optind /\ r.optind <= N
    BY <1>5 DEF Steady, Works, Positions, N
  <1>7. Shape(j, N, r.argv, r.first, r.last, r.optind)
    BY <1>6 DEF Shape
  <1>8. w = Wd(j, r.argv, r.optind)
    BY DEF w, j, WordAt, Wd
  <1>9. PICK n, opt, rest :
          /\ Steps(c, r, n, rest, opt)
          /\ \/ n = 0 /\ \E k \in Start(j, w) .. Len(w) : rest = Suffix(w, k) /\ ReadTo(j, w, k)
             \/ n = 1 /\ rest = <<>> /\ (Wanted(j, w) => r.optind + 1 = N)
             \/ n = 2 /\ rest = <<>> /\ Wanted(j, w) /\ r.optind + 2 <= N
    BY <1>2, Zenon DEF Advances, j, N
  <1>10. r.optind + n # 0 /\ FirstScan(j, N, r.argv, r.optind + n, r.first, r.last, rest)
    <2>1. CASE n = 0 /\ \E k \in Start(j, w) .. Len(w) : rest = Suffix(w, k) /\ ReadTo(j, w, k)
      <3>1. r.optind + n = r.optind /\ r.optind # 0
        BY <1>6, <2>1
      <3>2. MidOf(j, r.argv, r.optind, rest)
        BY <1>2, <1>8, <2>1, Zenon DEF MidOf
      <3>3. QED
        BY <1>3, <3>1, <3>2 DEF FirstScan
    <2>2. CASE n = 1 /\ rest = <<>> /\ (Wanted(j, w) => r.optind + 1 = N)
      <3>1. r.optind + 1 <= N /\ r.optind + 1 # 0 /\ 1 \in 1 .. 2
        BY <1>2, <1>6
      <3>2. Arranged(j, N, r.argv, r.first, r.last, r.optind + 1)
        BY <1>2, <1>3, <1>7, <1>8, <2>2, <3>1, ReadArranged
      <3>3. MidOf(j, r.argv, r.optind + 1, <<>>)
        BY DEF MidOf
      <3>4. QED
        BY <2>2, <3>1, <3>2, <3>3 DEF FirstScan
    <2>3. CASE n = 2 /\ rest = <<>> /\ Wanted(j, w) /\ r.optind + 2 <= N
      <3>1. r.optind + 2 <= N /\ r.optind + 2 # 0 /\ 2 \in 1 .. 2
        BY <1>6, <2>3
      <3>2. Arranged(j, N, r.argv, r.first, r.last, r.optind + 2)
        BY <1>2, <1>3, <1>7, <1>8, <2>3, <3>1, ReadArranged
      <3>3. MidOf(j, r.argv, r.optind + 2, <<>>)
        BY DEF MidOf
      <3>4. QED
        BY <2>3, <3>1, <3>2, <3>3 DEF FirstScan
    <2>4. QED
      BY <1>9, <2>1, <2>2, <2>3
  <1>11. SplitOf(j, N, r.argv, "Scanning", rescanned[c], r.optind + n, r.first, r.last, rest)
    <2>1. Signless(j) /\ ~rescanned[c]
      BY DEF j
    <2>2. QED
      BY <1>4, <1>10, <2>1 DEF SplitOf
  <1>12. QED
    BY <1>9, <1>11 DEF j, N

\* and in a second one.
LEMMA SecondOption ==
  ASSUME NEW c \in Ctx, Typed, Ranged(c), SplitAt(c), Modes, stage[c] = "Scanning",
         LongOption(c) \/ ShortOption(c), Signless(job[c]), rescanned[c]
  PROVE  \E r, n, rest, opt :
           /\ Steps(c, r, n, rest, opt)
           /\ SplitOf(job[c], Argc(c), r.argv, "Scanning", rescanned[c], r.optind + n, r.first, r.last, rest)
  <1> DEFINE r == Reached(c)
             j == job[c]
             N == Argc(c)
             a == argv[c]
             w == WordAt(c, r.argv, r.optind)
  <1>1. PICK S : Safe(j, N, a, S) /\ Follows(c, S) /\ Mid(c)
    BY SecondStarts
  <1>2. r.optind < N /\ Opens(w) /\ Advances(c, r, w)
    BY <1>1, OptionAdvances
  <1>3. r.argv = a /\ r.optind \in S /\ r.first = r.last
    BY <1>1, <1>2, ModeSo, SecondReached
  <1>4. HasAll(N, a) /\ \E k \in 0 .. N : Halves(N, a, k)
    BY DEF SplitAt, SplitOf
  <1>5. r.optind \in Nat /\ 1 <= r.optind /\ N \in Nat
    <2>1. Steady(c, r) /\ N \in Nat
      BY ReachedSteady, JobIs
    <2>2. QED
      BY <2>1 DEF Steady, Works
  <1> HIDE DEF r, j, N, w, a
  <1>6. w = Wd(j, a, r.optind)
    BY <1>3 DEF w, j, WordAt, Wd
  <1>7. IF Wanted(j, w) THEN r.optind + 1 = N \/ r.optind + 2 \in S ELSE r.optind + 1 \in S
    <2>1. SafeAt(j, N, a, S, r.optind)
      BY <1>1, <1>3 DEF Safe
    <2>2. ~Calm(j, N, a, r.optind) /\ w # Terminator
      <3>1. r.optind \in r.optind .. N - 1
        BY <1>2, <1>5
      <3>2. QED
        BY <1>2, <1>6, <3>1 DEF Calm, Opens
    <2>3. QED
      BY <1>6, <2>1, <2>2, Zenon DEF SafeAt
  <1>8. PICK n, opt, rest :
          /\ Steps(c, r, n, rest, opt)
          /\ \/ n = 0 /\ \E k \in Start(j, w) .. Len(w) : rest = Suffix(w, k) /\ ReadTo(j, w, k)
             \/ n = 1 /\ rest = <<>> /\ (Wanted(j, w) => r.optind + 1 = N)
             \/ n = 2 /\ rest = <<>> /\ Wanted(j, w) /\ r.optind + 2 <= N
    BY <1>2, Zenon DEF Advances, j, N
  <1>9. /\ r.optind + n # 0 /\ MidOf(j, a, r.optind + n, rest)
        /\ r.optind + n \in S \/ (Calm(j, N, a, r.optind + n) /\ rest = <<>>)
    <2>1. CASE n = 0 /\ \E k \in Start(j, w) .. Len(w) : rest = Suffix(w, k) /\ ReadTo(j, w, k)
      <3>1. r.optind + n = r.optind /\ r.optind # 0
        BY <1>5, <2>1
      <3>2. MidOf(j, a, r.optind, rest)
        BY <1>2, <1>6, <2>1, Zenon DEF MidOf
      <3>3. QED
        BY <1>3, <3>1, <3>2
    <2>2. CASE n = 1 /\ rest = <<>> /\ (Wanted(j, w) => r.optind + 1 = N)
      <3>1. r.optind + 1 # 0
        BY <1>5
      <3>2. MidOf(j, a, r.optind + 1, <<>>)
        BY DEF MidOf
      <3>3. Calm(j, N, a, N)
        BY <1>5 DEF Calm
      <3>4. QED
        BY <1>7, <2>2, <3>1, <3>2, <3>3
    <2>3. CASE n = 2 /\ rest = <<>> /\ Wanted(j, w) /\ r.optind + 2 <= N
      <3>1. r.optind + 2 # 0 /\ r.optind + 1 # N
        BY <1>5, <2>3
      <3>2. MidOf(j, a, r.optind + 2, <<>>)
        BY DEF MidOf
      <3>3. QED
        BY <1>7, <2>3, <3>1, <3>2
    <2>4. QED
      BY <1>8, <2>1, <2>2, <2>3
  <1>10. SecondScan(j, N, a, r.optind + n, r.first, r.last, rest)
    BY <1>1, <1>3, <1>9 DEF SecondScan
  <1>11. SplitOf(j, N, r.argv, "Scanning", rescanned[c], r.optind + n, r.first, r.last, rest)
    <2>1. Signless(j) /\ rescanned[c]
      BY DEF j
    <2>2. QED
      BY <1>3, <1>4, <1>9, <1>10, <2>1 DEF SplitOf
  <1>12. QED
    BY <1>8, <1>11 DEF j, N

\* A call that gives an option back keeps the words split.
LEMMA SplitOption ==
  ASSUME NEW c \in Ctx, Typed, Ranged(c), SplitAt(c), Modes, stage[c] = "Scanning",
         LongOption(c) \/ ShortOption(c)
  PROVE  SplitAt(c)' /\ stage' = stage /\ rescanned' = rescanned
         /\ \A d \in Ctx : d # c => argv'[d] = argv[d] /\ si'[d] = si[d]
  <1>1. stage' = stage
    BY OptionSteps
  <1>2. PICK r, n, rest, opt :
          /\ Steps(c, r, n, rest, opt)
          /\ SplitOf(job[c], Argc(c), r.argv, "Scanning", rescanned[c], r.optind + n, r.first, r.last, rest)
    BY PlainOption, FirstOption, SecondOption
  <1>3. /\ argv'[c] = r.argv /\ si'[c].optind = r.optind + n /\ si'[c].nextchar = rest
        /\ si'[c].first = r.first /\ si'[c].last = r.last
        /\ job' = job /\ rescanned' = rescanned /\ Argc(c)' = Argc(c)
        /\ \A d \in Ctx : d # c => argv'[d] = argv[d] /\ si'[d] = si[d]
    BY <1>2, StepsIs
  <1>4. SplitAt(c)'
    BY <1>1, <1>2, <1>3 DEF SplitAt
  <1>5. QED
    BY <1>1, <1>3, <1>4

\* A scan begins next to scans with its own ordering only.
LEMMA ModesStep ==
  ASSUME RangeInv, Modes, Heeds("Again"), Heeds("Mix"), [Next]_vars
  PROVE  Modes'
  <1> DEFINE O(d) == OrderingOf(job[d].prefix)
  <1>0. Typed
    BY DEF RangeInv
  <1>1. ASSUME job' = job, ordering' = ordering, \A d \in Ctx : stage'[d] = "Scanning" => stage[d] = "Scanning",
               \A d \in Ctx : stage'[d] = "Scanning" => si'[d].optind = si[d].optind
        PROVE  Modes'
    BY <1>1 DEF Modes, Fresh
  <1>2. ASSUME NEW c \in Ctx, job' = job, ordering' = ordering, Alone(c), si'[c].optind = 0,
               \A d \in Ctx : d # c => stage'[d] = stage[d] /\ si'[d] = si[d]
        PROVE  Modes'
    <2>1. ASSUME NEW d \in Ctx, stage'[d] = "Scanning" PROVE O(d) = O(c)
      BY <1>2, <2>1 DEF Alone
    <2>2. ASSUME NEW d \in Ctx, stage'[d] = "Scanning", ~Fresh(d)' PROVE ordering = O(d)
      <3>1. d # c
        BY <1>2, <2>2 DEF Fresh
      <3>2. QED
        BY <1>2, <2>2, <3>1 DEF Modes, Fresh
    <2> HIDE DEF O
    <2>3. \A d, e \in Ctx : stage'[d] = "Scanning" /\ stage'[e] = "Scanning" => O(d) = O(e)
      BY <2>1
    <2>4. QED
      BY <1>2, <2>2, <2>3 DEF Modes, O
  <1>3. ASSUME NEW c \in Ctx, Calling(c), job' = job, ordering' = Mode(c),
               \A d \in Ctx : stage'[d] = "Scanning" => stage[d] = "Scanning"
        PROVE  Modes'
    <2>1. stage[c] = "Scanning"
      BY <1>3, CallingScans
    <2>2. Mode(c) = O(c)
      BY <1>0, <2>1, ModeSo
    <2>3. \A d \in Ctx : stage'[d] = "Scanning" => O(d) = O(c)
      BY <1>3, <2>1 DEF Modes
    <2>4. QED
      BY <1>3, <2>2, <2>3 DEF Modes
  <1> HIDE DEF O
  <1>4. CASE UNCHANGED vars
    BY <1>1, <1>4 DEF vars
  <1>5. ASSUME NEW c \in Ctx, Create(c) PROVE Modes'
    <2>1. /\ stage[c] = "None" /\ Alone(c) /\ stage' = [stage EXCEPT ![c] = "Scanning"]
          /\ ordering' = ordering /\ job' = job /\ si' = si
      BY <1>5 DEF Create
    <2>2. si[c].optind = 0
      BY <2>1 DEF RangeInv, Ranged, Zeroed
    <2>3. QED
      BY <1>0, <1>2, <2>1, <2>2 DEF Typed
  <1>6. ASSUME NEW c \in Ctx, Rescan(c) PROVE Modes'
    <2>1. /\ Alone(c) /\ stage' = [stage EXCEPT ![c] = "Scanning"] /\ si' = [si EXCEPT ![c].optind = 0]
          /\ ordering' = ordering /\ job' = job
      BY <1>6 DEF Rescan
    <2>2. si'[c].optind = 0 /\ \A d \in Ctx : d # c => stage'[d] = stage[d] /\ si'[d] = si[d]
      BY <1>0, <2>1 DEF Typed, Contexts
    <2>3. QED
      BY <1>2, <2>1, <2>2
  <1>7. ASSUME NEW c \in Ctx, Delete(c) PROVE Modes'
    <2>1. /\ stage' = [stage EXCEPT ![c] = "None"] /\ si' = [si EXCEPT ![c] = Zeroed]
          /\ ordering' = ordering /\ job' = job
      BY <1>7 DEF Delete
    <2>2. \A d \in Ctx : stage'[d] = "Scanning" => d # c /\ stage[d] = "Scanning" /\ si'[d] = si[d]
      BY <1>0, <2>1 DEF Typed
    <2>3. QED
      BY <1>1, <2>1, <2>2
  <1>8. ASSUME NEW c \in Ctx, ClearOptopt(c) PROVE Modes'
    <2>1. si' = [si EXCEPT ![c].optopt = NoArg] /\ ordering' = ordering /\ stage' = stage /\ job' = job
      BY <1>8 DEF ClearOptopt
    <2>2. \A d \in Ctx : si'[d].optind = si[d].optind
      BY <1>0, <2>1 DEF Typed, Contexts
    <2>3. QED
      BY <1>1, <2>1, <2>2
  <1>9. ASSUME NEW c \in Ctx, EndOfScan(c) PROVE Modes'
    <2>1. Calling(c) /\ job' = job /\ ordering' = Mode(c) /\ stage' = [stage EXCEPT ![c] = "Ended"]
      BY <1>9 DEF EndOfScan, Returns
    <2>2. \A d \in Ctx : stage'[d] = "Scanning" => stage[d] = "Scanning"
      BY <1>0, <2>1 DEF Typed
    <2>3. QED
      BY <1>3, <2>1, <2>2
  <1>10. ASSUME NEW c \in Ctx, NonOption(c) PROVE Modes'
    <2>1. Calling(c) /\ job' = job /\ ordering' = Mode(c) /\ stage' = stage
      BY <1>10 DEF NonOption, Returns
    <2>2. QED
      BY <1>3, <2>1
  <1>11. ASSUME NEW c \in Ctx, LongOption(c) \/ ShortOption(c) PROVE Modes'
    <2>1. Calling(c)
      BY <1>11 DEF LongOption, ShortOption
    <2>2. Typed /\ Ranged(c) /\ stage[c] = "Scanning"
      BY <2>1, CallingScans
    <2>3. stage' = stage /\ \E w, t : OptionStep(c, Reached(c), w, t)
      BY <1>11, <2>2, OptionSteps
    <2>4. job' = job /\ ordering' = Mode(c)
      BY <2>3, Zenon DEF OptionStep, Steps
    <2>5. QED
      BY <1>3, <2>1, <2>3, <2>4
  <1>12. QED
    BY <1>4, <1>5, <1>6, <1>7, <1>8, <1>9, <1>10, <1>11 DEF Next

SplitInv == Modes /\ \A c \in Ctx : SplitAt(c)

\* Initially the words are as given.
LEMMA SplitInit == Init => SplitInv
  <1> SUFFICES ASSUME Init PROVE SplitInv
    OBVIOUS
  <1>1. Typed
    BY RangeInit DEF RangeInv
  <1>2. Modes
    BY DEF Init, Modes
  <1>3. ASSUME NEW c \in Ctx PROVE SplitAt(c)
    <2>1. stage[c] = "None" /\ rescanned[c] = FALSE /\ argv[c] = Given(job[c])
      BY DEF Init
    <2>2. AsGiven(Argc(c), argv[c]) /\ Argc(c) \in Nat
      BY <1>1, <2>1, JobIs DEF Given, AsGiven, Argc
    <2>3. HasAll(Argc(c), argv[c])
      BY <2>2, GivenIs
    <2>4. QED
      BY <2>1, <2>2, <2>3 DEF SplitAt, SplitOf
  <1>4. QED
    BY <1>2, <1>3 DEF SplitInv

\* The three calls that begin a scan or clear a context,
LEMMA SplitCreate ==
  ASSUME NEW c \in Ctx, Typed, Ranged(c), SplitAt(c), Create(c)
  PROVE  SplitAt(c)'
  <1>1. /\ stage[c] = "None" /\ stage' = [stage EXCEPT ![c] = "Scanning"] /\ job' = job /\ argv' = argv
        /\ si' = si /\ rescanned' = rescanned
    BY DEF Create
  <1>2. stage'[c] = "Scanning" /\ Argc(c)' = Argc(c)
    BY <1>1 DEF Typed, Argc
  <1>3. si[c].optind = 0 /\ ~rescanned[c] /\ AsGiven(Argc(c), argv[c]) /\ HasAll(Argc(c), argv[c])
    BY <1>1 DEF Ranged, Zeroed, SplitAt, SplitOf
  <1>4. SplitOf(job[c], Argc(c), argv[c], "Scanning", rescanned[c], 0, si[c].first, si[c].last, si[c].nextchar)
    BY <1>3 DEF SplitOf
  <1>5. QED
    BY <1>1, <1>2, <1>3, <1>4 DEF SplitAt

\* A context that is deleted has its words as given,
LEMMA SplitDelete ==
  ASSUME NEW c \in Ctx, Typed, Ranged(c), SplitAt(c), Delete(c)
  PROVE  SplitAt(c)'
  <1>1. /\ stage' = [stage EXCEPT ![c] = "None"] /\ si' = [si EXCEPT ![c] = Zeroed]
        /\ argv' = [argv EXCEPT ![c] = Given(job[c])] /\ rescanned' = [rescanned EXCEPT ![c] = FALSE] /\ job' = job
    BY DEF Delete
  <1>2. stage'[c] = "None" /\ argv'[c] = Given(job[c]) /\ rescanned'[c] = FALSE /\ Argc(c)' = Argc(c)
    BY <1>1 DEF Typed, Argc
  <1>3. AsGiven(Argc(c), Given(job[c])) /\ Argc(c) \in Nat
    BY JobIs DEF Given, AsGiven, Argc
  <1>4. HasAll(Argc(c), Given(job[c]))
    BY <1>3, GivenIs
  <1>5. \A o, f, l, t : SplitOf(job[c], Argc(c), Given(job[c]), "None", FALSE, o, f, l, t)
    BY <1>3, <1>4 DEF SplitOf
  <1>6. SplitOf(job[c], Argc(c), Given(job[c]), "None", FALSE, si'[c].optind, si'[c].first, si'[c].last, si'[c].nextchar)
    BY <1>5
  <1>7. job'[c] = job[c]
    BY <1>1
  <1>8. QED
    BY <1>2, <1>6, <1>7, Zenon DEF SplitAt

\* one that is scanned again starts from what the scan before has left,
LEMMA SplitRescan ==
  ASSUME NEW c \in Ctx, Typed, Ranged(c), SplitAt(c), Rescan(c)
  PROVE  SplitAt(c)'
  <1> DEFINE j == job[c]
             N == Argc(c)
             a == argv[c]
  <1>1. /\ stage[c] = "Ended" /\ ~rescanned[c] /\ stage' = [stage EXCEPT ![c] = "Scanning"]
        /\ si' = [si EXCEPT ![c].optind = 0] /\ rescanned' = [rescanned EXCEPT ![c] = TRUE]
        /\ argv' = argv /\ job' = job
    BY DEF Rescan
  <1>2. stage'[c] = "Scanning" /\ si'[c].optind = 0 /\ rescanned'[c] = TRUE /\ Argc(c)' = N
    BY <1>1 DEF Typed, Contexts, Argc
  <1>3. /\ HasAll(N, a) /\ (~Signless(j) => AsGiven(N, a)) /\ (Signless(j) => \E S : Safe(j, N, a, S))
        /\ Halves(N, a, si[c].optind)
    BY <1>1 DEF SplitAt, SplitOf
  <1>4. si[c].optind \in 0 .. N
    BY <1>1, JobIs DEF Ranged, Fresh, Typed, Contexts
  <1> HIDE DEF j, N, a
  <1>5. ASSUME NEW f, NEW l, NEW t PROVE SplitOf(j, N, a, "Scanning", TRUE, 0, f, l, t)
    <2>1. Signless(j) => SecondScan(j, N, a, 0, f, l, t)
      BY <1>3 DEF SecondScan
    <2>2. QED
      BY <1>3, <1>4, <2>1 DEF SplitOf
  <1>6. QED
    BY <1>1, <1>2, <1>5 DEF SplitAt, j, N, a

\* and clearing optopt does not touch them.
LEMMA SplitClear ==
  ASSUME NEW c \in Ctx, Typed, SplitAt(c), ClearOptopt(c)
  PROVE  SplitAt(c)'
  <1>1. /\ si' = [si EXCEPT ![c].optopt = NoArg] /\ stage' = stage /\ job' = job /\ argv' = argv
        /\ rescanned' = rescanned
    BY DEF ClearOptopt
  <1>2. /\ si'[c].optind = si[c].optind /\ si'[c].nextchar = si[c].nextchar
        /\ si'[c].first = si[c].first /\ si'[c].last = si[c].last /\ Argc(c)' = Argc(c)
    BY <1>1 DEF Typed, Contexts, Argc
  <1>3. QED
    BY <1>1, <1>2 DEF SplitAt

\* so that every call keeps the words split, of its own context and of the others.
LEMMA SplitStep ==
  ASSUME RangeInv, SplitInv, Heeds("Again"), Heeds("Mix"), [Next]_vars
  PROVE  SplitInv'
  <1>0. Typed /\ Modes /\ \A c \in Ctx : Ranged(c) /\ SplitAt(c)
    BY DEF RangeInv, SplitInv
  <1>1. Modes'
    BY <1>0, ModesStep
  <1>2. ASSUME NEW c \in Ctx, SplitAt(c)', job' = job,
               \A d \in Ctx : d # c => /\ stage'[d] = stage[d] /\ rescanned'[d] = rescanned[d]
                                       /\ argv'[d] = argv[d] /\ si'[d] = si[d]
        PROVE  \A d \in Ctx : SplitAt(d)'
    BY <1>0, <1>2, SplitKept
  <1>3. CASE UNCHANGED vars
    <2>1. \A d \in Ctx : SplitAt(d)'
      BY <1>0, <1>3, SplitKept DEF vars
    <2>2. QED
      BY <1>1, <2>1 DEF SplitInv
  <1>4. ASSUME NEW c \in Ctx, Create(c) \/ Delete(c) \/ Rescan(c) \/ ClearOptopt(c)
        PROVE  \A d \in Ctx : SplitAt(d)'
    <2>1. SplitAt(c)'
      BY <1>0, <1>4, SplitCreate, SplitDelete, SplitRescan, SplitClear
    <2>2. job' = job
      BY <1>4 DEF Create, Delete, Rescan, ClearOptopt
    <2>3. ASSUME NEW d \in Ctx, d # c
          PROVE  /\ stage'[d] = stage[d] /\ rescanned'[d] = rescanned[d]
                 /\ argv'[d] = argv[d] /\ si'[d] = si[d]
      <3>1. DOMAIN stage = Ctx /\ DOMAIN rescanned = Ctx /\ DOMAIN argv = Ctx /\ DOMAIN si = Ctx
        BY <1>0 DEF Typed
      <3>2. CASE Create(c)
        BY <2>3, <3>1, <3>2 DEF Create
      <3>3. CASE Delete(c)
        BY <2>3, <3>1, <3>3 DEF Delete
      <3>4. CASE Rescan(c)
        BY <2>3, <3>1, <3>4 DEF Rescan
      <3>5. CASE ClearOptopt(c)
        BY <2>3, <3>1, <3>5 DEF ClearOptopt
      <3>6. QED
        BY <1>4, <3>2, <3>3, <3>4, <3>5
    <2>4. QED
      BY <1>2, <2>1, <2>2, <2>3
  <1>5. ASSUME NEW c \in Ctx, EndOfScan(c) PROVE \A d \in Ctx : SplitAt(d)'
    <2>1. Calling(c) /\ job' = job
      BY <1>5 DEF EndOfScan, Returns
    <2>2. stage[c] = "Scanning"
      BY <2>1, CallingScans
    <2>3. SplitAt(c)' /\ stage' = [stage EXCEPT ![c] = "Ended"] /\ rescanned' = rescanned
          /\ \A d \in Ctx : d # c => argv'[d] = argv[d] /\ si'[d] = si[d]
      BY <1>0, <1>5, <2>2, SplitEnd
    <2>4. \A d \in Ctx : d # c => stage'[d] = stage[d]
      BY <1>0, <2>3 DEF Typed
    <2>5. QED
      BY <1>2, <2>1, <2>3, <2>4
  <1>6. ASSUME NEW c \in Ctx, NonOption(c) PROVE \A d \in Ctx : SplitAt(d)'
    <2>1. Calling(c) /\ job' = job
      BY <1>6 DEF NonOption, Returns
    <2>2. stage[c] = "Scanning"
      BY <2>1, CallingScans
    <2>3. SplitAt(c)' /\ stage' = stage /\ rescanned' = rescanned
          /\ \A d \in Ctx : d # c => argv'[d] = argv[d] /\ si'[d] = si[d]
      BY <1>0, <1>6, <2>2, SplitOperand
    <2>4. QED
      BY <1>2, <2>1, <2>3
  <1>7. ASSUME NEW c \in Ctx, LongOption(c) \/ ShortOption(c) PROVE \A d \in Ctx : SplitAt(d)'
    <2>1. Calling(c)
      BY <1>7 DEF LongOption, ShortOption
    <2>2. stage[c] = "Scanning"
      BY <2>1, CallingScans
    <2>3. SplitAt(c)' /\ stage' = stage /\ rescanned' = rescanned
          /\ \A d \in Ctx : d # c => argv'[d] = argv[d] /\ si'[d] = si[d]
      BY <1>0, <1>7, <2>2, SplitOption
    <2>4. job' = job
      <3>1. \E w, t : OptionStep(c, Reached(c), w, t)
        BY <1>0, <1>7, <2>2, OptionSteps
      <3>2. QED
        BY <3>1, Zenon DEF OptionStep, Steps
    <2>5. QED
      BY <1>2, <2>3, <2>4
  <1>8. QED
    BY <1>1, <1>3, <1>4, <1>5, <1>6, <1>7 DEF Next, SplitInv

\* What the invariant says of a context is more than its words being split.
LEMMA SplitImplies ==
  ASSUME RangeInv, SplitInv
  PROVE  StableSplit
  <1>1. TypeOK
    <2>1. ordering \in Orderings
      BY DEF RangeInv, Typed
    <2>2. ASSUME NEW c \in Ctx
          PROVE  /\ stage[c] \in {"None", "Scanning", "Ended"} /\ rescanned[c] \in BOOLEAN
                 /\ argv[c] \in [0 .. Argc(c) - 1 -> 1 .. Argc(c)]
                 /\ Fresh(c) \/ /\ si[c].optind \in 1 .. Argc(c)
                                /\ 1 <= si[c].first /\ si[c].first <= si[c].last
                                /\ si[c].last <= Argc(c)
                 /\ si[c].nextchar # <<>> => si[c].optind < Argc(c)
      <3>1. Typed /\ Ranged(c)
        BY DEF RangeInv
      <3>2. stage[c] \in {"None", "Scanning", "Ended"} /\ rescanned[c] \in BOOLEAN
        BY <3>1, Zenon DEF Typed, Stages
      <3>3. argv[c] \in [0 .. Argc(c) - 1 -> 1 .. Argc(c)]
        BY <3>1 DEF Ranged, Cells, Positions
      <3>4. si[c].optind \in Nat /\ Argc(c) \in Nat
        BY <3>1, JobIs DEF Typed, Contexts
      <3>5. Fresh(c) \/ /\ si[c].optind \in 1 .. Argc(c)
                        /\ 1 <= si[c].first /\ si[c].first <= si[c].last
                        /\ si[c].last <= Argc(c)
        BY <3>1, <3>4 DEF Ranged, Fresh
      <3>6. si[c].nextchar # <<>> => si[c].optind < Argc(c)
        BY <3>1 DEF Ranged
      <3>7. QED
        BY <3>2, <3>3, <3>5, <3>6
    <2>3. QED
      BY <2>1, <2>2, Zenon DEF TypeOK
  <1>2. ASSUME NEW c \in Ctx
        PROVE  /\ {argv[c][i] : i \in DOMAIN argv[c]} = 1 .. Argc(c)
               /\ stage[c] = "Ended" /\ ~rescanned[c] => Split(c, si[c].optind)
               /\ rescanned[c] => \E at \in 0 .. Argc(c) : Split(c, at)
    <2>1. SplitAt(c) /\ argv[c] \in Cells(Argc(c), Positions(c))
      BY DEF SplitInv, RangeInv, Ranged
    <2>2. {argv[c][i] : i \in DOMAIN argv[c]} = 1 .. Argc(c)
      BY <2>1 DEF SplitAt, SplitOf, HasAll, Cells, Positions
    <2>3. \A k : Halves(Argc(c), argv[c], k) <=> Split(c, k)
      BY DEF Halves, Split
    <2>4. QED
      BY <2>1, <2>2, <2>3 DEF SplitAt, SplitOf
  <1>3. QED
    BY <1>1, <1>2 DEF StableSplit

\* Permuting loses no word, and in the end options and operands are each in the order
\* given, after a second scan as after the first; for every command line and any
\* number of contexts, whose callers heed EOF and do not mix orderings.
THEOREM SplitsStably == Heeds("Again") /\ Heeds("Mix") => (Spec => []StableSplit)
  <1> SUFFICES ASSUME Heeds("Again"), Heeds("Mix") PROVE Spec => []StableSplit
    OBVIOUS
  <1>1. Init => RangeInv /\ SplitInv
    BY RangeInit, SplitInit
  <1>2. (RangeInv /\ SplitInv) /\ [Next]_vars => (RangeInv /\ SplitInv)'
    BY RangeStep, SplitStep
  <1>3. RangeInv /\ SplitInv => StableSplit
    BY SplitImplies
  <1>4. QED
    BY <1>1, <1>2, <1>3, PTL DEF Spec

--------------------------------------------------------------------------------
\* The cells of a row from i up to k, as a sequence.
Run(v, i, k) == [n \in 1 .. k - i |-> v[i + n - 1]]

\* A run is as long as it should be,
LEMMA RunIs ==
  ASSUME NEW N \in Nat, NEW S, NEW v \in Cells(N, S), NEW i \in Nat, NEW k \in Nat, i <= k, k <= N
  PROVE  Run(v, i, k) \in Seq(S) /\ Len(Run(v, i, k)) = k - i
  <1>1. k - i \in Nat
    OBVIOUS
  <1>2. ASSUME NEW n \in 1 .. k - i PROVE v[i + n - 1] \in S
    <2>1. i + n - 1 \in 0 .. N - 1
      OBVIOUS
    <2>2. QED
      BY <2>1 DEF Cells
  <1>3. Run(v, i, k) \in [1 .. k - i -> S]
    BY <1>2 DEF Run
  <1>4. QED
    BY <1>1, <1>3

\* holds the cells,
LEMMA RunAt ==
  ASSUME NEW v, NEW i, NEW k, NEW n \in 1 .. k - i
  PROVE  Run(v, i, k)[n] = v[i + n - 1]
  BY DEF Run

\* and is empty when it ends where it begins.
LEMMA EmptyRun ==
  ASSUME NEW v, NEW i \in Nat
  PROVE  Run(v, i, i) = <<>>
  <1>1. Run(v, i, i) \in [1 .. 0 -> {v[i + n - 1] : n \in 1 .. 0}]
    BY DEF Run
  <1>2. QED
    BY <1>1

\* Places in a row of N cells, one after the other.
Ascend(i, a, b, k, N) ==
  /\ i \in Nat /\ a \in Nat /\ b \in Nat /\ k \in Nat /\ N \in Nat
  /\ i <= a /\ a <= b /\ b <= k /\ k <= N

\* Whatever holds the same is the same.
Copied(s, S, v, i, k, N) ==
  /\ Ascend(i, i, k, k, N) /\ s \in Seq(S) /\ Len(s) = k - i
  /\ \A n \in 1 .. k - i : s[n] = v[i + n - 1]

\* A sequence as long as a run, with its cells, is the run.
LEMMA SameRun ==
  ASSUME NEW N \in Nat, NEW S, NEW v \in Cells(N, S), NEW i, NEW k, NEW s, Copied(s, S, v, i, k, N)
  PROVE  s = Run(v, i, k)
  <1> DEFINE t == Run(v, i, k)
  <1>0. i \in Nat /\ k \in Nat /\ i <= k /\ k <= N /\ s \in Seq(S)
    BY DEF Copied, Ascend
  <1>1. t \in Seq(S)
    BY <1>0, RunIs
  <1>2. Len(t) = k - i
    BY <1>0, RunIs
  <1>3. \A n \in 1 .. k - i : s[n] = t[n]
    BY DEF Run, Copied
  <1>4. Len(s) = k - i
    BY DEF Copied
  <1> HIDE DEF t
  <1>5. s = t
    BY <1>0, <1>1, <1>2, <1>3, <1>4, SeqEqual
  <1>6. QED
    BY <1>5 DEF t

\* A part of a run is a run,
LEMMA RunPart ==
  ASSUME NEW N \in Nat, NEW S, NEW v \in Cells(N, S), NEW i, NEW a, NEW b, NEW k, Ascend(i, a, b, k, N)
  PROVE  SubSeq(Run(v, i, k), (a - i) + 1, b - i) = Run(v, a, b)
  <1> DEFINE x == Run(v, i, k)
             p == (a - i) + 1
             q == b - i
             s == SubSeq(x, p, q)
  <1>0. /\ i \in Nat /\ a \in Nat /\ b \in Nat /\ k \in Nat /\ i <= a /\ a <= b /\ b <= k /\ k <= N
        /\ i <= k /\ b <= N
    BY DEF Ascend
  <1>1. x \in Seq(S)
    BY <1>0, RunIs
  <1>2. Len(x) = k - i
    BY <1>0, RunIs
  <1>3. \A n \in 1 .. k - i : x[n] = v[i + n - 1]
    BY RunAt
  <1> HIDE DEF x
  <1>4. p \in 1 .. Len(x) + 1 /\ q \in p - 1 .. Len(x)
    BY <1>0, <1>2
  <1>5. /\ s \in Seq(S) /\ Len(s) = q - p + 1
        /\ \A n \in 1 .. q - p + 1 : s[n] = x[p + n - 1]
    BY <1>1, <1>4, SubSeqProperties
  <1> HIDE DEF s
  <1>6. q - p + 1 = b - a
    BY <1>0
  <1> HIDE DEF p, q
  <1>7. s \in Seq(S)
    BY <1>5
  <1>8. Len(s) = b - a
    BY <1>5, <1>6
  <1>9. ASSUME NEW n \in 1 .. b - a PROVE s[n] = v[a + n - 1]
    <2>1. n \in 1 .. q - p + 1 /\ p + n - 1 \in 1 .. k - i /\ i + (p + n - 1) - 1 = a + n - 1
      BY <1>0 DEF p, q
    <2>2. QED
      BY <1>3, <1>5, <2>1
  <1>10. s = Run(v, a, b)
    <2>1. Copied(s, S, v, a, b, N)
      BY <1>0, <1>7, <1>8, <1>9 DEF Copied, Ascend
    <2>2. QED
      BY <2>1, SameRun
  <1>11. QED
    BY <1>10 DEF s, x, p, q

\* The start of a run is a run.
LEMMA RunStart ==
  ASSUME NEW N \in Nat, NEW S, NEW v \in Cells(N, S), NEW i, NEW m, NEW k, Ascend(i, i, m, k, N)
  PROVE  SubSeq(Run(v, i, k), 1, m - i) = Run(v, i, m)
  <1> DEFINE a == i
  <1>1. Ascend(i, a, m, k, N)
    BY DEF Ascend
  <1>2. (a - i) + 1 = 1
    BY DEF Ascend
  <1> HIDE DEF a
  <1>3. SubSeq(Run(v, i, k), (a - i) + 1, m - i) = Run(v, a, m)
    BY <1>1, RunPart
  <1>4. QED
    BY <1>2, <1>3 DEF a

\* and so are two that meet.
LEMMA RunsMeet ==
  ASSUME NEW N \in Nat, NEW S, NEW v \in Cells(N, S), NEW i, NEW m, NEW k, Ascend(i, i, m, k, N)
  PROVE  Run(v, i, m) \o Run(v, m, k) = Run(v, i, k)
  <1> DEFINE x == Run(v, i, m)
             y == Run(v, m, k)
             s == x \o y
  <1>1. /\ i \in Nat /\ m \in Nat /\ k \in Nat /\ i <= m /\ m <= k /\ k <= N
        /\ i <= k /\ m <= N
    BY DEF Ascend
  <1>2. x \in Seq(S)
    BY <1>1, RunIs
  <1>3. y \in Seq(S)
    BY <1>1, RunIs
  <1>4. Len(x) = m - i
    BY <1>1, RunIs
  <1>5. Len(y) = k - m
    BY <1>1, RunIs
  <1>6. \A n \in 1 .. m - i : x[n] = v[i + n - 1]
    BY RunAt
  <1>7. \A n \in 1 .. k - m : y[n] = v[m + n - 1]
    BY RunAt
  <1> HIDE DEF x, y
  <1>8. /\ s \in Seq(S) /\ Len(s) = Len(x) + Len(y)
        /\ \A n \in 1 .. Len(x) + Len(y) : s[n] = IF n <= Len(x) THEN x[n] ELSE y[n - Len(x)]
    BY <1>2, <1>3, ConcatProperties
  <1> HIDE DEF s
  <1>9. Len(s) = k - i
    BY <1>1, <1>4, <1>5, <1>8
  <1>10. ASSUME NEW n \in 1 .. k - i PROVE s[n] = v[i + n - 1]
    <2>0. s[n] = IF n <= m - i THEN x[n] ELSE y[n - (m - i)]
      BY <1>1, <1>4, <1>5, <1>8
    <2>1. CASE n <= m - i
      BY <1>1, <1>6, <2>0, <2>1
    <2>2. CASE n > m - i
      <3>1. n - (m - i) \in 1 .. k - m /\ m + (n - (m - i)) - 1 = i + n - 1 /\ ~(n <= m - i)
        BY <1>1, <2>2
      <3>2. QED
        BY <1>7, <2>0, <3>1
    <2>3. QED
      BY <1>1, <2>1, <2>2
  <1>11. s = Run(v, i, k)
    <2>1. Copied(s, S, v, i, k, N)
      BY <1>1, <1>8, <1>9, <1>10 DEF Copied, Ascend
    <2>2. QED
      BY <2>1, SameRun
  <1>12. QED
    BY <1>11 DEF s, x, y

\* The first of a run and what is behind it.
LEMMA RunHead ==
  ASSUME NEW N \in Nat, NEW S, NEW v \in Cells(N, S), NEW i \in Nat, NEW k \in Nat, i < k, k <= N
  PROVE  Run(v, i, k) # <<>> /\ Head(Run(v, i, k)) = v[i] /\ Tail(Run(v, i, k)) = Run(v, i + 1, k)
  <1> DEFINE s == Run(v, i, k)
  <1>1. s \in Seq(S)
    BY RunIs
  <1>2. Len(s) = k - i
    BY RunIs
  <1>3. s[1] = v[i]
    <2>1. 1 \in 1 .. k - i /\ i + 1 - 1 = i
      OBVIOUS
    <2>2. QED
      BY <2>1, RunAt
  <1>4. SubSeq(s, 2, k - i) = Run(v, i + 1, k)
    <2> DEFINE m == i + 1
    <2>1. Ascend(i, m, k, k, N)
      BY DEF Ascend
    <2>2. (m - i) + 1 = 2
      OBVIOUS
    <2> HIDE DEF m
    <2>3. SubSeq(s, (m - i) + 1, k - i) = Run(v, m, k)
      BY <2>1, RunPart
    <2>4. QED
      BY <2>2, <2>3 DEF m
  <1> HIDE DEF s
  <1>5. s # <<>>
    BY <1>1, <1>2, EmptySeq
  <1>6. Head(s) = v[i] /\ Tail(s) = SubSeq(s, 2, Len(s))
    BY <1>1, <1>3, <1>5
  <1>7. QED
    BY <1>2, <1>4, <1>5, <1>6 DEF s

\* The words of a row of pointers.
Texts == Seq(STRING)
Line(j, N, a) == [i \in 0 .. N - 1 |-> j.words[a[i]]]

\* Pointers to words are a row of words.
LEMMA LineIs ==
  ASSUME NEW j, NEW N \in Nat, N = Len(j.words), j.words \in Seq(Seq(STRING)), NEW a \in Cells(N, 1 .. N)
  PROVE  Line(j, N, a) \in Cells(N, Texts)
  <1>1. ASSUME NEW i \in 0 .. N - 1 PROVE j.words[a[i]] \in Seq(STRING)
    <2>1. a[i] \in 1 .. N
      BY DEF Cells
    <2>2. QED
      BY <2>1, ElementOfSeq
  <1>2. QED
    BY <1>1 DEF Line, Cells, Texts

\* Runs of the same cells, of two rows.
Alike(v, w, i, k, p, q) == k - i = q - p /\ \A n \in 0 .. (k - i) - 1 : v[i + n] = w[p + n]

\* Runs of two rows that agree there are one.
LEMMA RunsAlike ==
  ASSUME NEW v, NEW w, NEW i \in Nat, NEW k \in Nat, NEW p \in Nat, NEW q \in Nat, Alike(v, w, i, k, p, q)
  PROVE  Run(v, i, k) = Run(w, p, q)
  <1>1. ASSUME NEW n \in 1 .. k - i PROVE v[i + n - 1] = w[p + n - 1]
    <2>1. n - 1 \in 0 .. (k - i) - 1 /\ i + n - 1 = i + (n - 1) /\ p + n - 1 = p + (n - 1)
      OBVIOUS
    <2>2. QED
      BY <2>1 DEF Alike
  <1>2. k - i = q - p
    BY DEF Alike
  <1>3. QED
    BY <1>1, <1>2 DEF Run

\* The words a context has before it, from a place on.
LineFrom(j, N, a, from) == [i \in 1 .. N - from |-> j.words[a[from + i - 1]]]

\* The words from a place on are a run of the row.
LEMMA WordsRun ==
  ASSUME NEW j, NEW N \in Nat, NEW a, NEW from \in Nat, from <= N
  PROVE  LineFrom(j, N, a, from) = Run(Line(j, N, a), from, N)
  <1> DEFINE v == Line(j, N, a)
  <1>1. ASSUME NEW i \in 1 .. N - from PROVE j.words[a[from + i - 1]] = v[from + i - 1]
    <2>1. from + i - 1 \in 0 .. N - 1
      OBVIOUS
    <2>2. QED
      BY <2>1 DEF Line
  <1> HIDE DEF v
  <1>2. QED
    BY <1>1 DEF Run, LineFrom, v

\* Exchanging two runs of pointers moves the words of the lower one up to the end of
\* the higher, and none beyond.
LineTurned(j, N, v, w, f, l, o) ==
  /\ Ascend(f, f, l, o, N)
  /\ \E a \in Cells(N, 1 .. N) : v = Line(j, N, a) /\ w = Line(j, N, Rot(a, f, l, o))

\* Rotating the pointers rotates the words.
LEMMA LineRot ==
  ASSUME NEW j, NEW N, NEW v, NEW w, NEW f, NEW l, NEW o, LineTurned(j, N, v, w, f, l, o)
  PROVE  /\ Run(w, f + (o - l), o) = Run(v, f, l)
         /\ \A i, k \in o .. N : i <= k => Run(w, i, k) = Run(v, i, k)
  <1>0. /\ N \in Nat /\ f \in Nat /\ l \in Nat /\ o \in Nat /\ f <= l /\ l <= o /\ o <= N
        /\ \E a \in Cells(N, 1 .. N) : v = Line(j, N, a) /\ w = Line(j, N, Rot(a, f, l, o))
    BY DEF LineTurned, Ascend
  <1> PICK a \in Cells(N, 1 .. N) : v = Line(j, N, a) /\ w = Line(j, N, Rot(a, f, l, o))
    BY <1>0
  <1> DEFINE g == f + (o - l)
             b == Rot(a, f, l, o)
  <1>1. ASSUME NEW n \in 0 .. (o - g) - 1 PROVE w[g + n] = v[f + n]
    <2>1. g + n \in 0 .. N - 1 /\ f + n \in 0 .. N - 1
      BY <1>0
    <2>2. f + (o - l) <= g + n /\ g + n < o /\ (g + n) - (o - l) = f + n
      BY <1>0
    <2>3. b[g + n] = a[(g + n) - (o - l)]
      BY <1>0, <2>1, <2>2, RotCell
    <2>4. b[g + n] = a[f + n]
      BY <2>2, <2>3
    <2>5. QED
      BY <2>1, <2>4 DEF Line
  <1>2. ASSUME NEW i \in o .. N - 1 PROVE w[i] = v[i]
    <2>1. i \in 0 .. N - 1 /\ o <= i
      BY <1>0
    <2>2. Rot(a, f, l, o)[i] = a[i]
      BY <1>0, <2>1, RotCell
    <2>3. QED
      BY <2>1, <2>2 DEF Line
  <1> HIDE DEF b
  <1>3. Run(w, g, o) = Run(v, f, l)
    <2>1. g \in Nat /\ o - g = l - f
      BY <1>0
    <2>2. Alike(w, v, g, o, f, l)
      BY <1>1, <2>1 DEF Alike
    <2>3. QED
      BY <1>0, <2>1, <2>2, RunsAlike
  <1>4. ASSUME NEW i \in o .. N, NEW k \in o .. N, i <= k PROVE Run(w, i, k) = Run(v, i, k)
    <2>1. i \in Nat /\ k \in Nat
      BY <1>0
    <2>2. ASSUME NEW n \in 0 .. (k - i) - 1 PROVE w[i + n] = v[i + n]
      <3>1. i + n \in o .. N - 1
        BY <1>0, <1>4
      <3>2. QED
        BY <1>2, <3>1
    <2>3. Alike(w, v, i, k, i, k)
      BY <2>2 DEF Alike
    <2>4. QED
      BY <2>1, <2>3, RunsAlike
  <1>5. QED
    BY <1>3, <1>4

LineOf(c, a) == Line(job[c], Argc(c), a)

\* What a scan has to do and has put aside.
LEMMA ViewIs ==
  ASSUME NEW c \in Ctx, Typed, Ranged(c), stage[c] = "Scanning", NEW s, s = Entered(c), NEW v, v = LineOf(c, argv[c])
  PROVE  /\ s.nextchar = <<>> => Todo(c) = Run(v, s.optind, Argc(c))
         /\ s.nextchar # <<>> => Todo(c) = Run(v, s.optind + 1, Argc(c))
         /\ Aside(c) = Run(v, s.first, s.last)
  <1> DEFINE N == Argc(c)
  <1>1. /\ s \in Works(c) /\ 1 <= s.first /\ s.first <= s.last /\ s.last <= s.optind /\ s.optind <= N
        /\ s.nextchar # <<>> => s.optind < N
        /\ Fresh(c) => s.nextchar = <<>> /\ s.optind = 1 /\ s.first = 1 /\ s.last = 1
        /\ ~Fresh(c) => s.nextchar = si[c].nextchar /\ s.optind = si[c].optind /\ s.first = si[c].first /\ s.last = si[c].last
    BY EnteredSteady DEF Steady
  <1>2. N \in Nat /\ job[c].words \in Seq(Seq(STRING)) /\ N = Len(job[c].words) /\ argv[c] \in Cells(N, 1 .. N)
    BY JobIs DEF Argc, Ranged, Positions
  <1>3. s.optind \in Nat /\ s.first \in Nat /\ s.last \in Nat
    BY <1>1 DEF Works
  <1>4. v \in Cells(N, Texts)
    BY <1>2, LineIs DEF LineOf
  <1>5. ASSUME NEW from \in Nat, from <= N PROVE Words(c, from) = Run(v, from, N)
    BY <1>2, <1>5, WordsRun DEF Words, WordAt, LineOf, LineFrom
  <1> HIDE DEF N
  <1>6. s.nextchar = <<>> => Todo(c) = Run(v, s.optind, N)
    <2>1. SUFFICES ASSUME s.nextchar = <<>> PROVE Todo(c) = Words(c, s.optind)
      BY <1>1, <1>3, <1>5
    <2>2. QED
      BY <1>1, <2>1 DEF Todo
  <1>7. s.nextchar # <<>> => Todo(c) = Run(v, s.optind + 1, N)
    <2>1. SUFFICES ASSUME s.nextchar # <<>> PROVE Todo(c) = Words(c, s.optind + 1)
      <3>1. s.nextchar # <<>> => s.optind + 1 \in Nat /\ s.optind + 1 <= N
        BY <1>1, <1>2, <1>3
      <3>2. QED
        BY <1>5, <3>1
    <2>2. QED
      BY <1>1, <2>1 DEF Todo
  <1>8. Aside(c) = Run(v, s.first, s.last)
    <2>1. CASE Fresh(c)
      <3>1. Aside(c) = <<>>
        BY <2>1 DEF Aside
      <3>2. Run(v, 1, 1) = <<>>
        BY EmptyRun
      <3>3. QED
        BY <1>1, <2>1, <3>1, <3>2
    <2>2. CASE ~Fresh(c)
      <3> DEFINE f == s.first
                 l == s.last
      <3>1. Ascend(f, f, l, N, N)
        BY <1>1, <1>2, <1>3 DEF Ascend
      <3>2. Aside(c) = SubSeq(Words(c, f), 1, l - f)
        BY <1>1, <2>2 DEF Aside
      <3>3. Words(c, f) = Run(v, f, N)
        BY <1>1, <1>2, <1>3, <1>5
      <3> HIDE DEF f, l
      <3>4. SubSeq(Run(v, f, N), 1, l - f) = Run(v, f, l)
        BY <1>2, <1>4, <3>1, RunStart, SMTT(60)
      <3>5. QED
        BY <3>2, <3>3, <3>4 DEF f, l
    <2>3. QED
      BY <2>1, <2>2
  <1>9. QED
    BY <1>6, <1>7, <1>8 DEF N

\* What a call steps on is within the line.
LEMMA SteadyIs ==
  ASSUME NEW c \in Ctx, Typed, NEW s, Steady(c, s)
  PROVE  /\ Argc(c) \in Nat /\ s.argv \in Cells(Argc(c), 1 .. Argc(c))
         /\ s.first \in Nat /\ s.last \in Nat /\ s.optind \in Nat
         /\ 1 <= s.first /\ s.first <= s.last /\ s.last <= s.optind /\ s.optind <= Argc(c)
         /\ LineOf(c, s.argv) \in Cells(Argc(c), Texts)
  <1>1. /\ Argc(c) \in Nat /\ s.argv \in Cells(Argc(c), 1 .. Argc(c))
        /\ s.first \in Nat /\ s.last \in Nat /\ s.optind \in Nat
        /\ 1 <= s.first /\ s.first <= s.last /\ s.last <= s.optind /\ s.optind <= Argc(c)
    BY JobIs DEF Steady, Works, Positions
  <1>2. Argc(c) = Len(job[c].words) /\ job[c].words \in Seq(Seq(STRING))
    BY JobIs DEF Argc
  <1>3. LineOf(c, s.argv) \in Cells(Argc(c), Texts)
    BY <1>1, <1>2, LineIs DEF LineOf
  <1>4. QED
    BY <1>1, <1>3

IsLine(v, c, a) == v = LineOf(c, a)

\* The row holds the word each pointer is to.
LEMMA LineAt ==
  ASSUME NEW c \in Ctx, NEW a, NEW i \in 0 .. Argc(c) - 1
  PROVE  LineOf(c, a)[i] = WordAt(c, a, i)
  BY DEF LineOf, Line, WordAt

\* Passing over operands puts them aside, behind those put aside before,
LEMMA PassedRuns ==
  ASSUME NEW c \in Ctx, Typed, NEW s, Steady(c, s), NEW p, Passed(c, s, p),
         NEW v, IsLine(v, c, s.argv), NEW w, IsLine(w, c, p.argv)
  PROVE  /\ Run(w, p.first, p.last) = Run(v, s.first, s.last) \o Run(v, s.optind, p.optind)
         /\ \A i \in p.optind .. Argc(c) : Run(w, i, Argc(c)) = Run(v, i, Argc(c))
         /\ \A i \in s.optind .. p.optind - 1 : ~IsOption(v[i])
         /\ p.optind < Argc(c) => v[p.optind] = WordAt(c, p.argv, p.optind)
  <1> DEFINE N == Argc(c)
             f == s.first
             l == s.last
             o == s.optind
             q == p.optind
             g == f + (o - l)
  <1>1. /\ N \in Nat /\ s.argv \in Cells(N, 1 .. N) /\ f \in Nat /\ l \in Nat /\ o \in Nat
        /\ 1 <= f /\ f <= l /\ l <= o /\ o <= N /\ v \in Cells(N, Texts)
    BY SteadyIs DEF IsLine
  <1>2. Steady(c, p)
    BY DEF Passed
  <1>3. q \in Nat /\ q <= N /\ w \in Cells(N, Texts)
    BY <1>2, SteadyIs DEF IsLine
  <1>4. IsRot(p.argv, s.argv, f, l, o) /\ p.first = g /\ p.last = q /\ o <= q
    BY DEF Passed, IsRot
  <1>5. \A i \in o .. q - 1 : ~IsOption(WordAt(c, p.argv, i))
    BY DEF Passed
  <1>6. v = Line(job[c], N, s.argv) /\ w = Line(job[c], N, p.argv)
    BY DEF LineOf, IsLine
  <1>7. \A i \in 0 .. N - 1 : w[i] = WordAt(c, p.argv, i)
    BY LineAt DEF IsLine
  <1> DEFINE b == p.argv
             a == s.argv
  <1> HIDE DEF N, f, l, o, q, a, b
  <1>8. /\ Run(w, g, o) = Run(v, f, l)
        /\ \A i, k \in o .. N : i <= k => Run(w, i, k) = Run(v, i, k)
    <2>1. LineTurned(job[c], N, v, w, f, l, o)
      BY <1>1, <1>4, <1>6 DEF a, b, IsRot, LineTurned, Ascend
    <2>2. QED
      BY <2>1, LineRot DEF g
  <1>9. g \in Nat /\ g <= o
    BY <1>1
  <1> HIDE DEF g
  <1>10. Run(w, g, q) = Run(v, f, l) \o Run(v, o, q)
    <2>1. Run(w, o, q) = Run(v, o, q)
      BY <1>1, <1>3, <1>4, <1>8
    <2>0. Ascend(g, g, o, q, N)
      BY <1>1, <1>3, <1>4, <1>9 DEF Ascend
    <2>2. Run(w, g, o) \o Run(w, o, q) = Run(w, g, q)
      BY <1>1, <1>3, <2>0, RunsMeet
    <2>3. QED
      BY <1>8, <2>1, <2>2
  <1>11. \A i \in q .. N : Run(w, i, N) = Run(v, i, N)
    BY <1>1, <1>3, <1>4, <1>8
  <1>12. ASSUME NEW i \in o .. N - 1 PROVE v[i] = w[i]
    <2>1. Run(v, i, N)[1] = v[i + 1 - 1] /\ Run(w, i, N)[1] = w[i + 1 - 1]
      <3>1. 1 \in 1 .. N - i
        BY <1>1
      <3>2. QED
        BY <3>1, RunAt
    <2>2. i \in o .. N /\ N \in o .. N /\ i <= N /\ i + 1 - 1 = i
      BY <1>1
    <2>3. QED
      BY <1>8, <2>1, <2>2
  <1>13. ASSUME NEW i \in o .. q - 1 PROVE ~IsOption(v[i])
    <2>1. i \in o .. N - 1 /\ i \in 0 .. N - 1
      BY <1>1, <1>3
    <2>2. QED
      BY <1>5, <1>7, <1>12, <2>1
  <1>14. q < N => v[q] = WordAt(c, p.argv, q)
    <2>1. q < N => q \in o .. N - 1 /\ q \in 0 .. N - 1
      BY <1>1, <1>3, <1>4
    <2>2. QED
      BY <1>7, <1>12, <2>1
  <1>15. QED
    BY <1>4, <1>10, <1>11, <1>13, <1>14 DEF N, f, l, o, q

\* and at "--" all words after it with them.
LEMMA AllPassedRuns ==
  ASSUME NEW c \in Ctx, Typed, NEW p, Steady(c, p), NEW r, AllPassed(c, p, r), p.optind < Argc(c),
         NEW v, IsLine(v, c, p.argv), NEW w, IsLine(w, c, r.argv)
  PROVE  /\ Run(w, r.first, Argc(c)) = Run(v, p.first, p.last) \o Run(v, p.optind + 1, Argc(c))
         /\ r.optind = Argc(c) /\ r.last = Argc(c)
  <1> DEFINE N == Argc(c)
             f == p.first
             l == p.last
             o == p.optind + 1
             g == f + (o - l)
             b == r.argv
             a == p.argv
  <1>1. /\ N \in Nat /\ a \in Cells(N, 1 .. N) /\ f \in Nat /\ l \in Nat /\ p.optind \in Nat
        /\ 1 <= f /\ f <= l /\ l <= p.optind /\ p.optind <= N /\ v \in Cells(N, Texts)
    BY SteadyIs DEF IsLine
  <1>2. o \in Nat /\ l <= o /\ o <= N
    BY <1>1
  <1>3. Steady(c, r)
    BY DEF AllPassed
  <1>4. w \in Cells(N, Texts)
    BY <1>3, SteadyIs DEF IsLine
  <1>5. IsRot(b, a, f, l, o) /\ r.first = f + (p.optind + 1 - l) /\ r.last = N /\ r.optind = N
    BY DEF AllPassed, IsRot
  <1>6. r.first = g
    BY <1>1, <1>5
  <1>7. v = Line(job[c], N, a) /\ w = Line(job[c], N, b)
    BY DEF LineOf, IsLine
  <1> HIDE DEF N, f, l, o, a, b
  <1>8. /\ Run(w, g, o) = Run(v, f, l)
        /\ \A i, k \in o .. N : i <= k => Run(w, i, k) = Run(v, i, k)
    <2>1. LineTurned(job[c], N, v, w, f, l, o)
      BY <1>1, <1>2, <1>5, <1>7 DEF IsRot, LineTurned, Ascend
    <2>2. QED
      BY <2>1, LineRot DEF g
  <1>9. g \in Nat /\ g <= o
    BY <1>1, <1>2
  <1> HIDE DEF g
  <1>10. Run(w, o, N) = Run(v, o, N)
    BY <1>1, <1>2, <1>8
  <1>11. Run(w, g, o) \o Run(w, o, N) = Run(w, g, N)
    <2>1. Ascend(g, g, o, N, N)
      BY <1>1, <1>2, <1>9 DEF Ascend
    <2>2. QED
      BY <1>1, <1>4, <2>1, RunsMeet
  <1>12. Run(w, g, N) = Run(v, f, l) \o Run(v, o, N)
    BY <1>8, <1>10, <1>11
  <1>13. QED
    BY <1>5, <1>6, <1>12 DEF N, f, l, o

\* A call has passed over the first n of the words a scan has to do, and put them aside.
Came(c, p, n) ==
  LET T == Todo(c)
      w == LineOf(c, p.argv)
  IN  /\ n \in 0 .. Len(T) /\ T \in Seq(Texts) /\ \A i \in 1 .. n : ~IsOption(T[i])
      /\ n > 0 => Signless(job[c])
      /\ Run(w, p.first, p.last) = Aside(c) \o SubSeq(T, 1, n)
      /\ Run(w, p.optind, Argc(c)) = SubSeq(T, n + 1, Len(T))
      /\ n < Len(T) <=> p.optind < Argc(c)
      /\ p.optind < Argc(c) =>
           /\ T[n + 1] = WordAt(c, p.argv, p.optind)
           /\ Run(w, p.optind + 1, Argc(c)) = SubSeq(T, n + 2, Len(T))

\* What a run from o on has up to and from q on.
Parted(T, n, v, o, q, N) == Ascend(o, o, q, N, N) /\ T = Run(v, o, N) /\ n = q - o

\* A run parts into what is before a place and what is from it on.
LEMMA RunSplit ==
  ASSUME NEW N \in Nat, NEW S, NEW v \in Cells(N, S), NEW o, NEW q, NEW T, NEW n, Parted(T, n, v, o, q, N)
  PROVE  /\ T \in Seq(S) /\ n \in 0 .. Len(T) /\ (n < Len(T) <=> q < N)
         /\ SubSeq(T, 1, n) = Run(v, o, q) /\ SubSeq(T, n + 1, Len(T)) = Run(v, q, N)
         /\ q < N => T[n + 1] = v[q] /\ SubSeq(T, n + 2, Len(T)) = Run(v, q + 1, N)
         /\ \A i \in 1 .. n : T[i] = v[o + i - 1]
  <1>0. o \in Nat /\ q \in Nat /\ o <= q /\ q <= N /\ Ascend(o, o, q, N, N)
    BY DEF Parted, Ascend
  <1> DEFINE U == Run(v, o, N)
  <1>1. U \in Seq(S)
    BY <1>0, RunIs
  <1>2. Len(U) = N - o
    BY <1>0, RunIs
  <1>3. \A i \in 1 .. N - o : U[i] = v[o + i - 1]
    BY RunAt
  <1>4. SubSeq(U, 1, q - o) = Run(v, o, q)
    BY <1>0, RunStart
  <1>5. SubSeq(U, (q - o) + 1, N - o) = Run(v, q, N)
    <2>1. Ascend(o, q, N, N, N)
      BY <1>0 DEF Ascend
    <2>2. QED
      BY <2>1, RunPart
  <1>6. q < N => SubSeq(U, ((q + 1) - o) + 1, N - o) = Run(v, q + 1, N)
    <2>1. q < N => Ascend(o, q + 1, N, N, N)
      BY <1>0 DEF Ascend
    <2> DEFINE a == q + 1
    <2> HIDE DEF a, U
    <2>2. q < N => Ascend(o, a, N, N, N)
      BY <2>1 DEF a
    <2>3. q < N => SubSeq(U, (a - o) + 1, N - o) = Run(v, a, N)
      BY <2>2, RunPart DEF U
    <2>4. QED
      BY <2>3 DEF a
  <1> HIDE DEF U
  <1>a. ((q + 1) - o) + 1 = n + 2 /\ n = q - o /\ T = U
    BY <1>0 DEF Parted, U
  <1>b. /\ T \in Seq(S) /\ Len(T) = N - o /\ \A i \in 1 .. N - o : T[i] = v[o + i - 1]
        /\ SubSeq(T, 1, n) = Run(v, o, q) /\ SubSeq(T, n + 1, Len(T)) = Run(v, q, N)
        /\ q < N => SubSeq(T, n + 2, Len(T)) = Run(v, q + 1, N)
    BY <1>1, <1>2, <1>3, <1>4, <1>5, <1>6, <1>a, Zenon
  <1>7. q < N => T[n + 1] = v[q]
    <2>1. q < N => n + 1 \in 1 .. N - o /\ o + (n + 1) - 1 = q
      BY <1>0, <1>a
    <2>2. QED
      BY <1>b, <2>1
  <1>8. n \in 0 .. Len(T) /\ (n < Len(T) <=> q < N) /\ \A i \in 1 .. n : i \in 1 .. N - o
    BY <1>0, <1>a, <1>b
  <1>9. QED
    BY <1>b, <1>7, <1>8

\* A permuting call passes over all operands before the next option,
LEMMA PassedCame ==
  ASSUME NEW c \in Ctx, Typed, Ranged(c), stage[c] = "Scanning", Signless(job[c]),
         Entered(c).nextchar = <<>>, NEW p, Passed(c, Entered(c), p)
  PROVE  \E n : Came(c, p, n)
  <1> DEFINE s == Entered(c)
             N == Argc(c)
             o == s.optind
             q == p.optind
             n == q - o
             T == Todo(c)
             v == LineOf(c, s.argv)
             w == LineOf(c, p.argv)
  <1>1. Steady(c, s) /\ s.argv = argv[c]
    BY EnteredSteady
  <1>2. N \in Nat /\ o \in Nat /\ o <= N /\ v \in Cells(N, Texts)
    BY <1>1, SteadyIs
  <1>3. T = Run(v, o, N) /\ Aside(c) = Run(v, s.first, s.last)
    BY <1>1, ViewIs
  <1> HIDE DEF s
  <1>4. Steady(c, p) /\ o <= q
    BY DEF Passed, s
  <1>5. q \in Nat /\ q <= N
    BY <1>4, SteadyIs
  <1>6. IsLine(v, c, s.argv) /\ IsLine(w, c, p.argv)
    BY DEF IsLine
  <1> HIDE DEF v, w
  <1>7. /\ Run(w, p.first, p.last) = Run(v, s.first, s.last) \o Run(v, o, q)
        /\ \A i \in q .. N : Run(w, i, N) = Run(v, i, N)
        /\ \A i \in o .. q - 1 : ~IsOption(v[i])
        /\ q < N => v[q] = WordAt(c, p.argv, q)
    <2>1. Passed(c, s, p)
      BY DEF s
    <2>2. QED
      BY <1>1, <1>6, <2>1, PassedRuns
  <1> HIDE DEF N, o, q, T
  <1>8. Ascend(o, o, q, N, N)
    BY <1>2, <1>4, <1>5 DEF Ascend
  <1>9. /\ T \in Seq(Texts) /\ n \in 0 .. Len(T) /\ (n < Len(T) <=> q < N)
        /\ SubSeq(T, 1, n) = Run(v, o, q) /\ SubSeq(T, n + 1, Len(T)) = Run(v, q, N)
        /\ q < N => T[n + 1] = v[q] /\ SubSeq(T, n + 2, Len(T)) = Run(v, q + 1, N)
        /\ \A i \in 1 .. n : T[i] = v[o + i - 1]
    <2>1. Parted(T, n, v, o, q, N)
      BY <1>3, <1>8 DEF Parted
    <2> HIDE DEF n
    <2>2. QED
      BY <1>2, <2>1, RunSplit, SMTT(60)
  <1>10. \A i \in 1 .. n : ~IsOption(T[i])
    <2>1. \A i \in 1 .. n : o + i - 1 \in o .. q - 1
      BY <1>2, <1>5
    <2>2. QED
      BY <1>7, <1>9, <2>1
  <1>11. Run(w, q, N) = Run(v, q, N) /\ (q < N => Run(w, q + 1, N) = Run(v, q + 1, N))
    <2>1. q \in q .. N /\ (q < N => q + 1 \in q .. N)
      BY <1>2, <1>5
    <2>2. QED
      BY <1>7, <2>1
  <1> HIDE DEF n
  <1>12. /\ Run(w, p.first, p.last) = Aside(c) \o SubSeq(T, 1, n)
         /\ Run(w, q, N) = SubSeq(T, n + 1, Len(T))
         /\ q < N => T[n + 1] = WordAt(c, p.argv, q) /\ Run(w, q + 1, N) = SubSeq(T, n + 2, Len(T))
    BY <1>3, <1>7, <1>9, <1>11
  <1>13. Came(c, p, n)
    BY <1>9, <1>10, <1>12, Zenon DEF Came, N, q, T, w
  <1>14. QED
    BY <1>13

\* any other over none.
LEMMA EnteredCame ==
  ASSUME NEW c \in Ctx, Typed, Ranged(c), stage[c] = "Scanning", Entered(c).nextchar = <<>>
  PROVE  Came(c, Entered(c), 0)
  <1> DEFINE s == Entered(c)
             N == Argc(c)
             o == s.optind
             T == Todo(c)
             v == LineOf(c, s.argv)
             A == Aside(c)
  <1>1. Steady(c, s) /\ s.argv = argv[c]
    BY EnteredSteady
  <1>2. /\ N \in Nat /\ o \in Nat /\ o <= N /\ v \in Cells(N, Texts)
        /\ s.first \in Nat /\ s.last \in Nat /\ s.first <= s.last /\ s.last <= N
    BY <1>1, SteadyIs
  <1>3. T = Run(v, o, N) /\ A = Run(v, s.first, s.last)
    BY <1>1, ViewIs
  <1> HIDE DEF s
  <1>4. A \in Seq(Texts)
    <2>1. Run(v, s.first, s.last) \in Seq(Texts)
      BY <1>2, RunIs
    <2>2. QED
      BY <1>3, <2>1
  <1>5. o < N => v[o] = WordAt(c, s.argv, o)
    BY <1>2, LineAt
  <1> HIDE DEF N, o, T, v, A
  <1> DEFINE n == 0
  <1>7. Parted(T, n, v, o, o, N)
    <2>1. Ascend(o, o, o, N, N) /\ 0 = o - o
      BY <1>2 DEF Ascend
    <2>2. QED
      BY <1>3, <2>1 DEF Parted
  <1> HIDE DEF n
  <1>8. /\ T \in Seq(Texts) /\ n \in 0 .. Len(T) /\ (n < Len(T) <=> o < N)
        /\ SubSeq(T, 1, n) = Run(v, o, o) /\ SubSeq(T, n + 1, Len(T)) = Run(v, o, N)
        /\ o < N => T[n + 1] = v[o] /\ SubSeq(T, n + 2, Len(T)) = Run(v, o + 1, N)
    BY <1>2, <1>7, RunSplit, SMTT(60)
  <1>9. A \o SubSeq(T, 1, n) = A
    <2>1. Run(v, o, o) = <<>>
      BY <1>2, EmptyRun
    <2>2. QED
      BY <1>4, <1>8, <2>1
  <1>10. ~(n > 0) /\ \A i \in 1 .. n : FALSE
    BY DEF n
  <1>11. Came(c, s, n)
    BY <1>3, <1>5, <1>8, <1>9, <1>10, Zenon DEF Came, N, o, T, v, A
  <1>12. QED
    BY <1>11 DEF n, s

\* Where a call that begins a word stands, before it looks for "--".
Stood(c, p) ==
  /\ Steady(c, p) /\ p.nextchar = <<>> /\ (p.first = p.last \/ p.last = p.optind)
  /\ Signless(job[c]) /\ p.optind < Argc(c) => IsOption(WordAt(c, p.argv, p.optind))
  /\ IF p.optind # Argc(c) /\ WordAt(c, p.argv, p.optind) = Terminator
     THEN AllPassed(c, p, Reached(c)) ELSE Reached(c) = p

\* Every call that begins a word comes to it over operands, which it puts aside.
LEMMA CameTo ==
  ASSUME NEW c \in Ctx, Typed, Ranged(c), SplitAt(c), Modes, stage[c] = "Scanning", Entered(c).nextchar = <<>>
  PROVE  \E p, n : Came(c, p, n) /\ Stood(c, p)
  <1> DEFINE s == Entered(c)
  <1>1. Steady(c, s) /\ (Signless(job[c]) <=> Mode(c) = "PERMUTE")
    BY EnteredSteady, ModeSo
  <1>2. PICK p : /\ IF Mode(c) = "PERMUTE" THEN Passed(c, s, p) ELSE p = s
                 /\ IF p.optind # Argc(c) /\ WordAt(c, p.argv, p.optind) = Terminator
                    THEN AllPassed(c, p, Reached(c)) ELSE Reached(c) = p
    BY ReachedStands, Zenon DEF Stands
  <1>3. CASE Signless(job[c])
    <2>1. Passed(c, s, p)
      BY <1>1, <1>2, <1>3
    <2>2. /\ Steady(c, p) /\ p.nextchar = s.nextchar /\ p.last = p.optind
          /\ p.optind = Argc(c) \/ IsOption(WordAt(c, p.argv, p.optind))
      BY <2>1 DEF Passed
    <2>3. p.optind < Argc(c) => p.optind # Argc(c)
      BY <2>2, SteadyIs
    <2>4. Stood(c, p)
      BY <1>2, <2>2, <2>3, Zenon DEF Stood
    <2>5. \E n : Came(c, p, n)
      BY <1>3, <2>1, PassedCame
    <2>6. QED
      BY <2>4, <2>5
  <1>4. CASE ~Signless(job[c])
    <2>1. p = s
      BY <1>1, <1>2, <1>4
    <2>2. s.first = s.last
      <3>1. CASE Fresh(c)
        BY <3>1, EnteredSteady
      <3>2. CASE ~Fresh(c)
        <4>1. si[c].first = si[c].last
          BY <1>4, <3>2 DEF SplitAt, SplitOf, Fresh
        <4>2. s.first = si[c].first /\ s.last = si[c].last
          BY <3>2, EnteredSteady
        <4>3. QED
          BY <4>1, <4>2
      <3>3. QED
        BY <3>1, <3>2
    <2>3. Stood(c, s)
      BY <1>1, <1>2, <1>4, <2>1, <2>2, Zenon DEF Stood
    <2>4. Came(c, s, 0)
      BY EnteredCame
    <2>5. QED
      BY <2>3, <2>4
  <1>5. QED
    BY <1>3, <1>4

\* What a call leaves: the pointers, the place, the operands and the rest of a word.
Leaves(c, a, o, f, l, t) ==
  /\ job' = job /\ argv'[c] = a /\ si'[c].optind = o /\ si'[c].first = f /\ si'[c].last = l
  /\ si'[c].nextchar = t /\ o # 0

\* The words from a place on after a call, from the pointers it leaves.
LEMMA WordsAfter ==
  ASSUME NEW c \in Ctx, Typed, NEW a, NEW w, IsLine(w, c, a), job' = job, argv'[c] = a, NEW from \in Nat,
         from <= Argc(c)
  PROVE  Words(c, from)' = Run(w, from, Argc(c))
  <1> DEFINE N == Argc(c)
             j == job[c]
  <1>0. N \in Nat /\ Argc(c)' = N /\ job'[c] = j
    BY JobIs DEF Argc
  <1>1. Words(c, from)' = LineFrom(j, N, a, from)
    BY <1>0 DEF Words, WordAt, LineFrom
  <1>2. w = Line(j, N, a)
    BY DEF IsLine, LineOf
  <1> HIDE DEF N, j
  <1>3. LineFrom(j, N, a, from) = Run(Line(j, N, a), from, N)
    <2>1. from <= N
      BY DEF N
    <2>2. N \in Nat
      BY <1>0
    <2>3. QED
      BY <2>1, <2>2, WordsRun
  <1>4. QED
    BY <1>1, <1>2, <1>3 DEF N

\* So that is what it has to do and has put aside then.
LEMMA LeavesTodo ==
  ASSUME NEW c \in Ctx, Typed, NEW a, NEW o \in Nat, NEW f, NEW l, NEW t, Leaves(c, a, o, f, l, t),
         NEW w, IsLine(w, c, a), stage'[c] = "Scanning", o <= Argc(c)
  PROVE  /\ t = <<>> => Todo(c)' = Run(w, o, Argc(c))
         /\ t # <<>> /\ o < Argc(c) => Todo(c)' = Run(w, o + 1, Argc(c))
  <1>1. \A from \in Nat : from <= Argc(c) => Words(c, from)' = Run(w, from, Argc(c))
    BY WordsAfter DEF Leaves
  <1>2. ~Fresh(c)' /\ si'[c].optind = o /\ si'[c].nextchar = t
    BY DEF Leaves, Fresh
  <1>3. t = <<>> => Todo(c)' = Words(c, o)'
    BY <1>2 DEF Todo, Words, WordAt
  <1>4. t # <<>> => Todo(c)' = Words(c, o + 1)'
    BY <1>2 DEF Todo, Words, WordAt
  <1>5. Argc(c) \in Nat /\ (o < Argc(c) => o + 1 \in Nat /\ o + 1 <= Argc(c))
    BY JobIs
  <1>6. QED
    BY <1>1, <1>3, <1>4, <1>5

\* What a call leaves put aside, while the scan goes on,
LEMMA LeavesAside ==
  ASSUME NEW c \in Ctx, Typed, NEW a, NEW o, NEW f, NEW l, NEW t, Leaves(c, a, o, f, l, t), NEW w, IsLine(w, c, a),
         a \in Cells(Argc(c), 1 .. Argc(c)), stage'[c] = "Scanning", Ascend(f, f, l, l, Argc(c))
  PROVE  Aside(c)' = Run(w, f, l)
  <1>0. f \in Nat /\ l \in Nat /\ f <= Argc(c) /\ f <= l /\ l <= Argc(c) /\ Argc(c) \in Nat
    BY DEF Ascend
  <1>1. Words(c, f)' = Run(w, f, Argc(c))
    BY <1>0, WordsAfter DEF Leaves
  <1>2. ~Fresh(c)' /\ si'[c].first = f /\ si'[c].last = l
    BY DEF Leaves, Fresh
  <1>3. Aside(c)' = SubSeq(Words(c, f)', 1, l - f)
    BY <1>2 DEF Aside, Words, WordAt
  <1>4. w \in Cells(Argc(c), Texts)
    <2>1. Argc(c) = Len(job[c].words) /\ job[c].words \in Seq(Seq(STRING))
      BY JobIs DEF Argc
    <2>2. QED
      BY <1>0, <2>1, LineIs DEF IsLine, LineOf
  <1>5. SubSeq(Run(w, f, Argc(c)), 1, l - f) = Run(w, f, l)
    <2>1. Ascend(f, f, l, Argc(c), Argc(c))
      BY <1>0 DEF Ascend
    <2>2. QED
      BY <1>0, <1>4, <2>1, RunStart
  <1>6. QED
    BY <1>1, <1>3, <1>5

\* and what the caller finds at the end of the scan.
LEMMA LeavesEnd ==
  ASSUME NEW c \in Ctx, Typed, NEW a, NEW o \in Nat, NEW f, NEW l, NEW t, Leaves(c, a, o, f, l, t),
         NEW w, IsLine(w, c, a), stage'[c] = "Ended", o <= Argc(c)
  PROVE  Todo(c)' = <<>> /\ Aside(c)' = Run(w, o, Argc(c))
  <1>1. Words(c, o)' = Run(w, o, Argc(c))
    BY WordsAfter DEF Leaves
  <1>2. Aside(c)' = Words(c, o)'
    BY DEF Aside, Words, WordAt, Leaves
  <1>3. Todo(c)' = <<>>
    BY DEF Todo
  <1>4. QED
    BY <1>1, <1>2, <1>3

\* What the stream of a context says of words, the context's own definitions say,
LEMMA StreamsWords ==
  ASSUME NEW c \in Ctx
  PROVE  /\ \A w : Streams!IsOption(w) <=> IsOption(w)
         /\ Streams!Permutes(c) <=> Signless(job[c])
         /\ Streams!Terminator = Terminator /\ Streams!NoArg = NoArg /\ Streams!Nothing = Nothing
         /\ \A code, opt, arg : Streams!Result(code, opt, arg) = Result(code, opt, arg)
  BY Zenon DEF Streams!IsOption, IsOption, Streams!Permutes, Signless, Streams!Terminator, Terminator,
       Streams!NoArg, NoArg, Streams!Result, Result, Streams!Nothing, Nothing

EndView(c) ==
  LET T == Todo(c)
      A == Aside(c)
  IN  \E n \in 0 .. Len(T) :
        /\ \A i \in 1 .. n : Signless(job[c]) /\ ~IsOption(T[i])
        /\ \/ n = Len(T) /\ Aside(c)' = A \o T
           \/ /\ n < Len(T) /\ T[n + 1] = Terminator
              /\ Aside(c)' = A \o SubSeq(T, 1, n) \o SubSeq(T, n + 1 + 1, Len(T))
           \/ /\ n < Len(T) /\ ~IsOption(T[n + 1]) /\ job[c].prefix = "+"
              /\ Aside(c)' = T

\* EOF, in the words of the stream.
LEMMA StreamEnds ==
  ASSUME NEW c \in Ctx, stage[c] = "Scanning", stage'[c] = "Ended", si[c].nextchar = <<>>, si'[c].nextchar = <<>>,
         said'[c] = Result("EOF", NoArg, NoArg), EndView(c)
  PROVE  Streams!End(c)
  <1>1. Todo(c)' = <<>>
    BY DEF Todo
  <1>2. QED
    BY <1>1, StreamsWords DEF Streams!End, Streams!After, EndView

\* What is before a call that begins a word: nothing is left of the last one.
LEMMA BeginsWord ==
  ASSUME NEW c \in Ctx, Typed, Ranged(c), stage[c] = "Scanning"
  PROVE  /\ Entered(c).nextchar = si[c].nextchar
         /\ ~AtOption(c, Reached(c)) => si[c].nextchar = <<>>
         /\ si[c].nextchar = <<>> => Reached(c).nextchar = <<>>
  <1>1. CASE Fresh(c)
    BY <1>1, EnteredSteady, ReachedSteady DEF Ranged, AtOption
  <1>2. CASE ~Fresh(c)
    BY <1>2, EnteredSteady, ReachedSteady DEF AtOption
  <1>3. QED
    BY <1>1, <1>2

\* At the end the caller finds what was put aside,
LEMMA PlainEnd ==
  ASSUME NEW c \in Ctx, Typed, NEW p, NEW n, Came(c, p, n), Stood(c, p), NEW w, IsLine(w, c, p.argv), p.optind = Argc(c)
  PROVE  /\ n = Len(Todo(c)) /\ Run(w, EndsAt(c, p), Argc(c)) = Aside(c) \o Todo(c)
  <1> DEFINE N == Argc(c)
             T == Todo(c)
  <1>1. /\ n \in 0 .. Len(T) /\ T \in Seq(Texts) /\ Run(w, p.first, p.last) = Aside(c) \o SubSeq(T, 1, n)
        /\ n < Len(T) <=> p.optind < N
    BY DEF Came, IsLine
  <1>2. /\ N \in Nat /\ p.first \in Nat /\ p.last \in Nat /\ (p.first = p.last \/ p.last = p.optind)
    BY SteadyIs DEF Stood
  <1> HIDE DEF N, T
  <1>3. n = Len(T)
    BY <1>1, <1>2 DEF N
  <1>4. SubSeq(T, 1, n) = T
    <2>1. SubSeq(T, 1, Len(T)) = T
      BY <1>1, SubSeqFull
    <2>2. QED
      BY <1>3, <2>1
  <1>5. Run(w, EndsAt(c, p), N) = Run(w, p.first, p.last)
    <2>1. CASE p.first = p.last
      <3>1. EndsAt(c, p) = N
        BY <2>1 DEF EndsAt, N
      <3>2. Run(w, N, N) = <<>> /\ Run(w, p.first, p.first) = <<>>
        BY <1>2, EmptyRun
      <3>3. QED
        BY <2>1, <3>1, <3>2
    <2>2. CASE p.first # p.last
      <3>1. EndsAt(c, p) = p.first /\ p.last = N
        BY <1>2, <2>2 DEF EndsAt, N
      <3>2. QED
        BY <3>1
    <2>3. QED
      BY <2>1, <2>2
  <1>6. QED
    BY <1>1, <1>3, <1>4, <1>5 DEF N, T

\* and all words after a terminator;
LEMMA TerminatedEnd ==
  ASSUME NEW c \in Ctx, Typed, NEW p, NEW n, Came(c, p, n), Stood(c, p), p.optind < Argc(c),
         NEW r, AllPassed(c, p, r), NEW u, IsLine(u, c, r.argv)
  PROVE  /\ n < Len(Todo(c)) /\ Todo(c)[n + 1] = WordAt(c, p.argv, p.optind)
         /\ Run(u, EndsAt(c, r), Argc(c))
              = Aside(c) \o SubSeq(Todo(c), 1, n) \o SubSeq(Todo(c), n + 2, Len(Todo(c)))
  <1> DEFINE N == Argc(c)
             T == Todo(c)
             w == LineOf(c, p.argv)
  <1>1. /\ n < Len(T) /\ T[n + 1] = WordAt(c, p.argv, p.optind)
        /\ Run(w, p.first, p.last) = Aside(c) \o SubSeq(T, 1, n)
        /\ Run(w, p.optind + 1, N) = SubSeq(T, n + 2, Len(T))
    BY Zenon DEF Came
  <1>2. IsLine(w, c, p.argv) /\ Steady(c, p)
    BY DEF IsLine, Stood
  <1> HIDE DEF T, w
  <1>3. /\ Run(u, r.first, N) = Run(w, p.first, p.last) \o Run(w, p.optind + 1, N)
        /\ r.optind = N /\ r.last = N
    BY <1>2, AllPassedRuns
  <1>4. EndsAt(c, r) = r.first
    BY <1>3 DEF EndsAt
  <1>5. QED
    BY <1>1, <1>3, <1>4 DEF T

\* Both together: a call that says EOF ends the stream.
LEMMA EndViewed ==
  ASSUME NEW c \in Ctx, Typed, Ranged(c), SplitAt(c), Modes, stage[c] = "Scanning", EndOfScan(c)
  PROVE  Streams!End(c)
  <1> DEFINE r == Reached(c)
             N == Argc(c)
             T == Todo(c)
             A == Aside(c)
             e == EndsAt(c, r)
             u == LineOf(c, r.argv)
  <1>1. /\ ~AtOption(c, r) /\ (r.optind = N \/ Mode(c) = "REQUIRE_ORDER")
        /\ stage' = [stage EXCEPT ![c] = "Ended"] /\ said' = [said EXCEPT ![c] = Result("EOF", NoArg, NoArg)]
        /\ \E g, opt : g.argv = r.argv /\ g.optind = e /\ g.first = r.first /\ g.last = r.last /\ Steps(c, g, 0, <<>>, opt)
    BY EndSteps
  <1>2. si[c].nextchar = <<>> /\ Entered(c).nextchar = <<>>
    BY <1>1, BeginsWord
  <1>3. Steady(c, r)
    BY ReachedSteady
  <1>4. e \in Nat /\ 1 <= e /\ e <= N /\ N \in Nat
    BY <1>3, SteadyIs DEF EndsAt
  <1>5. IsLine(u, c, r.argv)
    BY DEF IsLine
  <1> HIDE DEF r, e, u
  <1>6. Leaves(c, r.argv, e, r.first, r.last, <<>>)
    BY <1>1, <1>4, StepsIs DEF Leaves
  <1>7. stage'[c] = "Ended" /\ said'[c] = Result("EOF", NoArg, NoArg) /\ si'[c].nextchar = <<>>
    BY <1>1, <1>6 DEF Typed, Leaves
  <1>8. Aside(c)' = Run(u, e, N)
    BY <1>4, <1>5, <1>6, <1>7, LeavesEnd
  <1>9. PICK p, n : Came(c, p, n) /\ Stood(c, p)
    BY <1>2, CameTo
  <1>10. /\ n \in 0 .. Len(T) /\ \A i \in 1 .. n : Signless(job[c]) /\ ~IsOption(T[i])
         /\ n > 0 => Signless(job[c])
    <2>1. n \in 0 .. Len(T) /\ (\A i \in 1 .. n : ~IsOption(T[i])) /\ (n > 0 => Signless(job[c])) /\ T \in Seq(Texts)
      BY <1>9 DEF Came
    <2>2. \A i \in 1 .. n : n > 0
      BY <2>1
    <2>3. QED
      BY <2>1, <2>2
  <1>11. EndView(c)
    <2>1. CASE p.optind # N /\ WordAt(c, p.argv, p.optind) = Terminator
      <3>1. AllPassed(c, p, r) /\ p.optind < N
        <4>1. AllPassed(c, p, r)
          BY <1>9, <2>1, Zenon DEF Stood, N, r
        <4>2. p.optind < N
          BY <1>9, <2>1, SteadyIs DEF Stood
        <4>3. QED
          BY <4>1, <4>2
      <3>2. /\ n < Len(T) /\ T[n + 1] = WordAt(c, p.argv, p.optind)
            /\ Run(u, e, N) = A \o SubSeq(T, 1, n) \o SubSeq(T, n + 2, Len(T))
        BY <1>5, <1>9, <3>1, TerminatedEnd DEF e
      <3>3. n + 2 = n + 1 + 1
        BY <1>10
      <3>4. QED
        BY <1>8, <1>10, <2>1, <3>2, <3>3 DEF EndView
    <2>2. CASE ~(p.optind # N /\ WordAt(c, p.argv, p.optind) = Terminator)
      <3>1. r = p
        BY <1>9, <2>2, Zenon DEF Stood, N, r
      <3>2. CASE p.optind = N
        <4>1. n = Len(T) /\ Run(u, e, N) = A \o T
          BY <1>5, <1>9, <3>1, <3>2, PlainEnd DEF e
        <4>2. QED
          BY <1>8, <1>10, <4>1 DEF EndView
      <3>3. CASE p.optind # N
        <4>1. p.optind < N
          BY <1>9, <3>3, SteadyIs DEF Stood
        <4>2. ~IsOption(WordAt(c, p.argv, p.optind))
          BY <1>1, <3>1, <4>1 DEF AtOption
        <4>3. Mode(c) = "REQUIRE_ORDER" /\ ~Signless(job[c])
          <5>1. Mode(c) = "REQUIRE_ORDER"
            BY <1>1, <3>1, <3>3
          <5>2. QED
            BY <5>1, ModeSo
        <4>4. job[c].prefix = "+"
          BY <4>3, ModeSo, Zenon DEF OrderingOf
        <4>5. n = 0
          BY <1>10, <4>3
        <4>6. /\ T[n + 1] = WordAt(c, p.argv, p.optind) /\ n < Len(T) /\ T \in Seq(Texts)
              /\ Run(u, p.optind, N) = SubSeq(T, n + 1, Len(T))
          BY <1>9, <3>1, <4>1 DEF Came, u
        <4>7. e = p.optind
          BY <3>1, <3>3 DEF e, EndsAt
        <4>8. Aside(c)' = T
          <5>1. SubSeq(T, 1, Len(T)) = T
            BY <4>6, SubSeqFull
          <5>2. QED
            BY <1>8, <4>5, <4>6, <4>7, <5>1
        <4>9. QED
          BY <1>10, <4>2, <4>4, <4>6, <4>8 DEF EndView
      <3>4. QED
        BY <3>2, <3>3
    <2>3. QED
      BY <2>1, <2>2
  <1>12. QED
    BY <1>2, <1>7, <1>11, StreamEnds

\* A call that passes over nothing reads the first of the words to do.
LEMMA NonePassed ==
  ASSUME NEW c \in Ctx, Typed, Ranged(c), stage[c] = "Scanning", NEW p, Came(c, p, 0), NEW w, IsLine(w, c, p.argv)
  PROVE  /\ Run(w, p.first, p.last) = Aside(c)
         /\ p.optind < Argc(c) => /\ Todo(c) # <<>> /\ Head(Todo(c)) = WordAt(c, p.argv, p.optind)
                                  /\ Tail(Todo(c)) = Run(w, p.optind + 1, Argc(c))
  <1> DEFINE T == Todo(c)
             A == Aside(c)
             s == Entered(c)
             v == LineOf(c, argv[c])
  <1>1. /\ T \in Seq(Texts) /\ Run(w, p.first, p.last) = A \o SubSeq(T, 1, 0)
        /\ 0 < Len(T) <=> p.optind < Argc(c)
        /\ p.optind < Argc(c) => /\ T[0 + 1] = WordAt(c, p.argv, p.optind)
                                 /\ Run(w, p.optind + 1, Argc(c)) = SubSeq(T, 0 + 2, Len(T))
    BY DEF Came, IsLine
  <1>2. A \in Seq(Texts)
    <2>1. Steady(c, s) /\ s.argv = argv[c]
      BY EnteredSteady
    <2>2. A = Run(v, s.first, s.last)
      BY ViewIs
    <2> HIDE DEF s
    <2>3. /\ Argc(c) \in Nat /\ s.first \in Nat /\ s.last \in Nat /\ s.first <= s.last /\ s.last <= Argc(c)
          /\ v \in Cells(Argc(c), Texts)
      BY <2>1, SteadyIs
    <2> HIDE DEF v, A
    <2>4. Run(v, s.first, s.last) \in Seq(Texts)
      BY <2>3, RunIs
    <2>5. QED
      BY <2>2, <2>4
  <1> HIDE DEF T, A
  <1>3. A \o SubSeq(T, 1, 0) = A
    <2>1. SubSeq(T, 1, 0) = <<>>
      BY <1>1, SubSeqEmpty
    <2>2. QED
      BY <1>2, <2>1
  <1>4. 0 < Len(T) => T # <<>> /\ Head(T) = T[1] /\ Tail(T) = SubSeq(T, 2, Len(T))
    BY <1>1
  <1>5. 0 + 1 = 1 /\ 0 + 2 = 2
    OBVIOUS
  <1>6. QED
    BY <1>1, <1>3, <1>4, <1>5, Zenon DEF T, A

\* without permuting, an operand is what is read next.
LEMMA StreamOperand ==
  ASSUME NEW c \in Ctx, Typed, Ranged(c), SplitAt(c), Modes, stage[c] = "Scanning", NonOption(c)
  PROVE  Streams!Operand(c)
  <1> DEFINE r == Reached(c)
             N == Argc(c)
             T == Todo(c)
             u == LineOf(c, r.argv)
             x == WordAt(c, r.argv, r.optind)
  <1>1. /\ ~AtOption(c, r) /\ r.optind < N /\ Mode(c) # "REQUIRE_ORDER" /\ stage' = stage
        /\ \E opt : Steps(c, r, 1, <<>>, opt)
    BY OperandSteps
  <1>2. said' = [said EXCEPT ![c] = Result("operand", NoArg, x)]
    BY Zenon DEF NonOption, Returns
  <1>3. si[c].nextchar = <<>> /\ Entered(c).nextchar = <<>>
    BY <1>1, BeginsWord
  <1>4. Steady(c, r)
    BY ReachedSteady
  <1>5. IsLine(u, c, r.argv)
    BY DEF IsLine
  <1> HIDE DEF r, u
  <1>6. /\ N \in Nat /\ r.optind \in Nat /\ r.first \in Nat /\ r.last \in Nat /\ 1 <= r.optind
        /\ r.first <= r.last /\ r.last <= N /\ r.argv \in Cells(N, 1 .. N)
    BY <1>4, SteadyIs
  <1>7. Leaves(c, r.argv, r.optind + 1, r.first, r.last, <<>>)
    BY <1>1, <1>6, StepsIs DEF Leaves
  <1>8. PICK p, n : Came(c, p, n) /\ Stood(c, p)
    BY <1>3, CameTo
  <1>9. r = p
    <2>1. CASE p.optind # N /\ WordAt(c, p.argv, p.optind) = Terminator
      <3>1. AllPassed(c, p, r)
        BY <1>8, <2>1, Zenon DEF Stood, N, r
      <3>2. r.optind = N
        BY <3>1 DEF AllPassed
      <3>3. QED
        BY <1>1, <1>6, <3>2
    <2>2. CASE ~(p.optind # N /\ WordAt(c, p.argv, p.optind) = Terminator)
      BY <1>8, <2>2, Zenon DEF Stood, N, r
    <2>3. QED
      BY <2>1, <2>2
  <1>10. ~IsOption(x)
    BY <1>1 DEF AtOption
  <1>11. ~Signless(job[c])
    BY <1>1, <1>8, <1>9, <1>10 DEF Stood
  <1>12. Came(c, r, 0)
    <2>1. n \in Nat /\ (n > 0 => Signless(job[c]))
      BY <1>8 DEF Came
    <2>2. n = 0
      BY <1>11, <2>1
    <2>3. QED
      BY <1>8, <1>9, <2>2
  <1>13. job[c].prefix = "-"
    <2>1. Mode(c) # "PERMUTE" /\ Mode(c) # "REQUIRE_ORDER" /\ Mode(c) = OrderingOf(job[c].prefix)
      BY <1>1, <1>11, ModeSo
    <2>2. QED
      BY <2>1, Zenon DEF OrderingOf
  <1>14. /\ Run(u, r.first, r.last) = Aside(c) /\ T # <<>> /\ Head(T) = x /\ Tail(T) = Run(u, r.optind + 1, N)
    BY <1>1, <1>5, <1>12, NonePassed
  <1>15. stage'[c] = "Scanning" /\ si'[c].nextchar = <<>> /\ said'[c] = Result("operand", NoArg, x)
    BY <1>1, <1>2, <1>7 DEF Typed, Leaves
  <1>16. Todo(c)' = Run(u, r.optind + 1, N)
    <2> DEFINE o == r.optind + 1
    <2>1. o \in Nat /\ o <= N
      BY <1>1, <1>6
    <2> HIDE DEF o
    <2>2. Leaves(c, r.argv, o, r.first, r.last, <<>>)
      BY <1>7 DEF o
    <2>3. Todo(c)' = Run(u, o, N)
      BY <1>5, <1>15, <2>1, <2>2, LeavesTodo
    <2>4. QED
      BY <2>3 DEF o
  <1>17. Aside(c)' = Run(u, r.first, r.last)
    <2>1. Ascend(r.first, r.first, r.last, r.last, N)
      BY <1>6 DEF Ascend
    <2>2. QED
      BY <1>5, <1>6, <1>7, <1>15, <2>1, LeavesAside
  <1> HIDE DEF x
  <1>18. Todo(c)' = Tail(T) /\ Aside(c)' = Aside(c)
    BY <1>14, <1>16, <1>17
  <1>19. ~Streams!IsOption(Head(T)) /\ said'[c] = Streams!Result("operand", Streams!NoArg, Head(T))
    BY <1>10, <1>14, <1>15, StreamsWords
  <1>20. QED
    BY <1>1, <1>3, <1>13, <1>14, <1>15, <1>18, <1>19 DEF Streams!Operand

\* A scan begins with nothing put aside, and a context that is deleted is forgotten.
LEMMA StreamBegins ==
  ASSUME NEW c \in Ctx, Typed, Ranged(c), Create(c) \/ Rescan(c)
  PROVE  Streams!Begin(c)
  <1>1. CASE Create(c)
    <2>1. /\ stage[c] = "None" /\ stage' = [stage EXCEPT ![c] = "Scanning"] /\ si' = si
      BY <1>1 DEF Create
    <2>2. si[c].optind = 0 /\ si[c].nextchar = <<>>
      BY <2>1 DEF Ranged, Zeroed
    <2>3. stage'[c] = "Scanning" /\ Fresh(c)' /\ si'[c].nextchar = <<>>
      BY <2>1, <2>2 DEF Typed, Fresh
    <2>4. QED
      BY <2>1, <2>3 DEF Streams!Begin, Aside
  <1>2. CASE Rescan(c)
    <2>1. /\ stage[c] = "Ended" /\ stage' = [stage EXCEPT ![c] = "Scanning"] /\ si' = [si EXCEPT ![c].optind = 0]
      BY <1>2 DEF Rescan
    <2>2. si[c].nextchar = <<>>
      BY <2>1 DEF Ranged
    <2>3. stage'[c] = "Scanning" /\ Fresh(c)' /\ si'[c].nextchar = <<>>
      BY <2>1, <2>2 DEF Typed, Contexts, Fresh
    <2>4. QED
      BY <2>1, <2>3 DEF Streams!Begin, Aside
  <1>3. QED
    BY <1>1, <1>2

\* A context that is deleted is forgotten,
LEMMA StreamForgets ==
  ASSUME NEW c \in Ctx, Typed, Delete(c)
  PROVE  Streams!Forget(c)
  <1>1. /\ stage' = [stage EXCEPT ![c] = "None"] /\ si' = [si EXCEPT ![c] = Zeroed]
        /\ said' = [said EXCEPT ![c] = Nothing]
    BY DEF Delete
  <1>2. stage'[c] = "None" /\ si'[c].nextchar = <<>> /\ said'[c] = Nothing
    BY <1>1 DEF Typed, Zeroed
  <1>3. Todo(c)' = <<>> /\ Aside(c)' = <<>>
    BY <1>2 DEF Todo, Aside
  <1>4. said'[c] = Streams!Nothing
    BY <1>2, StreamsWords
  <1>5. QED
    BY <1>2, <1>3, <1>4 DEF Streams!Forget

\* and clearing optopt leaves the stream where it is.
LEMMA StreamNotes ==
  ASSUME NEW c \in Ctx, Typed, ClearOptopt(c)
  PROVE  Streams!Note(c)
  <1>1. /\ si' = [si EXCEPT ![c].optopt = NoArg] /\ said' = [said EXCEPT ![c] = Nothing]
        /\ stage' = stage /\ job' = job /\ argv' = argv
    BY DEF ClearOptopt
  <1>2. /\ si'[c].optind = si[c].optind /\ si'[c].first = si[c].first /\ si'[c].last = si[c].last
        /\ si'[c].nextchar = si[c].nextchar /\ said'[c] = Nothing
    BY <1>1 DEF Typed, Contexts
  <1>3. Todo(c)' = Todo(c) /\ Aside(c)' = Aside(c)
    BY <1>1, <1>2 DEF Todo, Aside, Words, WordAt, Argc, Fresh
  <1>4. said'[c] = Streams!Nothing
    BY <1>2, StreamsWords
  <1>5. QED
    BY <1>1, <1>2, <1>3, <1>4 DEF Streams!Note

\* The prefix of an optstring is no character of a word that is read as options, and
\* no colon follows it.
PrefixUnread ==
  \A jobs \in Jobs : \A c \in Ctx : ~Signless(jobs[c]) =>
    /\ ~jobs[c].colon
    /\ \A i \in DOMAIN jobs[c].words :
         LET w == jobs[c].words[i]
         IN  Opens(w) => \A k \in Start(jobs[c], w) .. Len(w) : w[k] # jobs[c].prefix

\* Within a word a call is past its first character, and past no second dash where
\* that means a long option.
Halfway(c) ==
  si[c].nextchar # <<>> =>
    LET w == WordAt(c, argv[c], si[c].optind)
    IN  /\ Opens(w) /\ (job[c].entry # "sgetopt" => w[2] # "-")
        /\ \E k \in Start(job[c], w) + 1 .. Len(w) : si[c].nextchar = Suffix(w, k)

\* The word w is read, from k on.
ReadsAt(c, r, w, t, k) ==
  /\ Found(c, r, w, t) /\ Opens(w) /\ Plain(w) /\ w \in Seq(STRING)
  /\ k \in Start(job[c], w) .. Len(w) /\ t = Suffix(w, k)
  /\ r.nextchar = <<>> => k = Start(job[c], w)
  /\ r.nextchar # <<>> => k > Start(job[c], w) /\ (job[c].entry # "sgetopt" => w[2] # "-")

\* The text of a word begins after one dash or two.
LEMMA StartIs ==
  ASSUME NEW j, NEW w
  PROVE  Start(j, w) \in {2, 3} /\ (Start(j, w) = 3 <=> (j.entry # "sgetopt" /\ w[2] = "-"))
  BY DEF Start

\* A call about an option reads a word from its start or from where the last has left off.
LEMMA CallReads ==
  ASSUME NEW c \in Ctx, Typed, Ranged(c), stage[c] = "Scanning", Halfway(c),
         LongOption(c) \/ ShortOption(c), NEW r, r = Reached(c), NEW w, w = WordAt(c, r.argv, r.optind)
  PROVE  \E t, k : ReadsAt(c, r, w, t, k) /\ t = Text(c, r)
  <1> DEFINE t == Text(c, r)
  <1>1. Found(c, r, w, t) /\ AtOption(c, r)
    BY OptionSteps
  <1>2. /\ w \in Seq(STRING) /\ Plain(w)
        /\ r.nextchar # <<>> => t = r.nextchar
        /\ r.nextchar = <<>> => /\ IsOption(w) /\ w # Terminator
                                /\ Start(job[c], w) \in 1 .. Len(w)
                                /\ t = Suffix(w, Start(job[c], w))
    BY <1>1, AtWord
  <1>3. Start(job[c], w) \in Nat /\ Len(w) \in Nat
    BY <1>2, StartIs
  <1> HIDE DEF t
  <1>4. CASE r.nextchar = <<>>
    <2>1. Start(job[c], w) \in Start(job[c], w) .. Len(w)
      BY <1>2, <1>3, <1>4
    <2>2. ReadsAt(c, r, w, t, Start(job[c], w))
      BY <1>1, <1>2, <1>4, <2>1, Zenon DEF ReadsAt, Opens
    <2>3. QED
      BY <2>2 DEF t
  <1>5. CASE r.nextchar # <<>>
    <2>1. r = Entered(c) /\ r.nextchar = si[c].nextchar
      BY <1>5, ReachedSteady, BeginsWord
    <2>2. ~Fresh(c)
      BY <1>5, <2>1, EnteredSteady
    <2>3. r.argv = argv[c] /\ r.optind = si[c].optind
      BY <2>1, <2>2, EnteredSteady
    <2>4. /\ Opens(w) /\ (job[c].entry # "sgetopt" => w[2] # "-")
          /\ \E k \in Start(job[c], w) + 1 .. Len(w) : si[c].nextchar = Suffix(w, k)
      BY <1>5, <2>1, <2>3, Zenon DEF Halfway
    <2>5. PICK k \in Start(job[c], w) + 1 .. Len(w) : si[c].nextchar = Suffix(w, k)
      BY <2>4
    <2>6. k \in Start(job[c], w) .. Len(w) /\ k > Start(job[c], w)
      BY <1>3
    <2>7. ReadsAt(c, r, w, t, k)
      BY <1>1, <1>2, <1>5, <2>1, <2>4, <2>5, <2>6, Zenon DEF ReadsAt
    <2>8. QED
      BY <2>7 DEF t
  <1>6. QED
    BY <1>4, <1>5

\* There the characters mean what the optstring says of them.
LEMMA CharRead ==
  ASSUME NEW c \in Ctx, Typed, PrefixUnread, NEW r, NEW w, NEW t, NEW k, ReadsAt(c, r, w, t, k)
  PROVE  \A i \in Start(job[c], w) .. Len(w) :
           Takes(c, w[i]) = Colons(job[c], w[i]) /\ (Known(c, w[i]) <=> InOptstring(job[c], w[i]))
  <1>1. Opens(w) /\ Plain(w) /\ w \in Seq(STRING) /\ Found(c, r, w, t)
    BY DEF ReadsAt
  <1> SUFFICES ASSUME NEW i \in Start(job[c], w) .. Len(w)
               PROVE  Takes(c, w[i]) = Colons(job[c], w[i]) /\ (Known(c, w[i]) <=> InOptstring(job[c], w[i]))
    OBVIOUS
  <1>2. i \in 1 .. Len(w)
    BY <1>1, StartIs
  <1>3. CASE Signless(job[c])
    BY <1>1, <1>2, <1>3, CharIs
  <1>4. CASE ~Signless(job[c])
    <2>1. r.argv \in Cells(Argc(c), Positions(c)) /\ r.optind \in 0 .. Argc(c) - 1 /\ w = WordAt(c, r.argv, r.optind)
      BY <1>1, JobIs DEF Found, Steady, Works
    <2>2. r.argv[r.optind] \in DOMAIN job[c].words /\ w = job[c].words[r.argv[r.optind]]
      BY <2>1, JobIs DEF Cells, Positions, Argc, WordAt
    <2>3. job \in Jobs
      BY DEF Typed
    <2>4. w[i] # job[c].prefix
      BY <1>1, <1>4, <2>2, <2>3, Zenon DEF PrefixUnread
    <2>5. QED
      BY <2>4, Zenon DEF Takes, Colons, Known
  <1>5. QED
    BY <1>3, <1>4

\* There it takes the text for a long option as the optstring alone decides it.
LEMMA FormRead ==
  ASSUME NEW c \in Ctx, Typed, PrefixUnread, NEW r, NEW w, NEW t, NEW k, ReadsAt(c, r, w, t, k)
  PROVE  /\ AsLong(c, w, t) <=> LongText(job[c], w, t)
         /\ Takes(c, Head(t)) = Colons(job[c], Head(t)) /\ Head(t) = w[k]
         /\ t # <<>> /\ t \in Seq(STRING) /\ 2 \in 1 .. Len(w)
  <1> DEFINE j == job[c]
  <1>1. /\ Opens(w) /\ Plain(w) /\ w \in Seq(STRING) /\ k \in Start(j, w) .. Len(w) /\ t = Suffix(w, k)
        /\ t # <<>> /\ t \in Seq(STRING)
    BY DEF ReadsAt, Found
  <1>2. \A i \in Start(j, w) .. Len(w) :
          Takes(c, w[i]) = Colons(j, w[i]) /\ (Known(c, w[i]) <=> InOptstring(j, w[i]))
    BY CharRead
  <1>3. k \in 1 .. Len(w) /\ 2 \in 1 .. Len(w)
    BY <1>1, StartIs DEF Opens, IsOption
  <1>4. Head(t) = w[k]
    BY <1>1, <1>3, SuffixIs
  <1>5. Takes(c, Head(t)) = Colons(j, Head(t)) /\ (Known(c, Head(t)) <=> InOptstring(j, Head(t)))
    BY <1>1, <1>2, <1>4
  <1>6. LongForm(c, w) <=> LongWord(j, w)
    <2>1. CASE j.entry # "sgetopt" /\ w[2] = "-"
      BY <2>1, Zenon DEF LongForm, LongWord
    <2>2. CASE ~(j.entry # "sgetopt" /\ w[2] = "-")
      <3>1. 2 \in Start(j, w) .. Len(w)
        BY <1>3, <2>2, StartIs
      <3>2. Known(c, w[2]) <=> InOptstring(j, w[2])
        BY <1>2, <3>1
      <3>3. QED
        BY <3>2, Zenon DEF LongForm, LongWord
    <2>3. QED
      BY <2>1, <2>2
  <1>7. MustBeLong(c, w, t) <=> LongOnly(j, w, t)
    BY <1>5, Zenon DEF MustBeLong, LongOnly
  <1>8. AsLong(c, w, t) <=> LongText(j, w, t)
    BY <1>6, <1>7, Zenon DEF AsLong, LongText
  <1>9. QED
    BY <1>1, <1>3, <1>4, <1>5, <1>8

\* A call keeps its place within the word.
LEMMA HalfwayKept ==
  ASSUME NEW d, Halfway(d), job' = job, argv'[d] = argv[d],
         si'[d].nextchar = <<>> \/ (si'[d].nextchar = si[d].nextchar /\ si'[d].optind = si[d].optind)
  PROVE  Halfway(d)'
  BY DEF Halfway, WordAt

\* A call about an option leaves the rest of the word it reads.
LEMMA HalfwayOption ==
  ASSUME NEW c \in Ctx, Typed, Ranged(c), stage[c] = "Scanning", Halfway(c), LongOption(c) \/ ShortOption(c)
  PROVE  Halfway(c)' /\ \A d \in Ctx : d # c => argv'[d] = argv[d] /\ si'[d] = si[d]
  <1> DEFINE r == Reached(c)
             j == job[c]
             w == WordAt(c, r.argv, r.optind)
  <1>1. PICK t, k : ReadsAt(c, r, w, t, k) /\ t = Text(c, r)
    BY CallReads
  <1>2. OptionStep(c, r, w, t)
    BY <1>1, OptionSteps
  <1>3. PICK n, opt, rest :
          /\ Steps(c, r, n, rest, opt)
          /\ rest = <<>> \/ (Going(c, w, t) /\ n = 0 /\ rest = Tail(t))
    BY <1>2, Zenon DEF OptionStep
  <1>4. /\ argv'[c] = r.argv /\ si'[c].optind = r.optind + n /\ si'[c].nextchar = rest /\ job' = job
        /\ \A d \in Ctx : d # c => argv'[d] = argv[d] /\ si'[d] = si[d]
    BY <1>3, StepsIs
  <1>5. /\ Opens(w) /\ w \in Seq(STRING) /\ k \in Start(j, w) .. Len(w) /\ t = Suffix(w, k) /\ r.optind \in Nat
        /\ r.nextchar = <<>> => k = Start(j, w)
        /\ r.nextchar # <<>> => (j.entry # "sgetopt" => w[2] # "-")
    BY <1>1 DEF ReadsAt, Found, Steady, Works
  <1>6. CASE rest = <<>>
    BY <1>4, <1>6 DEF Halfway
  <1>7. CASE Going(c, w, t) /\ n = 0 /\ rest = Tail(t) /\ rest # <<>>
    <2>1. r.optind + n = r.optind
      BY <1>5, <1>7
    <2>2. k \in 1 .. Len(w)
      BY <1>5, StartIs
    <2>3. rest = Suffix(w, k + 1) /\ k # Len(w)
      BY <1>5, <1>7, <2>2, SuffixIs
    <2>4. k + 1 \in Start(j, w) + 1 .. Len(w)
      BY <1>5, <2>2, <2>3, StartIs
    <2>5. j.entry # "sgetopt" => w[2] # "-"
      <3>1. ~AsLong(c, w, t)
        BY <1>7, Zenon DEF Going
      <3>2. j.entry # "sgetopt" /\ w[2] = "-" => AsLong(c, w, t)
        BY Zenon DEF AsLong, LongForm, MustBeLong
      <3>3. QED
        BY <3>1, <3>2
    <2>6. WordAt(c, argv[c], si[c].optind)' = w
      BY <1>4, <2>1 DEF WordAt
    <2>7. job'[c] = j
      BY <1>4
    <2>8. Opens(w) /\ (j.entry # "sgetopt" => w[2] # "-") /\ \E i \in Start(j, w) + 1 .. Len(w) : rest = Suffix(w, i)
      BY <1>5, <2>3, <2>4, <2>5
    <2> HIDE DEF w, j
    <2>9. QED
      BY <1>4, <2>6, <2>7, <2>8 DEF Halfway
  <1>8. QED
    BY <1>3, <1>4, <1>6, <1>7

\* No call loses its place within a word.
LEMMA HalfwayStep ==
  ASSUME RangeInv, \A c \in Ctx : Halfway(c), Heeds("Again"), [Next]_vars
  PROVE  \A c \in Ctx : Halfway(c)'
  <1>0. Typed /\ \A c \in Ctx : Ranged(c)
    BY DEF RangeInv
  <1>1. ASSUME NEW c \in Ctx, Halfway(c)', job' = job, \A d \in Ctx : d # c => argv'[d] = argv[d] /\ si'[d] = si[d]
        PROVE  \A d \in Ctx : Halfway(d)'
    BY <1>1, HalfwayKept
  <1>2. CASE UNCHANGED vars
    BY <1>2, HalfwayKept DEF vars
  <1>3. ASSUME NEW c \in Ctx, Create(c) PROVE \A d \in Ctx : Halfway(d)'
    BY <1>3, HalfwayKept DEF Create
  <1>4. ASSUME NEW c \in Ctx, Delete(c) PROVE \A d \in Ctx : Halfway(d)'
    <2>1. /\ si' = [si EXCEPT ![c] = Zeroed] /\ argv' = [argv EXCEPT ![c] = Given(job[c])] /\ job' = job
      BY <1>4 DEF Delete
    <2>2. si'[c].nextchar = <<>> /\ \A d \in Ctx : d # c => argv'[d] = argv[d] /\ si'[d] = si[d]
      BY <1>0, <2>1 DEF Typed, Zeroed
    <2>3. Halfway(c)'
      BY <2>2 DEF Halfway
    <2>4. QED
      BY <1>1, <2>1, <2>2, <2>3
  <1>5. ASSUME NEW c \in Ctx, Rescan(c) PROVE \A d \in Ctx : Halfway(d)'
    <2>1. /\ stage[c] = "Ended" /\ si' = [si EXCEPT ![c].optind = 0] /\ argv' = argv /\ job' = job
      BY <1>5 DEF Rescan
    <2>2. si'[c].nextchar = <<>> /\ \A d \in Ctx : d # c => argv'[d] = argv[d] /\ si'[d] = si[d]
      BY <1>0, <2>1 DEF Typed, Contexts, Ranged
    <2>3. Halfway(c)'
      BY <2>2 DEF Halfway
    <2>4. QED
      BY <1>1, <2>1, <2>2, <2>3
  <1>6. ASSUME NEW c \in Ctx, ClearOptopt(c) PROVE \A d \in Ctx : Halfway(d)'
    <2>1. si' = [si EXCEPT ![c].optopt = NoArg] /\ argv' = argv /\ job' = job
      BY <1>6 DEF ClearOptopt
    <2>2. \A d \in Ctx : si'[d].optind = si[d].optind /\ si'[d].nextchar = si[d].nextchar
      BY <1>0, <2>1 DEF Typed, Contexts
    <2>3. QED
      BY <2>1, <2>2, HalfwayKept
  <1>7. ASSUME NEW c \in Ctx, EndOfScan(c) \/ NonOption(c) PROVE \A d \in Ctx : Halfway(d)'
    <2>1. Calling(c)
      BY <1>7 DEF EndOfScan, NonOption
    <2>2. stage[c] = "Scanning"
      BY <2>1, CallingScans
    <2>3. \E e, n, opt : Steps(c, e, n, <<>>, opt)
      BY <1>0, <1>7, <2>2, EndSteps, OperandSteps
    <2>4. si'[c].nextchar = <<>> /\ job' = job /\ \A d \in Ctx : d # c => argv'[d] = argv[d] /\ si'[d] = si[d]
      BY <1>0, <2>3, StepsIs
    <2>5. Halfway(c)'
      BY <2>4 DEF Halfway
    <2>6. QED
      BY <1>1, <2>4, <2>5
  <1>8. ASSUME NEW c \in Ctx, LongOption(c) \/ ShortOption(c) PROVE \A d \in Ctx : Halfway(d)'
    <2>1. Calling(c)
      BY <1>8 DEF LongOption, ShortOption
    <2>2. stage[c] = "Scanning"
      BY <2>1, CallingScans
    <2>3. \E w, t : OptionStep(c, Reached(c), w, t)
      BY <1>0, <1>8, <2>2, OptionSteps
    <2>4. job' = job
      BY <2>3, Zenon DEF OptionStep, Steps
    <2>5. QED
      BY <1>0, <1>1, <1>8, <2>2, <2>4, HalfwayOption
  <1>9. QED
    BY <1>2, <1>3, <1>4, <1>5, <1>6, <1>7, <1>8 DEF Next

\* A caller is told a result, with that left to do and to read of a word.
Told(c, todo, rest, result) == said'[c] = result /\ si'[c].nextchar = rest /\ Todo(c)' = todo

\* What a call leaves that is about an option.
Used(c, r, n, rest) == n \in 0 .. 2 /\ r.optind + n <= Argc(c) /\ (n = 0 <=> rest # <<>>) /\ r.optind < Argc(c)

\* What is left to do when a call has used up so many words.
LEMMA ReturnsView ==
  ASSUME NEW c \in Ctx, Typed, NEW r, Steady(c, r), stage'[c] = "Scanning", NEW n, NEW rest, Used(c, r, n, rest), NEW result,
         Returns(c, r, n, rest, result), NEW u, IsLine(u, c, r.argv)
  PROVE  /\ n # 2 => Told(c, Run(u, r.optind + 1, Argc(c)), rest, result)
         /\ n = 2 => Told(c, Run(u, r.optind + 2, Argc(c)), rest, result)
  <1> DEFINE N == Argc(c)
             o == r.optind + n
  <1>0. n \in 0 .. 2 /\ o <= N /\ (n = 0 <=> rest # <<>>) /\ r.optind < N
    BY DEF Used
  <1>1. /\ N \in Nat /\ r.optind \in Nat /\ r.first \in Nat /\ r.last \in Nat /\ 1 <= r.optind
        /\ r.first <= r.last /\ r.last <= N /\ r.argv \in Cells(N, 1 .. N)
    BY SteadyIs
  <1>2. /\ said'[c] = result /\ argv'[c] = r.argv /\ job' = job
        /\ si'[c].optind = o /\ si'[c].first = r.first /\ si'[c].last = r.last /\ si'[c].nextchar = rest
    BY DEF Returns, Typed
  <1>3. o \in Nat /\ o # 0 /\ o <= N
    BY <1>0, <1>1
  <1> HIDE DEF o
  <1>4. Leaves(c, r.argv, o, r.first, r.last, rest)
    BY <1>2, <1>3 DEF Leaves
  <1>6. /\ rest = <<>> => Todo(c)' = Run(u, o, N)
        /\ rest # <<>> /\ o < N => Todo(c)' = Run(u, o + 1, N)
    BY <1>3, <1>4, LeavesTodo
  <1>7. CASE n = 0
    <2>1. o = r.optind /\ o < N
      BY <1>0, <1>1, <1>7 DEF o
    <2>2. Todo(c)' = Run(u, r.optind + 1, N)
      BY <1>0, <1>6, <1>7, <2>1
    <2>3. QED
      BY <1>2, <1>7, <2>2 DEF Told, N
  <1>8. CASE n = 1
    <2>1. Todo(c)' = Run(u, r.optind + 1, N)
      BY <1>0, <1>6, <1>8 DEF o
    <2>2. QED
      BY <1>2, <1>8, <2>1 DEF Told, N
  <1>9. CASE n = 2
    <2>1. Todo(c)' = Run(u, r.optind + 2, N)
      BY <1>0, <1>6, <1>9 DEF o
    <2>2. QED
      BY <1>2, <1>9, <2>1 DEF Told, N
  <1>10. QED
    BY <1>0, <1>7, <1>8, <1>9

\* The stream counts as the contexts do,
LEMMA StreamsCount == \A S : Streams!Cardinality(S) = Cardinality(S)
  BY Zenon DEF Streams!Cardinality, Cardinality

\* and to it a text means the same long options.
LEMMA StreamsMeaning ==
  ASSUME NEW j, NEW t
  PROVE  /\ Streams!HasValue(t) <=> HasValue(t)
         /\ Streams!ValueIn(t) = ValueIn(t)
         /\ Streams!Meant(j, t) = Meant(j, t)
  <1>1. (Streams!HasValue(t) <=> HasValue(t)) /\ Streams!ValueAt(t) = ValueAt(t)
    BY Zenon DEF Streams!HasValue, HasValue, Streams!ValueAt, ValueAt
  <1>2. Streams!NameIn(t) = NameIn(t) /\ Streams!ValueIn(t) = ValueIn(t)
    BY <1>1, Zenon DEF Streams!NameIn, NameIn, Streams!ValueIn, ValueIn
  <1>3. Streams!Meant(j, t) = Meant(j, t)
    BY <1>2, Zenon DEF Streams!Meant, Meant, IsPrefix, Streams!IsPrefix
  <1>4. QED
    BY <1>1, <1>2, <1>3

\* The result of a call that finds no argument.
Lacks(c) == IF job[c].colon THEN ":" ELSE "?"

\* How the stream has a letter read, and a long option.
LEMMA StreamLetter ==
  ASSUME NEW c \in Ctx, NEW t, NEW left, NEW takes, takes = Colons(job[c], Head(t)),
         \/ takes <= 0 /\ Told(c, left, Tail(t), Result(IF takes = 0 THEN "option" ELSE "?", <<Head(t)>>, NoArg))
         \/ takes > 0 /\ Tail(t) # <<>> /\ Told(c, left, <<>>, Result("option", <<Head(t)>>, Tail(t)))
         \/ takes = 2 /\ Tail(t) = <<>> /\ Told(c, left, <<>>, Result("option", <<Head(t)>>, NoArg))
         \/ /\ takes = 1 /\ Tail(t) = <<>> /\ left # <<>>
            /\ Told(c, Tail(left), <<>>, Result("option", <<Head(t)>>, Head(left)))
         \/ takes = 1 /\ Tail(t) = <<>> /\ left = <<>> /\ Told(c, left, <<>>, Result(Lacks(c), <<Head(t)>>, NoArg))
  PROVE  Streams!Letter(c, t, left)
  BY StreamsWords, Zenon DEF Streams!Letter, Streams!NextWord, Streams!Missing, Told, Colons, Lacks

\* How the stream has a long option read.
LEMMA StreamWord ==
  ASSUME NEW c \in Ctx, NEW t, NEW left, NEW meant, meant = Meant(job[c], t),
         \/ Cardinality(meant) # 1 /\ Told(c, left, <<>>, Result("?", NoArg, NoArg))
         \/ \E p \in meant :
              /\ meant = {p}
              /\ \/ HasValue(t) /\ p.has_arg /\ Told(c, left, <<>>, Result("option", p.name, ValueIn(t)))
                 \/ HasValue(t) /\ ~p.has_arg /\ Told(c, left, <<>>, Result("?", NoArg, NoArg))
                 \/ ~HasValue(t) /\ ~p.has_arg /\ Told(c, left, <<>>, Result("option", p.name, NoArg))
                 \/ /\ ~HasValue(t) /\ p.has_arg /\ left # <<>>
                    /\ Told(c, Tail(left), <<>>, Result("option", p.name, Head(left)))
                 \/ ~HasValue(t) /\ p.has_arg /\ left = <<>> /\ Told(c, left, <<>>, Result(Lacks(c), NoArg, NoArg))
  PROVE  Streams!Word(c, t, left)
  <1>1. /\ Streams!Meant(job[c], t) = meant /\ (Streams!HasValue(t) <=> HasValue(t))
        /\ Streams!ValueIn(t) = ValueIn(t) /\ Streams!NoArg = NoArg
        /\ \A code, opt, arg : Streams!Result(code, opt, arg) = Result(code, opt, arg)
    BY StreamsWords, StreamsMeaning
  <1>2. si'[c].nextchar = <<>>
    BY Zenon DEF Told
  <1>3. CASE Cardinality(meant) # 1 /\ Told(c, left, <<>>, Result("?", NoArg, NoArg))
    BY <1>1, <1>2, <1>3, StreamsCount, Zenon DEF Streams!Word, Told
  <1>4. ASSUME NEW p \in meant, meant = {p},
               \/ HasValue(t) /\ p.has_arg /\ Told(c, left, <<>>, Result("option", p.name, ValueIn(t)))
               \/ HasValue(t) /\ ~p.has_arg /\ Told(c, left, <<>>, Result("?", NoArg, NoArg))
               \/ ~HasValue(t) /\ ~p.has_arg /\ Told(c, left, <<>>, Result("option", p.name, NoArg))
               \/ /\ ~HasValue(t) /\ p.has_arg /\ left # <<>>
                  /\ Told(c, Tail(left), <<>>, Result("option", p.name, Head(left)))
               \/ ~HasValue(t) /\ p.has_arg /\ left = <<>> /\ Told(c, left, <<>>, Result(Lacks(c), NoArg, NoArg))
        PROVE  Streams!Word(c, t, left)
    <2> DEFINE S(left2, result) == Todo(c)' = left2 /\ said'[c] = result
    <2>1. \A l, rest, result : Told(c, l, rest, result) => S(l, result)
      BY Zenon DEF Told
    <2>2. \A l, code, opt, arg : S(l, Streams!Result(code, opt, arg)) <=> S(l, Result(code, opt, arg))
      BY <1>1, Zenon
    <2>3. ASSUME \/ left # <<>> /\ S(Tail(left), Result("option", p.name, Head(left)))
                 \/ left = <<>> /\ S(left, Result(Lacks(c), NoArg, NoArg))
          PROVE  Streams!NextWord(c, left, p.name, NoArg)
      BY <1>1, <2>3, Zenon DEF Streams!NextWord, Streams!Missing, Lacks
    <2> HIDE DEF S
    <2>4. \/ HasValue(t) /\ p.has_arg /\ S(left, Result("option", p.name, ValueIn(t)))
          \/ HasValue(t) /\ ~p.has_arg /\ S(left, Result("?", NoArg, NoArg))
          \/ ~HasValue(t) /\ ~p.has_arg /\ S(left, Result("option", p.name, NoArg))
          \/ ~HasValue(t) /\ p.has_arg /\ Streams!NextWord(c, left, p.name, NoArg)
      BY <1>4, <2>1, <2>3, Zenon
    <2>5. QED
      BY <1>1, <1>2, <1>4, <2>4, Zenon DEF Streams!Word, S
  <1>5. QED
    BY <1>3, <1>4

\* The word that is read, the words behind it, and that nothing else is meant.
Behind(c, r, u, left) == IsLine(u, c, r.argv) /\ left = Run(u, r.optind + 1, Argc(c))

\* The words behind the one that is read: none at the end, else the next of them.
LEMMA BehindIs ==
  ASSUME NEW c \in Ctx, Typed, NEW r, Steady(c, r), r.optind < Argc(c), NEW u, NEW left, Behind(c, r, u, left)
  PROVE  /\ r.optind + 1 >= Argc(c) => left = <<>>
         /\ r.optind + 1 < Argc(c) => /\ left # <<>> /\ Head(left) = WordAt(c, r.argv, r.optind + 1)
                                      /\ Tail(left) = Run(u, r.optind + 2, Argc(c))
  <1> DEFINE N == Argc(c)
             o == r.optind + 1
  <1>1. N \in Nat /\ r.optind \in Nat /\ u \in Cells(N, Texts)
    BY SteadyIs DEF Behind, IsLine
  <1>2. left = Run(u, o, N) /\ o \in Nat /\ o <= N
    BY <1>1 DEF Behind
  <1>3. o < N => u[o] = WordAt(c, r.argv, o)
    BY <1>1, <1>2, LineAt DEF Behind, IsLine
  <1>4. o + 1 = r.optind + 2
    BY <1>1
  <1> HIDE DEF N, o
  <1>5. CASE o >= N
    <2>1. o = N
      BY <1>1, <1>2, <1>5
    <2>2. left = <<>>
      BY <1>1, <1>2, <2>1, EmptyRun
    <2>3. ~(o < N)
      BY <1>1, <1>2, <1>5
    <2>4. QED
      BY <2>2, <2>3 DEF o, N
  <1>6. CASE o < N
    <2>1. left # <<>> /\ Head(left) = u[o] /\ Tail(left) = Run(u, o + 1, N)
      <3>1. o \in Nat
        BY <1>2
      <3>2. Run(u, o, N) # <<>> /\ Head(Run(u, o, N)) = u[o] /\ Tail(Run(u, o, N)) = Run(u, o + 1, N)
        BY <1>1, <1>6, <3>1, RunHead
      <3>3. QED
        BY <1>2, <3>2, Zenon
    <2>2. ~(o >= N)
      BY <1>1, <1>2, <1>6
    <2>3. QED
      BY <1>3, <1>4, <1>6, <2>1, <2>2, Zenon DEF o, N
  <1>7. QED
    BY <1>1, <1>2, <1>5, <1>6

\* What a call that is about an option leaves to do,
LEMMA ReturnsTold ==
  ASSUME NEW c \in Ctx, Typed, NEW r, Steady(c, r), r.optind < Argc(c), stage'[c] = "Scanning",
         NEW u, NEW left, Behind(c, r, u, left), NEW rest, NEW result
  PROVE  /\ Returns(c, r, 1, <<>>, result) => Told(c, left, <<>>, result)
         /\ rest # <<>> /\ Returns(c, r, 0, rest, result) => Told(c, left, rest, result)
         /\ r.optind + 1 < Argc(c) /\ Returns(c, r, 2, <<>>, result) => Told(c, Tail(left), <<>>, result)
  <1>1. Argc(c) \in Nat /\ r.optind \in Nat
    BY SteadyIs
  <1>2. IsLine(u, c, r.argv) /\ left = Run(u, r.optind + 1, Argc(c))
    BY DEF Behind
  <1>3. ASSUME Returns(c, r, 1, <<>>, result) PROVE Told(c, left, <<>>, result)
    <2>1. Used(c, r, 1, <<>>) /\ 1 # 2
      BY <1>1 DEF Used
    <2>2. Told(c, Run(u, r.optind + 1, Argc(c)), <<>>, result)
      BY <1>2, <1>3, <2>1, ReturnsView
    <2>3. QED
      BY <1>2, <2>2
  <1>4. ASSUME rest # <<>>, Returns(c, r, 0, rest, result) PROVE Told(c, left, rest, result)
    <2>1. Used(c, r, 0, rest) /\ 0 # 2
      BY <1>1, <1>4 DEF Used
    <2>2. Told(c, Run(u, r.optind + 1, Argc(c)), rest, result)
      BY <1>2, <1>4, <2>1, ReturnsView
    <2>3. QED
      BY <1>2, <2>2
  <1>5. ASSUME r.optind + 1 < Argc(c), Returns(c, r, 2, <<>>, result) PROVE Told(c, Tail(left), <<>>, result)
    <2>1. Used(c, r, 2, <<>>)
      BY <1>1, <1>5 DEF Used
    <2>2. Told(c, Run(u, r.optind + 2, Argc(c)), <<>>, result)
      BY <1>2, <1>5, <2>1, ReturnsView
    <2>3. Tail(left) = Run(u, r.optind + 2, Argc(c))
      BY <1>5, BehindIs
    <2>4. QED
      BY <2>2, <2>3
  <1>6. QED
    BY <1>3, <1>4, <1>5

\* what it puts aside, and that it goes on.
LEMMA OptionAside ==
  ASSUME NEW c \in Ctx, Typed, NEW r, Steady(c, r), stage'[c] = "Scanning", r.optind < Argc(c),
         NEW w, NEW t, OptionStep(c, r, w, t), NEW u, IsLine(u, c, r.argv)
  PROVE  Aside(c)' = Run(u, r.first, r.last)
  <1>1. /\ Argc(c) \in Nat /\ r.optind \in Nat /\ r.first \in Nat /\ r.last \in Nat /\ 1 <= r.optind
        /\ r.first <= r.last /\ r.last <= Argc(c) /\ r.argv \in Cells(Argc(c), 1 .. Argc(c))
    BY SteadyIs
  <1>2. PICK n, opt, rest : Steps(c, r, n, rest, opt) /\ (n = 0 \/ n = 1 \/ n = 2)
    BY Zenon DEF OptionStep
  <1> DEFINE o == r.optind + n
  <1>3. o # 0
    BY <1>1, <1>2
  <1>4. Leaves(c, r.argv, o, r.first, r.last, rest)
    BY <1>2, <1>3, StepsIs DEF Leaves
  <1> HIDE DEF o
  <1>5. Ascend(r.first, r.first, r.last, r.last, Argc(c))
    BY <1>1 DEF Ascend
  <1>6. QED
    BY <1>1, <1>4, <1>5, LeavesAside

\* An argument is missed by the code the optstring asks for.
LEMMA MissingIs ==
  ASSUME NEW c \in Ctx, Typed, PrefixUnread
  PROVE  Missing(c) = Lacks(c)
  <1>1. job \in Jobs
    BY DEF Typed
  <1>2. ~Signless(job[c]) => ~job[c].colon
    BY <1>1, Zenon DEF PrefixUnread
  <1>3. QED
    BY <1>2, Zenon DEF Missing, Lacks, Signless

\* A character that is read is read as the stream has it,
LEMMA ShortStreams ==
  ASSUME NEW c \in Ctx, PrefixUnread, stage[c] = "Scanning", ShortOption(c), NEW r, NEW w, NEW t, NEW k,
         ReadsAt(c, r, w, t, k), NEW u, NEW left, Behind(c, r, u, left)
  PROVE  Streams!Letter(c, t, left) /\ ~AsLong(c, w, t)
  <1> DEFINE opt == Head(t)
             more == Tail(t)
             takes == Takes(c, opt)
             used == WordsUsed(more, takes)
  <1>0. Found(c, r, w, t) /\ Typed /\ Steady(c, r) /\ r.optind < Argc(c)
    BY DEF ReadsAt, Found
  <1>1. /\ LongForm(c, w) => Meant(job[c], t) = {} /\ ~MustBeLong(c, w, t)
        /\ stage' = stage
        /\ \/ takes = -1 /\ Returns(c, r, used, more, Result("?", <<opt>>, NoArg))
           \/ takes = 0 /\ Returns(c, r, used, more, Result("option", <<opt>>, NoArg))
           \/ takes > 0 /\ more # <<>> /\ Returns(c, r, used, <<>>, Result("option", <<opt>>, more))
           \/ takes = 2 /\ more = <<>> /\ Returns(c, r, used, <<>>, Result("option", <<opt>>, NoArg))
           \/ /\ takes = 1 /\ more = <<>> /\ r.optind + 1 = Argc(c)
              /\ Returns(c, r, 1, <<>>, Result(Missing(c), <<opt>>, NoArg))
           \/ /\ takes = 1 /\ more = <<>> /\ r.optind + 1 < Argc(c)
              /\ Returns(c, r, 2, <<>>, Result("option", <<opt>>, WordAt(c, r.argv, r.optind + 1)))
    BY <1>0, Zenon DEF ShortOption, Found
  <1>2. takes = Colons(job[c], opt) /\ takes \in -1 .. 2
    BY <1>0, FormRead, TakesIs
  <1>3. used = IF more = <<>> \/ takes > 0 THEN 1 ELSE 0
    BY Zenon DEF WordsUsed
  <1>4. stage'[c] = "Scanning"
    BY <1>1
  <1>5. ~AsLong(c, w, t)
    BY <1>1, Zenon DEF AsLong
  <1> HIDE DEF opt, more, takes, used
  <1>6. ASSUME NEW result, NEW rest
        PROVE  /\ Returns(c, r, 1, <<>>, result) => Told(c, left, <<>>, result)
               /\ rest # <<>> /\ Returns(c, r, 0, rest, result) => Told(c, left, rest, result)
               /\ r.optind + 1 < Argc(c) /\ Returns(c, r, 2, <<>>, result) => Told(c, Tail(left), <<>>, result)
    BY <1>0, <1>4, ReturnsTold
  <1>7. ASSUME NEW result, takes <= 0, Returns(c, r, used, more, result) PROVE Told(c, left, more, result)
    <2>1. CASE more = <<>>
      <3>1. used = 1
        BY <1>3, <2>1
      <3>2. QED
        BY <1>6, <1>7, <2>1, <3>1
    <2>2. CASE more # <<>>
      <3>1. used = 0
        BY <1>2, <1>3, <1>7, <2>2
      <3>2. QED
        BY <1>6, <1>7, <2>2, <3>1
    <2>3. QED
      BY <2>1, <2>2
  <1>8. takes > 0 => used = 1
    BY <1>3
  <1>9. \/ takes <= 0 /\ Told(c, left, more, Result(IF takes = 0 THEN "option" ELSE "?", <<opt>>, NoArg))
        \/ takes > 0 /\ more # <<>> /\ Told(c, left, <<>>, Result("option", <<opt>>, more))
        \/ takes = 2 /\ more = <<>> /\ Told(c, left, <<>>, Result("option", <<opt>>, NoArg))
        \/ /\ takes = 1 /\ more = <<>> /\ left # <<>>
           /\ Told(c, Tail(left), <<>>, Result("option", <<opt>>, Head(left)))
        \/ takes = 1 /\ more = <<>> /\ left = <<>> /\ Told(c, left, <<>>, Result(Lacks(c), <<opt>>, NoArg))
    <2>1. CASE takes = -1 /\ Returns(c, r, used, more, Result("?", <<opt>>, NoArg))
      <3>1. takes <= 0 /\ takes # 0
        BY <2>1
      <3>2. QED
        BY <1>7, <2>1, <3>1, Zenon
    <2>2. CASE takes = 0 /\ Returns(c, r, used, more, Result("option", <<opt>>, NoArg))
      <3>1. takes <= 0
        BY <2>2
      <3>2. QED
        BY <1>7, <2>2, <3>1, Zenon
    <2>3. CASE takes > 0 /\ more # <<>> /\ Returns(c, r, used, <<>>, Result("option", <<opt>>, more))
      BY <1>6, <1>8, <2>3, Zenon
    <2>4. CASE takes = 2 /\ more = <<>> /\ Returns(c, r, used, <<>>, Result("option", <<opt>>, NoArg))
      <3>1. takes > 0
        BY <2>4
      <3>2. QED
        BY <1>6, <1>8, <2>4, <3>1, Zenon
    <2>5. CASE /\ takes = 1 /\ more = <<>> /\ r.optind + 1 = Argc(c)
               /\ Returns(c, r, 1, <<>>, Result(Missing(c), <<opt>>, NoArg))
      <3>1. r.optind + 1 >= Argc(c)
        BY <1>0, <2>5, SteadyIs
      <3>2. left = <<>> /\ Missing(c) = Lacks(c)
        BY <1>0, <3>1, BehindIs, MissingIs
      <3>3. QED
        BY <1>6, <2>5, <3>2, Zenon
    <2>6. CASE /\ takes = 1 /\ more = <<>> /\ r.optind + 1 < Argc(c)
               /\ Returns(c, r, 2, <<>>, Result("option", <<opt>>, WordAt(c, r.argv, r.optind + 1)))
      <3>1. left # <<>> /\ Head(left) = WordAt(c, r.argv, r.optind + 1)
        BY <1>0, <2>6, BehindIs
      <3>2. QED
        BY <1>6, <2>6, <3>1, Zenon
    <2>7. QED
      BY <1>1, <2>1, <2>2, <2>3, <2>4, <2>5, <2>6
  <1>10. Streams!Letter(c, t, left)
    BY <1>2, <1>9, StreamLetter DEF opt, more
  <1>11. QED
    BY <1>5, <1>10

\* a long option too,
LEMMA LongStreams ==
  ASSUME NEW c \in Ctx, PrefixUnread, stage[c] = "Scanning", LongOption(c), NEW r, NEW w, NEW t, NEW k,
         ReadsAt(c, r, w, t, k), NEW u, NEW left, Behind(c, r, u, left)
  PROVE  Streams!Word(c, t, left) /\ AsLong(c, w, t)
  <1> DEFINE meant == Meant(job[c], t)
             Next1 == r.optind + 1 < Argc(c)
             Last1 == r.optind + 1 >= Argc(c)
             x == WordAt(c, r.argv, r.optind + 1)
  <1>0. Found(c, r, w, t) /\ Typed /\ Steady(c, r) /\ r.optind < Argc(c)
    BY DEF ReadsAt, Found
  <1>1. /\ LongForm(c, w) /\ stage' = stage
        /\ \/ Cardinality(meant) > 1 /\ Refuses(c, r, "?")
           \/ meant = {} /\ MustBeLong(c, w, t) /\ Refuses(c, r, "?")
           \/ \E p \in meant :
                /\ meant = {p}
                /\ \/ HasValue(t) /\ p.has_arg /\ Returns(c, r, 1, <<>>, Result("option", p.name, ValueIn(t)))
                   \/ HasValue(t) /\ ~p.has_arg /\ Refuses(c, r, "?")
                   \/ ~HasValue(t) /\ ~p.has_arg /\ Returns(c, r, 1, <<>>, Result("option", p.name, NoArg))
                   \/ /\ ~HasValue(t) /\ p.has_arg /\ Next1
                      /\ Returns(c, r, 2, <<>>, Result("option", p.name, x))
                   \/ ~HasValue(t) /\ p.has_arg /\ Last1 /\ Refuses(c, r, Missing(c))
    BY <1>0, Zenon DEF LongOption, Found
  <1>2. stage'[c] = "Scanning"
    BY <1>1
  <1> HIDE DEF x
  <1>3. ASSUME NEW result
        PROVE  /\ Returns(c, r, 1, <<>>, result) => Told(c, left, <<>>, result)
               /\ Next1 /\ Returns(c, r, 2, <<>>, result) => Told(c, Tail(left), <<>>, result)
    BY <1>0, <1>2, ReturnsTold
  <1>4. ASSUME NEW code, Refuses(c, r, code) PROVE Told(c, left, <<>>, Result(code, NoArg, NoArg))
    BY <1>3, <1>4, Zenon DEF Refuses
  <1>5. (Last1 => left = <<>>) /\ (Next1 => left # <<>> /\ Head(left) = x) /\ Missing(c) = Lacks(c)
    BY <1>0, BehindIs, MissingIs DEF x
  <1> HIDE DEF meant, Next1, Last1
  <1>6. /\ Cardinality({}) # 1 /\ ~(Cardinality({}) > 1)
        /\ Cardinality(meant) > 1 => Cardinality(meant) # 1
    BY FS_EmptySet
  <1>7. \/ Cardinality(meant) # 1 /\ Told(c, left, <<>>, Result("?", NoArg, NoArg))
        \/ \E p \in meant :
             /\ meant = {p}
             /\ \/ HasValue(t) /\ p.has_arg /\ Told(c, left, <<>>, Result("option", p.name, ValueIn(t)))
                \/ HasValue(t) /\ ~p.has_arg /\ Told(c, left, <<>>, Result("?", NoArg, NoArg))
                \/ ~HasValue(t) /\ ~p.has_arg /\ Told(c, left, <<>>, Result("option", p.name, NoArg))
                \/ /\ ~HasValue(t) /\ p.has_arg /\ left # <<>>
                   /\ Told(c, Tail(left), <<>>, Result("option", p.name, Head(left)))
                \/ ~HasValue(t) /\ p.has_arg /\ left = <<>> /\ Told(c, left, <<>>, Result(Lacks(c), NoArg, NoArg))
    BY <1>1, <1>3, <1>4, <1>5, <1>6, Zenon
  <1>8. Streams!Word(c, t, left)
    BY <1>7, StreamWord DEF meant
  <1>9. AsLong(c, w, t)
    <2>1. ~(meant = {} /\ ~MustBeLong(c, w, t))
      BY <1>1, <1>6, Zenon
    <2>2. QED
      BY <1>1, <2>1, Zenon DEF AsLong, meant
  <1>10. QED
    BY <1>8, <1>9

\* The streams look a character up in the same optstring.
LEMMA StreamsLetters ==
  ASSUME NEW j, NEW ch
  PROVE  Streams!InOptstring(j, ch) <=> InOptstring(j, ch)
  BY Zenon DEF Streams!InOptstring, InOptstring

\* Whether a text that is read is a long option, the stream says likewise: of the rest
\* of a word,
LEMMA RestStreams ==
  ASSUME NEW c \in Ctx, Typed, PrefixUnread, NEW r, NEW w, NEW t, NEW k, ReadsAt(c, r, w, t, k), r.nextchar # <<>>
  PROVE  AsLong(c, w, t) <=> Streams!LongRest(c, t)
  <1> DEFINE j == job[c]
             h == Head(t)
  <1>1. AsLong(c, w, t) <=> LongText(j, w, t)
    BY FormRead
  <1>2. Len(w) > 2 /\ (j.entry # "sgetopt" => w[2] # "-")
    BY StartIs DEF ReadsAt
  <1>3. Streams!InOptstring(j, h) <=> InOptstring(j, h)
    BY StreamsLetters
  <1>4. Streams!Meant(j, t) = Meant(j, t)
    BY StreamsMeaning
  <1>5. Streams!LongRest(c, t) <=> j.entry = "long_only" /\ (Meant(j, t) # {} \/ ~InOptstring(j, h))
    BY <1>3, <1>4, Zenon DEF Streams!LongRest
  <1>6. j.entry = "long_only" => j.entry # "sgetopt"
    BY Zenon
  <1>7. LongText(j, w, t) <=> j.entry = "long_only" /\ (Meant(j, t) # {} \/ ~InOptstring(j, h))
    BY <1>2, <1>6, Zenon DEF LongText, LongWord, LongOnly
  <1>8. QED
    BY <1>1, <1>5, <1>7

\* and of a word that is begun.
LEMMA WordStreams ==
  ASSUME NEW c \in Ctx, Typed, PrefixUnread, NEW r, NEW w, NEW t, NEW k, ReadsAt(c, r, w, t, k), r.nextchar = <<>>
  PROVE  /\ AsLong(c, w, t) <=> Streams!Long(c, w)
         /\ AsLong(c, w, t) => SubSeq(w, IF w[2] = "-" THEN 3 ELSE 2, Len(w)) = t
         /\ ~AsLong(c, w, t) => Tail(w) = t
  <1> DEFINE j == job[c]
             dashed == j.entry # "sgetopt" /\ w[2] = "-"
             only == j.entry = "long_only"
  <1>1. (AsLong(c, w, t) <=> LongText(j, w, t)) /\ Head(t) = w[k] /\ 2 \in 1 .. Len(w)
    BY FormRead
  <1>2. w \in Seq(STRING) /\ k = Start(j, w) /\ t = Suffix(w, k)
    BY DEF ReadsAt
  <1>3. Streams!InOptstring(j, w[2]) <=> InOptstring(j, w[2])
    BY StreamsLetters
  <1>4. Tail(w) = Suffix(w, 2)
    <2>1. Len(w) >= 2 /\ Len(w) \in Nat
      BY <1>1, <1>2
    <2>2. w # <<>>
      BY <1>2, <2>1
    <2>3. QED
      BY <1>2, <2>1, <2>2 DEF Suffix
  <1>5. Streams!Meant(j, Tail(w)) = Meant(j, Tail(w))
    BY StreamsMeaning
  <1>6. Streams!Long(c, w) <=>
          dashed \/ (only /\ \/ Meant(j, Tail(w)) # {} /\ (Len(w) > 2 \/ ~InOptstring(j, w[2]))
                             \/ ~InOptstring(j, w[2]))
    BY <1>3, <1>5, Zenon DEF Streams!Long
  <1>7. only => j.entry # "sgetopt"
    BY Zenon
  <1>8. CASE dashed
    <2>1. k = 3
      BY <1>2, <1>8 DEF Start
    <2>2. LongText(j, w, t)
      BY <1>8, Zenon DEF LongText, LongWord, LongOnly
    <2>3. SubSeq(w, IF w[2] = "-" THEN 3 ELSE 2, Len(w)) = t
      BY <1>2, <1>8, <2>1, Zenon DEF Suffix
    <2>4. QED
      BY <1>1, <1>6, <1>8, <2>2, <2>3
  <1>9. CASE ~dashed
    <2>1. k = 2
      BY <1>2, <1>9 DEF Start
    <2>2. Tail(w) = t /\ Head(t) = w[2]
      BY <1>1, <1>2, <1>4, <2>1
    <2>3. LongText(j, w, t) <=> only /\ (Len(w) > 2 \/ ~InOptstring(j, w[2])) /\ ~(Meant(j, t) = {} /\ InOptstring(j, w[2]))
      BY <1>7, <1>9, <2>2, Zenon DEF LongText, LongWord, LongOnly
    <2>4. LongText(j, w, t) <=> Streams!Long(c, w)
      BY <1>6, <1>9, <2>2, <2>3, Zenon
    <2>5. LongText(j, w, t) => SubSeq(w, IF w[2] = "-" THEN 3 ELSE 2, Len(w)) = t
      <3>1. LongText(j, w, t) => w[2] # "-"
        BY <1>7, <1>9, <2>3, Zenon
      <3>2. QED
        BY <1>2, <2>1, <3>1, Zenon DEF Suffix
    <2>6. QED
      BY <1>1, <2>2, <2>4, <2>5
  <1>10. QED
    BY <1>8, <1>9

\* What a call does that reads an option, as its stream has it.
Does(c, w, t, left) ==
  \/ AsLong(c, w, t) /\ Streams!Word(c, t, left)
  \/ ~AsLong(c, w, t) /\ Streams!Letter(c, t, left)

\* A call about an option does what the stream has it do, and puts nothing aside of its own.
LEMMA OptionDone ==
  ASSUME NEW c \in Ctx, Typed, Ranged(c), PrefixUnread, stage[c] = "Scanning", LongOption(c) \/ ShortOption(c),
         NEW r, NEW w, NEW t, NEW k, ReadsAt(c, r, w, t, k), NEW u, IsLine(u, c, r.argv),
         NEW left, left = Run(u, r.optind + 1, Argc(c))
  PROVE  /\ Does(c, w, t, left) /\ stage'[c] = "Scanning"
         /\ Aside(c)' = Run(u, r.first, r.last)
  <1>1. Behind(c, r, u, left)
    BY DEF Behind
  <1>2. Does(c, w, t, left)
    BY <1>1, LongStreams, ShortStreams DEF Does
  <1>3. Steady(c, r) /\ r.optind < Argc(c) /\ r = Reached(c) /\ w = WordAt(c, r.argv, r.optind) /\ t = Text(c, r)
    BY DEF ReadsAt, Found
  <1>4. stage'[c] = "Scanning" /\ OptionStep(c, r, w, t)
    BY <1>3, OptionSteps
  <1>5. Aside(c)' = Run(u, r.first, r.last)
    BY <1>3, <1>4, OptionAside
  <1>6. QED
    BY <1>2, <1>4, <1>5

\* What the stream asks of a call that reads the rest of a word,
LEMMA RestOption ==
  ASSUME NEW c \in Ctx, NEW t, t = si[c].nextchar, NEW left, left = Todo(c), t # <<>>, stage[c] = "Scanning",
         stage'[c] = "Scanning", Aside(c)' = Aside(c),
         IF Streams!LongRest(c, t) THEN Streams!Word(c, t, left) ELSE Streams!Letter(c, t, left)
  PROVE  Streams!Option(c)
  <1>1. IF Streams!LongRest(c, si[c].nextchar) THEN Streams!Word(c, si[c].nextchar, Todo(c))
        ELSE Streams!Letter(c, si[c].nextchar, Todo(c))
    BY Zenon DEF Streams!Word, Streams!NextWord, Streams!Letter, Streams!LongRest
  <1>2. stage[c] = "Scanning" /\ stage'[c] = "Scanning" /\ si[c].nextchar # <<>> /\ Aside(c)' = Aside(c)
    OBVIOUS
  <1>3. [d \in Ctx |-> si[d].nextchar][c] = si[c].nextchar /\ [d \in Ctx |-> Todo(d)][c] = Todo(c)
    OBVIOUS
  <1>4. IF Streams!LongRest(c, [d \in Ctx |-> si[d].nextchar][c])
        THEN Streams!Word(c, [d \in Ctx |-> si[d].nextchar][c], [d \in Ctx |-> Todo(d)][c])
        ELSE Streams!Letter(c, [d \in Ctx |-> si[d].nextchar][c], [d \in Ctx |-> Todo(d)][c])
    BY <1>1, <1>3 DEF Streams!Word, Streams!NextWord, Streams!Letter, Streams!LongRest
  <1>5. QED
    BY <1>1, <1>2 DEF Streams!Option, Streams!Word, Streams!NextWord, Streams!Letter, Streams!LongRest

\* and of one that begins a word.
WordView(c, T, n, w, t, left) ==
  /\ T = Todo(c) /\ n \in 0 .. Len(T) - 1 /\ T[n + 1] = w /\ SubSeq(T, n + 1 + 1, Len(T)) = left
  /\ Streams!IsOption(w) /\ w # Streams!Terminator
  /\ Streams!Long(c, w) => SubSeq(w, IF w[2] = "-" THEN 3 ELSE 2, Len(w)) = t
  /\ ~Streams!Long(c, w) => Tail(w) = t

\* Reading a word that way is a step of the stream.
LEMMA WordOption ==
  ASSUME NEW c \in Ctx, NEW T, NEW m, NEW w, NEW t, NEW left, WordView(c, T, m, w, t, left), si[c].nextchar = <<>>,
         stage[c] = "Scanning", stage'[c] = "Scanning", Streams!Passes(c, m),
         IF Streams!Long(c, w) THEN Streams!Word(c, t, left) ELSE Streams!Letter(c, t, left)
  PROVE  Streams!Option(c)
  <1> DEFINE V == [d \in Ctx |-> Todo(d)][c]
             x == V[m + 1]
             y == Streams!After(c, m + 1)
             Text1(word) == SubSeq(word, IF word[2] = "-" THEN 3 ELSE 2, Len(word))
             Reads(n) ==
               LET word == [d \in Ctx |-> Todo(d)][c][n + 1]
               IN  /\ Streams!IsOption(word) /\ word # Streams!Terminator
                   /\ Streams!Passes(c, n)
                   /\ IF Streams!Long(c, word)
                      THEN Streams!Word(c, SubSeq(word, IF word[2] = "-" THEN 3 ELSE 2, Len(word)),
                                        Streams!After(c, n + 1))
                      ELSE Streams!Letter(c, Tail(word), Streams!After(c, n + 1))
  <1>1. V = T /\ x = w /\ y = left /\ m \in 0 .. Len(T) - 1
    BY DEF WordView, Streams!After
  <1>2. Streams!IsOption(w) /\ w # Streams!Terminator
    BY DEF WordView
  <1>3. IF Streams!Long(c, w) THEN Streams!Word(c, Text1(w), left) ELSE Streams!Letter(c, Tail(w), left)
    BY DEF WordView
  <1>4. Streams!Long(c, x) <=> Streams!Long(c, w)
    BY <1>1, Zenon DEF Streams!Long
  <1>5. Streams!Letter(c, Tail(w), left) => Streams!Letter(c, Tail(x), y)
    BY <1>1, Zenon DEF Streams!Letter, Streams!NextWord
  <1>6. Streams!Word(c, Text1(w), left) => Streams!Word(c, Text1(x), y)
    BY <1>1, Zenon DEF Streams!Word, Streams!NextWord
  <1>7. Streams!IsOption(x) /\ x # Streams!Terminator /\ m \in 0 .. Len(V) - 1
    BY <1>1, <1>2, Zenon DEF Streams!IsOption
  <1>8. Reads(m)
    BY <1>3, <1>4, <1>5, <1>6, <1>7, Zenon
  <1> HIDE DEF Reads
  <1>9. \E n \in 0 .. Len(V) - 1 : Reads(n)
    BY <1>7, <1>8, Zenon
  <1>10. ~[d \in Ctx |-> stage[d] # "Scanning"][c] /\ UNCHANGED [d \in Ctx |-> stage[d] # "Scanning"][c]
         /\ [d \in Ctx |-> si[d].nextchar][c] = <<>>
    OBVIOUS
  <1>11. QED
    BY <1>9, <1>10, ZenonT(60) DEF Streams!Option, Reads

\* The rest of a word is read,
LEMMA RestRead ==
  ASSUME NEW c \in Ctx, Typed, Ranged(c), PrefixUnread, Halfway(c), stage[c] = "Scanning",
         LongOption(c) \/ ShortOption(c), si[c].nextchar # <<>>
  PROVE  Streams!Option(c)
  <1> DEFINE r == Reached(c)
             w == WordAt(c, r.argv, r.optind)
             u == LineOf(c, r.argv)
             A == Aside(c)
  <1>0. PICK t, left : t = si[c].nextchar /\ left = Run(u, r.optind + 1, Argc(c))
    BY Zenon
  <1>1. r.nextchar = t /\ r = Entered(c) /\ r.argv = argv[c]
    BY <1>0, BeginsWord, ReachedSteady, EnteredSteady
  <1>2. Text(c, r) = t
    BY <1>0, <1>1 DEF Text
  <1>3. PICK k : ReadsAt(c, r, w, t, k)
    BY <1>2, CallReads
  <1>4. Todo(c) = left /\ A = Run(u, r.first, r.last)
    BY <1>0, <1>1, ViewIs
  <1>5. IsLine(u, c, r.argv)
    BY DEF IsLine
  <1> HIDE DEF w, u
  <1>6. Does(c, w, t, left) /\ stage'[c] = "Scanning" /\ Aside(c)' = Run(u, r.first, r.last)
    BY <1>0, <1>3, <1>5, OptionDone
  <1>7. AsLong(c, w, t) <=> Streams!LongRest(c, t)
    BY <1>0, <1>1, <1>3, RestStreams
  <1>8. Aside(c)' = A
    BY <1>4, <1>6
  <1> HIDE DEF r, A
  <1>9. Todo(c) = left /\ Aside(c)' = Aside(c)
    BY <1>4, <1>8 DEF A
  <1>10. IF Streams!LongRest(c, t) THEN Streams!Word(c, t, left) ELSE Streams!Letter(c, t, left)
    BY <1>6, <1>7 DEF Does
  <1>11. QED
    BY <1>0, <1>6, <1>9, <1>10, RestOption

\* and a word begun, behind the operands that are passed over.
LEMMA WordRead ==
  ASSUME NEW c \in Ctx, Typed, Ranged(c), SplitAt(c), Modes, PrefixUnread, Halfway(c), stage[c] = "Scanning",
         LongOption(c) \/ ShortOption(c), si[c].nextchar = <<>>
  PROVE  Streams!Option(c)
  <1> DEFINE r == Reached(c)
             w == WordAt(c, r.argv, r.optind)
             u == LineOf(c, r.argv)
             A == Aside(c)
  <1>0. PICK T, left : T = Todo(c) /\ left = Run(u, r.optind + 1, Argc(c))
    BY Zenon
  <1>1. r.nextchar = <<>> /\ Entered(c).nextchar = <<>>
    BY BeginsWord
  <1>2. PICK t, k : ReadsAt(c, r, w, t, k)
    BY CallReads
  <1>3. r.optind < Argc(c) /\ Opens(w) /\ Steady(c, r) /\ Argc(c) \in Nat /\ r.optind \in Nat
    BY <1>2, SteadyIs DEF ReadsAt, Found
  <1>4. IsLine(u, c, r.argv)
    BY DEF IsLine
  <1>5. PICK p, n : Came(c, p, n) /\ Stood(c, p)
    BY <1>1, CameTo
  <1> HIDE DEF r
  <1>6. r = p
    <2>1. CASE p.optind # Argc(c) /\ WordAt(c, p.argv, p.optind) = Terminator
      <3>1. AllPassed(c, p, r)
        BY <1>5, <2>1, Zenon DEF Stood, r
      <3>2. r.optind = Argc(c)
        BY <3>1 DEF AllPassed
      <3>3. QED
        BY <1>3, <3>2
    <2>2. CASE ~(p.optind # Argc(c) /\ WordAt(c, p.argv, p.optind) = Terminator)
      BY <1>5, <2>2, Zenon DEF Stood, r
    <2>3. QED
      BY <2>1, <2>2
  <1>7. /\ n \in 0 .. Len(T) /\ T \in Seq(Texts) /\ \A i \in 1 .. n : ~IsOption(T[i])
        /\ n > 0 => Signless(job[c])
        /\ Run(u, r.first, r.last) = A \o SubSeq(T, 1, n)
        /\ n < Len(T) /\ T[n + 1] = w /\ left = SubSeq(T, n + 2, Len(T))
    BY <1>0, <1>3, <1>5, <1>6, Zenon DEF Came
  <1>8. Does(c, w, t, left) /\ stage'[c] = "Scanning" /\ Aside(c)' = Run(u, r.first, r.last)
    BY <1>0, <1>2, <1>4, OptionDone
  <1>9. /\ AsLong(c, w, t) <=> Streams!Long(c, w)
        /\ AsLong(c, w, t) => SubSeq(w, IF w[2] = "-" THEN 3 ELSE 2, Len(w)) = t
        /\ ~AsLong(c, w, t) => Tail(w) = t
    BY <1>1, <1>2, WordStreams
  <1>10. n \in 0 .. Len(T) - 1 /\ (n + 1) + 1 = n + 2
    BY <1>7
  <1>11. Streams!IsOption(w) /\ w # Streams!Terminator
    BY <1>3, StreamsWords DEF Opens
  <1> HIDE DEF w, u, A
  <1>12. Streams!Passes(c, n)
    <2>1. \A i \in 1 .. n : ~Streams!IsOption(T[i])
      BY <1>7, StreamsWords
    <2>2. n > 0 => Streams!Permutes(c)
      BY <1>7, StreamsWords
    <2>3. Aside(c)' = A \o SubSeq(T, 1, n)
      BY <1>7, <1>8
    <2>4. QED
      BY <1>0, <2>1, <2>2, <2>3, Zenon DEF Streams!Passes, A
  <1>13. Streams!After(c, n + 1) = left
    <2>1. Streams!After(c, n + 1) = SubSeq(Todo(c), (n + 1) + 1, Len(Todo(c)))
      BY Zenon DEF Streams!After
    <2>2. QED
      BY <1>0, <1>7, <1>10, <2>1
  <1>14. WordView(c, T, n, w, t, left)
    BY <1>0, <1>7, <1>9, <1>10, <1>11 DEF WordView
  <1>15. IF Streams!Long(c, w) THEN Streams!Word(c, t, left) ELSE Streams!Letter(c, t, left)
    BY <1>8, <1>9 DEF Does
  <1>16. QED
    BY <1>8, <1>12, <1>14, <1>15, WordOption

\* So every call about an option is a step of the stream.
LEMMA StreamOption ==
  ASSUME NEW c \in Ctx, Typed, Ranged(c), SplitAt(c), Modes, PrefixUnread, Halfway(c), stage[c] = "Scanning",
         LongOption(c) \/ ShortOption(c)
  PROVE  Streams!Option(c)
  BY RestRead, WordRead

\* A call changes what belongs to its own context only.
Alters(c) ==
  /\ job' = job /\ \E result : said' = [said EXCEPT ![c] = result]
  /\ \A d \in Ctx : d # c => stage'[d] = stage[d] /\ argv'[d] = argv[d] /\ si'[d] = si[d]

Answers == said = [c \in Ctx |-> said[c]]

\* What a call returns concerns its own context,
LEMMA StepsAlter ==
  ASSUME NEW c \in Ctx, Typed, NEW r, NEW n, NEW rest, NEW opt, Steps(c, r, n, rest, opt),
         \A d \in Ctx : d # c => stage'[d] = stage[d]
  PROVE  Alters(c)
  <1>1. job' = job /\ \E result : said' = [said EXCEPT ![c] = result]
    BY Zenon DEF Steps
  <1>2. \A d \in Ctx : d # c => argv'[d] = argv[d] /\ si'[d] = si[d]
    BY StepsIs
  <1>3. QED
    BY <1>1, <1>2 DEF Alters

\* whatever it is about,
LEMMA CallAlters ==
  ASSUME NEW c \in Ctx, Typed, Ranged(c), stage[c] = "Scanning",
         EndOfScan(c) \/ NonOption(c) \/ LongOption(c) \/ ShortOption(c)
  PROVE  Alters(c)
  <1>1. CASE EndOfScan(c)
    <2>1. stage' = [stage EXCEPT ![c] = "Ended"] /\ \E e, opt : Steps(c, e, 0, <<>>, opt)
      BY <1>1, EndSteps
    <2>2. \A d \in Ctx : d # c => stage'[d] = stage[d]
      BY <2>1 DEF Typed
    <2>3. QED
      BY <2>1, <2>2, StepsAlter
  <1>2. CASE NonOption(c)
    <2>1. stage' = stage /\ \E opt : Steps(c, Reached(c), 1, <<>>, opt)
      BY <1>2, OperandSteps
    <2>2. QED
      BY <2>1, StepsAlter
  <1>3. CASE LongOption(c) \/ ShortOption(c)
    <2>1. stage' = stage /\ \E w, t : OptionStep(c, Reached(c), w, t)
      BY <1>3, OptionSteps
    <2>2. \E n, rest, opt : Steps(c, Reached(c), n, rest, opt)
      BY <2>1, Zenon DEF OptionStep
    <2>3. QED
      BY <2>1, <2>2, StepsAlter
  <1>4. QED
    BY <1>1, <1>2, <1>3

\* and so does what its caller does.
LEMMA CallerAlters ==
  ASSUME NEW c \in Ctx, Typed, Answers, Create(c) \/ Delete(c) \/ Rescan(c) \/ ClearOptopt(c)
  PROVE  Alters(c)
  <1>0. DOMAIN stage = Ctx /\ DOMAIN argv = Ctx /\ DOMAIN si = Ctx
    BY DEF Typed
  <1>1. said = [said EXCEPT ![c] = said[c]]
    BY DEF Answers
  <1>2. CASE Create(c)
    BY <1>0, <1>1, <1>2 DEF Create, Alters
  <1>3. CASE Delete(c)
    BY <1>0, <1>3 DEF Delete, Alters
  <1>4. CASE Rescan(c)
    BY <1>0, <1>1, <1>4 DEF Rescan, Alters
  <1>5. CASE ClearOptopt(c)
    BY <1>0, <1>5 DEF ClearOptopt, Alters
  <1>6. QED
    BY <1>2, <1>3, <1>4, <1>5

\* The results of the other contexts stay.
LEMMA AnswersKept ==
  ASSUME NEW c \in Ctx, Answers, Alters(c)
  PROVE  Answers' /\ said' = [said EXCEPT ![c] = said'[c]]
  <1>1. PICK result : said' = [said EXCEPT ![c] = result]
    BY DEF Alters
  <1>2. QED
    BY <1>1 DEF Answers

\* What does not change is read and put aside as before.
LEMMA OthersKept ==
  ASSUME NEW d, job' = job, stage'[d] = stage[d], argv'[d] = argv[d], si'[d] = si[d]
  PROVE  Todo(d)' = Todo(d) /\ Aside(d)' = Aside(d)
  BY DEF Todo, Aside, Words, WordAt, Argc, Fresh

\* To its stream that is a step of one context.
StreamStep(c) ==
  Streams!Begin(c) \/ Streams!Forget(c) \/ Streams!Note(c) \/ Streams!End(c) \/ Streams!Operand(c) \/ Streams!Option(c)

\* A step of one context is a step of the streams.
LEMMA StreamNext ==
  ASSUME NEW c \in Ctx, Answers, Alters(c), StreamStep(c)
  PROVE  Streams!Next
  <1>1. job' = job /\ said' = [said EXCEPT ![c] = said'[c]]
    BY AnswersKept DEF Alters
  <1>2. \A d \in Ctx : d # c => /\ Todo(d)' = Todo(d) /\ Aside(d)' = Aside(d)
                                /\ si'[d].nextchar = si[d].nextchar /\ stage'[d] = stage[d]
    BY OthersKept DEF Alters
  <1>3. [d \in Ctx |-> Todo(d)]' = [[d \in Ctx |-> Todo(d)] EXCEPT ![c] = [d \in Ctx |-> Todo(d)]'[c]]
    BY <1>2
  <1>4. [d \in Ctx |-> Aside(d)]' = [[d \in Ctx |-> Aside(d)] EXCEPT ![c] = [d \in Ctx |-> Aside(d)]'[c]]
    BY <1>2
  <1>5. [d \in Ctx |-> si[d].nextchar]'
          = [[d \in Ctx |-> si[d].nextchar] EXCEPT ![c] = [d \in Ctx |-> si[d].nextchar]'[c]]
    BY <1>2
  <1>6. [d \in Ctx |-> stage[d] # "Scanning"]'
          = [[d \in Ctx |-> stage[d] # "Scanning"] EXCEPT ![c] = [d \in Ctx |-> stage[d] # "Scanning"]'[c]]
    BY <1>2
  <1>7. QED
    BY <1>1, <1>3, <1>4, <1>5, <1>6, Zenon DEF Streams!Next, Streams!Only, StreamStep

\* When nothing changes, no stream does.
LEMMA StreamStutters ==
  ASSUME UNCHANGED vars
  PROVE  UNCHANGED Streams!vars
  BY DEF vars, Streams!vars, Todo, Aside, Words, WordAt, Argc, Fresh

\* The streams begin with nothing to do.
LEMMA StreamInit ==
  ASSUME Init
  PROVE  Streams!Init /\ Answers /\ \A c \in Ctx : Halfway(c)
  <1>1. stage = [c \in Ctx |-> "None"] /\ si = [c \in Ctx |-> Zeroed] /\ said = [c \in Ctx |-> Nothing]
    BY DEF Init
  <1>2. \A c \in Ctx : Todo(c) = <<>> /\ Aside(c) = <<>> /\ si[c].nextchar = <<>> /\ stage[c] # "Scanning"
    BY <1>1 DEF Todo, Aside, Zeroed
  <1>3. Streams!Nothing = Nothing
    BY Zenon DEF Streams!Nothing, Nothing, Streams!Result, Result, Streams!NoArg, NoArg
  <1>4. [c \in Ctx |-> stage[c] # "Scanning"] = [c \in Ctx |-> TRUE]
    BY <1>2, Zenon
  <1>5. Streams!Init
    BY <1>1, <1>2, <1>3, <1>4 DEF Streams!Init
  <1>6. QED
    BY <1>1, <1>2, <1>5 DEF Answers, Halfway

\* Every call of a context is a step of its stream.
StreamInv == RangeInv /\ SplitInv /\ Answers /\ \A c \in Ctx : Halfway(c)

\* Every step is one of a stream, or none.
LEMMA StreamSteps ==
  ASSUME PrefixUnread, Heeds("Again"), StreamInv, [Next]_vars
  PROVE  Answers' /\ [Streams!Next]_Streams!vars
  <1>0. Typed /\ Modes /\ Answers /\ \A c \in Ctx : Ranged(c) /\ SplitAt(c) /\ Halfway(c)
    BY DEF StreamInv, RangeInv, SplitInv
  <1>1. CASE UNCHANGED vars
    <2>1. Answers'
      BY <1>0, <1>1 DEF Answers, vars
    <2>2. QED
      BY <1>1, <2>1, StreamStutters
  <1>2. ASSUME NEW c \in Ctx, Alters(c), StreamStep(c) PROVE Answers' /\ [Streams!Next]_Streams!vars
    <2>1. Answers' /\ Streams!Next
      BY <1>0, <1>2, AnswersKept, StreamNext
    <2>2. QED
      BY <2>1
  <1>3. ASSUME NEW c \in Ctx, Create(c) \/ Delete(c) \/ Rescan(c) \/ ClearOptopt(c)
        PROVE  Alters(c) /\ StreamStep(c)
    <2>1. Alters(c)
      BY <1>0, <1>3, CallerAlters
    <2>2. StreamStep(c)
      BY <1>0, <1>3, StreamBegins, StreamForgets, StreamNotes DEF StreamStep
    <2>3. QED
      BY <2>1, <2>2
  <1>4. ASSUME NEW c \in Ctx, EndOfScan(c) \/ NonOption(c) \/ LongOption(c) \/ ShortOption(c)
        PROVE  Alters(c) /\ StreamStep(c)
    <2>1. Calling(c)
      BY <1>4 DEF EndOfScan, NonOption, LongOption, ShortOption
    <2>2. stage[c] = "Scanning"
      BY <2>1, CallingScans DEF StreamInv
    <2>3. Alters(c)
      BY <1>0, <1>4, <2>2, CallAlters
    <2>4. StreamStep(c)
      BY <1>0, <1>4, <2>2, EndViewed, StreamOperand, StreamOption DEF StreamStep
    <2>5. QED
      BY <2>3, <2>4
  <1>5. QED
    BY <1>1, <1>2, <1>3, <1>4 DEF Next

\* To its caller a scan reads the words of the command line from left to right, each of
\* them once and by the caller's own ordering, whatever another context is doing: for
\* every command line and any number of contexts, whose callers heed EOF and do not mix
\* orderings, if the prefix of an optstring is not met among the options.
THEOREM ReadsLeftToRight ==
  Heeds("Again") /\ Heeds("Mix") /\ PrefixUnread => (Spec => ImplementsOptionStream)
  <1> SUFFICES ASSUME Heeds("Again"), Heeds("Mix"), PrefixUnread PROVE Spec => ImplementsOptionStream
    OBVIOUS
  <1>1. Init => StreamInv /\ Streams!Init
    BY RangeInit, SplitInit, StreamInit DEF StreamInv
  <1>2. StreamInv /\ [Next]_vars => StreamInv' /\ [Streams!Next]_Streams!vars
    <2> SUFFICES ASSUME StreamInv, [Next]_vars PROVE StreamInv' /\ [Streams!Next]_Streams!vars
      OBVIOUS
    <2>1. RangeInv' /\ SplitInv'
      BY RangeStep, SplitStep DEF StreamInv
    <2>2. \A c \in Ctx : Halfway(c)'
      BY HalfwayStep DEF StreamInv
    <2>3. Answers' /\ [Streams!Next]_Streams!vars
      BY StreamSteps
    <2>4. QED
      BY <2>1, <2>2, <2>3 DEF StreamInv
  <1>3. QED
    BY <1>1, <1>2, PTL DEF Spec, ImplementsOptionStream, Streams!Spec
================================================================================
