--------------------------- MODULE HwndTimerProofs ---------------------------
(***************************************************************************)
(* The system's timer and the object agree, no message goes astray, a stop *)
(* is final, a run is counted and a span is kept: the proofs of            *)
(* ArmedWhileTicking, NoFault, OneLateCallback, CountExact and SpanExact,  *)
(* for any number of windows, any depth of nested calls and any number of  *)
(* starts.  Each theorem names what its clients must not do; the last one  *)
(* holds for all.                                                          *)
(***************************************************************************)
EXTENDS HwndTimer, TLAPS

TimerRecords ==
  [hwnd : Wnd \cup {NoWnd}, ticking : BOOLEAN, kind : {"Count", "Span"},
   need : Counts \cup {0}, done : 0 .. MaxDone, end : Clock]

\* A run, at a window that is named.
Named(a) == a.w # NoWnd /\ ~(a.kind = "Count" /\ a.n = 0)

Frames == [at : {"Callback", "Off", "Arm"}]
          \cup [at : {"Begin"}, ask : {a \in Ask : Named(a)}]

Has(s, at) == \E i \in DOMAIN s : s[i].at = at

Once(s, at) == \A i, j \in DOMAIN s : s[i].at = at /\ s[j].at = at => i = j

FramesOf(s) == {s[i] : i \in DOMAIN s}

(***************************************************************************)
(* The inductive invariant.  In the midst of calls a timer of the system   *)
(* is never at another window than the object's, and never there for an    *)
(* object that has stopped; an object that is ticking may lack its timer   *)
(* only while a call on the stack is still to set it.  A start that leaves *)
(* a window waits on the stack with the object stopped, and only one does: *)
(* otherwise it would take over a run that another start had begun.        *)
(***************************************************************************)
TimersKept ==
  /\ armed \subseteq {w \in {t.hwnd} : t.ticking}
  /\ (t.ticking /\ t.hwnd \in alive /\ ~Has(stack, "Arm")) => t.hwnd \in armed

MovesKept ==
  /\ Once(stack, "Begin")
  /\ Has(stack, "Begin") => ~t.ticking

TimerInv ==
  /\ TypeOK
  /\ stack \in Seq(Frames)
  /\ t.ticking => t.hwnd \in Wnd
  /\ TimersKept
  /\ MovesKept

-----------------------------------------------------------------------------
(* The stack.                                                               *)

LEMMA FrameAt ==
  ASSUME NEW f \in Frames
  PROVE  /\ f.at \in {"Callback", "Off", "Arm", "Begin"}
         /\ f.at = "Begin" => f.ask \in Ask /\ Named(f.ask)
  BY DEF Frames

LEMMA FrameIn ==
  /\ Frame("Callback") \in Frames /\ Frame("Off") \in Frames /\ Frame("Arm") \in Frames
  /\ \A a \in Ask : Named(a) => [at |-> "Begin", ask |-> a] \in Frames
  BY DEF Frames, Frame

LEMMA Push ==
  ASSUME NEW f \in Frames, NEW s \in Seq(Frames)
  PROVE  /\ <<f>> \o s \in Seq(Frames)
         /\ \A at : Has(<<f>> \o s, at) <=> f.at = at \/ Has(s, at)
         /\ \A at : Once(s, at) /\ (f.at = at => ~Has(s, at)) => Once(<<f>> \o s, at)
         /\ FramesOf(<<f>> \o s) = {f} \cup FramesOf(s)
  <1> DEFINE q == <<f>> \o s
  <1>1. q \in Seq(Frames) /\ Len(q) = Len(s) + 1 /\ q[1] = f
    OBVIOUS
  <1>2. \A i \in 1 .. Len(s) : q[i + 1] = s[i]
    OBVIOUS
  <1>3. /\ DOMAIN q = 1 .. Len(s) + 1 /\ DOMAIN s = 1 .. Len(s) /\ Len(s) \in Nat
    BY <1>1
  <1> HIDE DEF q
  <1>4. \A i \in DOMAIN q : i = 1 \/ (i - 1 \in DOMAIN s /\ q[i] = s[i - 1])
    <2> TAKE i \in DOMAIN q
    <2>1. i \in 1 .. Len(s) + 1
      BY <1>3
    <2>2. CASE i # 1
      <3>1. i - 1 \in 1 .. Len(s) /\ (i - 1) + 1 = i
        BY <1>3, <2>1, <2>2
      <3>2. QED
        BY <1>2, <1>3, <3>1
    <2>3. QED
      BY <2>2
  <1>5. \A i \in DOMAIN s : i + 1 \in DOMAIN q /\ q[i + 1] = s[i]
    BY <1>2, <1>3
  <1>6. 1 \in DOMAIN q
    BY <1>3
  <1>7. ASSUME NEW at PROVE Has(q, at) <=> f.at = at \/ Has(s, at)
    BY <1>1, <1>4, <1>5, <1>6 DEF Has
  <1>8. ASSUME NEW at, Once(s, at), f.at = at => ~Has(s, at)
        PROVE  Once(q, at)
    <2> SUFFICES ASSUME NEW i \in DOMAIN q, NEW j \in DOMAIN q, q[i].at = at, q[j].at = at
                 PROVE  i = j
      BY DEF Once
    <2>1. i \in Nat /\ j \in Nat
      BY <1>3
    <2>2. CASE i = 1 \/ j = 1
      BY <1>1, <1>4, <1>8, <2>2 DEF Has
    <2>3. CASE i # 1 /\ j # 1
      <3>1. i - 1 = j - 1
        BY <1>4, <1>8, <2>3 DEF Once
      <3>2. QED
        BY <2>1, <3>1
    <2>4. QED
      BY <2>2, <2>3
  <1>9. FramesOf(q) = {f} \cup FramesOf(s)
    <2>1. FramesOf(q) \subseteq {f} \cup FramesOf(s)
      BY <1>1, <1>4 DEF FramesOf
    <2>2. f \in FramesOf(q)
      BY <1>1, <1>6 DEF FramesOf
    <2>3. FramesOf(s) \subseteq FramesOf(q)
      BY <1>5 DEF FramesOf
    <2>4. QED
      BY <2>1, <2>2, <2>3
  <1>10. QED
    BY <1>1, <1>7, <1>8, <1>9 DEF q

LEMMA Pop ==
  ASSUME NEW s \in Seq(Frames), s # <<>>
  PROVE  /\ Head(s) \in Frames /\ Tail(s) \in Seq(Frames)
         /\ \A at : Has(s, at) <=> Head(s).at = at \/ Has(Tail(s), at)
         /\ \A at : Once(s, at) => Once(Tail(s), at) /\ (Head(s).at = at => ~Has(Tail(s), at))
         /\ FramesOf(s) = {Head(s)} \cup FramesOf(Tail(s))
  <1> DEFINE q == Tail(s)
  <1>1. /\ Head(s) \in Frames /\ q \in Seq(Frames) /\ Head(s) = s[1]
        /\ Len(s) \in Nat /\ Len(s) > 0
        /\ DOMAIN q = 1 .. Len(s) - 1 /\ DOMAIN s = 1 .. Len(s)
    OBVIOUS
  <1>2. \A i \in 1 .. Len(s) - 1 : q[i] = s[i + 1]
    OBVIOUS
  <1> HIDE DEF q
  <1>3. \A i \in DOMAIN q : i \in Nat /\ i # 0 /\ i + 1 \in DOMAIN s /\ q[i] = s[i + 1]
    BY <1>1, <1>2
  <1>4. \A i \in DOMAIN s : i = 1 \/ (i - 1 \in DOMAIN q /\ s[i] = q[i - 1])
    <2> TAKE i \in DOMAIN s
    <2>1. i \in 1 .. Len(s)
      BY <1>1
    <2>2. CASE i # 1
      <3>1. i - 1 \in 1 .. Len(s) - 1 /\ (i - 1) + 1 = i
        BY <1>1, <2>1, <2>2
      <3>2. QED
        BY <1>1, <1>2, <3>1
    <2>3. QED
      BY <2>2
  <1>5. 1 \in DOMAIN s
    BY <1>1
  <1>6. ASSUME NEW at PROVE Has(s, at) <=> Head(s).at = at \/ Has(q, at)
    BY <1>1, <1>3, <1>4, <1>5 DEF Has
  <1>7. ASSUME NEW at, Once(s, at)
        PROVE  Once(q, at) /\ (Head(s).at = at => ~Has(q, at))
    <2>1. ASSUME NEW i \in DOMAIN q, NEW j \in DOMAIN q, q[i].at = at, q[j].at = at
          PROVE  i = j
      <3>1. i + 1 = j + 1
        BY <1>3, <1>7, <2>1 DEF Once
      <3>2. QED
        BY <1>3, <3>1
    <2>2. ASSUME NEW i \in DOMAIN q, q[i].at = at, Head(s).at = at
          PROVE  FALSE
      <3>1. i + 1 = 1
        BY <1>1, <1>3, <1>5, <1>7, <2>2 DEF Once
      <3>2. QED
        BY <1>3, <3>1
    <2>3. QED
      BY <2>1, <2>2 DEF Once, Has
  <1>8. FramesOf(s) = {Head(s)} \cup FramesOf(q)
    BY <1>1, <1>3, <1>4, <1>5 DEF FramesOf
  <1>9. QED
    BY <1>1, <1>6, <1>7, <1>8 DEF q

LEMMA TopPops ==
  ASSUME NEW at \in {"Callback", "Off", "Arm", "Begin"}, Top = at
  PROVE  stack # <<>> /\ Head(stack).at = at
  BY DEF Top

-----------------------------------------------------------------------------
(* The members.                                                             *)

LEMMA Numbers ==
  /\ MaxDone \in Nat /\ 0 \in Clock
  /\ \A n \in Int : n % 2 ^ ClockBits \in Clock
  /\ \A c \in Clock : c \in Nat
  <1> DEFINE m == 2 ^ ClockBits
  <1>1. m \in Nat \ {0}
    BY ClockAssumption
  <1>2. Clock = 0 .. m - 1
    BY DEF Clock
  <1>3. MaxDone \in Nat
    BY TimerAssumption DEF TimerAssumption
  <1> HIDE DEF m
  <1>4. \A n \in Int : n % m \in 0 .. m - 1
    BY <1>1
  <1>5. 0 \in 0 .. m - 1 /\ \A c \in 0 .. m - 1 : c \in Nat
    BY <1>1
  <1>6. QED
    BY <1>2, <1>3, <1>4, <1>5 DEF m

LEMMA AskFields ==
  ASSUME NEW a \in Ask
  PROVE  /\ a.w \in Wnd \cup {NoWnd} /\ a.kind \in {"Count", "Span"} /\ a.now \in BOOLEAN
         /\ a.kind = "Count" => a.n \in Counts
         /\ a.kind = "Span" => a.n \in Nat
  BY TimerAssumption DEF Ask, TimerAssumption

LEMMA StoppedIs ==
  ASSUME NEW s \in TimerRecords
  PROVE  /\ Stopped(s) \in TimerRecords /\ Stopped(s).hwnd = s.hwnd
         /\ ~Stopped(s).ticking /\ Stopped(s).need = 0 /\ Stopped(s).end = 0
  <1>1. 0 \in 0 .. MaxDone
    BY Numbers
  <1>2. QED
    BY <1>1, Numbers DEF Stopped, TimerRecords

LEMMA CountedIs ==
  ASSUME NEW s \in TimerRecords, NEW c, c = [s EXCEPT !.done = OneMore(@)]
  PROVE  /\ c \in TimerRecords /\ c.hwnd = s.hwnd /\ c.ticking = s.ticking
         /\ c.kind = s.kind /\ c.need = s.need /\ c.end = s.end
  <1>1. c = [hwnd |-> s.hwnd, ticking |-> s.ticking, kind |-> s.kind,
             need |-> s.need, done |-> OneMore(s.done), end |-> s.end]
    BY DEF TimerRecords
  <1>2. OneMore(s.done) \in 0 .. MaxDone
    BY Numbers DEF OneMore, TimerRecords
  <1>3. QED
    BY <1>1, <1>2 DEF TimerRecords

-----------------------------------------------------------------------------
(* The halves of StartPeriodicWork() and StopTimer().                       *)

\* A timer that is stopped is not there any more, whatever is still to go on.
LEMMA StopKeeps ==
  ASSUME TimerInv, NEW s \in TimerRecords, NEW rest \in Seq(Frames),
         s.hwnd = t.hwnd, s.ticking = t.ticking,
         ~s.ticking => s.need = 0 /\ s.end = 0,
         Once(rest, "Begin"), StopThen(s, rest),
         UNCHANGED <<alive, posted, clock, fault, asked>>
  PROVE  TimerInv'
  <1>1. /\ t' \in TimerRecords /\ ~t'.ticking /\ t'.need = 0 /\ t'.end = 0
        /\ armed' = {}
    BY StoppedIs DEF StopThen, TimerInv, TimersKept
  <1>2. stack' \in Seq(Frames) /\ Once(stack', "Begin")
    <2>1. Frame("Off") \in Frames /\ Frame("Off").at = "Off"
      BY FrameIn DEF Frame
    <2>2. stack' = rest \/ stack' = <<Frame("Off")>> \o rest
      BY DEF StopThen
    <2>3. QED
      BY <2>1, <2>2, Push
  <1>3. \A i \in DOMAIN stack' : stack'[i].at \in {"Callback", "Off", "Arm", "Begin"}
    BY <1>2, FrameAt
  <1>4. TypeOK'
    BY <1>1, <1>3 DEF TimerInv, TypeOK, TimerRecords
  <1>5. TimersKept' /\ MovesKept'
    BY <1>1, <1>2 DEF TimersKept, MovesKept
  <1>6. QED
    BY <1>1, <1>2, <1>4, <1>5 DEF TimerInv

\* A run begins with its timer, or with a call on the stack that will set it.
LEMMA BeginKeeps ==
  ASSUME TimerInv, NEW a \in Ask, NEW w \in Wnd, NEW rest \in Seq(Frames),
         armed \subseteq {w}, Once(rest, "Begin"), ~Has(rest, "Begin"),
         Begin(a, w, rest), UNCHANGED <<alive, posted, clock>>
  PROVE  TimerInv'
  <1>1. /\ armed' \subseteq {w} /\ armed' \subseteq alive /\ fault' \in BOOLEAN
        /\ ~a.now => (w \in alive => w \in armed')
    BY DEF Begin, SetTimer, TimerInv, TypeOK
  <1>2. /\ t' = [hwnd |-> w, ticking |-> TRUE, kind |-> a.kind,
                 need |-> IF a.kind = "Count" THEN a.n ELSE 0, done |-> 0,
                 end |-> (clock + (IF a.kind = "Span" THEN a.n ELSE 0)) % 2 ^ ClockBits]
        /\ asked' = a
    BY DEF Begin
  <1>3. t' \in TimerRecords /\ t'.ticking /\ t'.hwnd = w
    <2>1. clock \in Nat /\ (IF a.kind = "Span" THEN a.n ELSE 0) \in Nat
      BY Numbers, AskFields DEF TimerInv, TypeOK
    <2>2. (clock + (IF a.kind = "Span" THEN a.n ELSE 0)) % 2 ^ ClockBits \in Clock
      BY <2>1, Numbers
    <2>3. (IF a.kind = "Count" THEN a.n ELSE 0) \in Counts \cup {0} /\ 0 \in 0 .. MaxDone
      BY AskFields, Numbers
    <2>4. QED
      BY <1>2, <2>2, <2>3, AskFields DEF TimerRecords
  <1>4. /\ stack' \in Seq(Frames) /\ Once(stack', "Begin") /\ ~Has(stack', "Begin")
        /\ a.now => Has(stack', "Arm")
    <2>1. CASE a.now
      <3> DEFINE inner == <<Frame("Arm")>> \o rest
      <3>1. /\ inner \in Seq(Frames) /\ Once(inner, "Begin") /\ Has(inner, "Arm")
            /\ ~Has(inner, "Begin")
        BY FrameIn, Push DEF Frame
      <3>2. stack' = <<Frame("Callback")>> \o inner
        BY <2>1, FrameIn DEF Begin
      <3> HIDE DEF inner
      <3>3. QED
        BY <3>1, <3>2, FrameIn, Push DEF Frame
    <2>2. CASE ~a.now
      BY <2>2 DEF Begin
    <2>3. QED
      BY <2>1, <2>2
  <1>5. \A i \in DOMAIN stack' : stack'[i].at \in {"Callback", "Off", "Arm", "Begin"}
    BY <1>4, FrameAt
  <1>6. TypeOK'
    BY <1>1, <1>2, <1>3, <1>5, AskFields DEF TimerInv, TypeOK, TimerRecords
  <1>7. TimersKept' /\ MovesKept'
    BY <1>1, <1>3, <1>4 DEF TimersKept, MovesKept
  <1>8. QED
    BY <1>3, <1>4, <1>6, <1>7 DEF TimerInv

-----------------------------------------------------------------------------
(* The actions.                                                             *)

\* What TimerInv says of the members and the stack, in a form the lemmas take.
LEMMA Known ==
  ASSUME TimerInv
  PROVE  /\ t \in TimerRecords /\ stack \in Seq(Frames) /\ Once(stack, "Begin")
         /\ ~t.ticking => t.need = 0 /\ t.end = 0
  BY DEF TimerInv, TypeOK, TimerRecords, MovesKept

LEMMA InitKeeps == Init => TimerInv
  <1> SUFFICES ASSUME Init PROVE TimerInv
    OBVIOUS
  <1>1. /\ alive = Wnd /\ armed = {} /\ posted = {} /\ clock \in Clock
        /\ stack = <<>> /\ fault \in BOOLEAN
        /\ asked = [w |-> NoWnd, kind |-> "Count", n |-> 0, now |-> FALSE]
    BY DEF Init
  <1>2. /\ t \in TimerRecords /\ ~t.ticking /\ t.need = 0 /\ t.end = 0
    <2>1. 0 \in 0 .. MaxDone
      BY Numbers
    <2>2. QED
      BY <2>1, Numbers DEF Init, TimerRecords
  <1>3. stack \in Seq(Frames) /\ DOMAIN stack = {}
    BY <1>1
  <1>4. TypeOK
    BY <1>1, <1>2, <1>3 DEF TypeOK, TimerRecords
  <1>5. QED
    BY <1>1, <1>2, <1>3, <1>4 DEF TimerInv, TimersKept, MovesKept, Once, Has

LEMMA StartKeeps ==
  ASSUME TimerInv, "RestartInMove" \notin Client, NEW a \in Ask, Start(a)
  PROVE  TimerInv'
  <1>1. UNCHANGED <<alive, posted, clock>> /\ Heeds(a) /\ a.w \in Wnd \cup {NoWnd}
    BY AskFields DEF Start
  <1>2. alive \subseteq Wnd /\ NoWnd \notin Wnd
    BY TimerAssumption DEF TimerInv, TypeOK, TimerAssumption
  <1>3. ~Has(stack, "Begin")
    BY <1>1 DEF Heeds, Waits, Has
  <1>4. CASE StopThen(t, stack) /\ UNCHANGED <<fault, asked>>
    BY <1>1, <1>4, Known, StopKeeps
  <1>5. CASE ~Moves(a) /\ Begin(a, IF a.w = NoWnd THEN t.hwnd ELSE a.w, stack)
    <2> DEFINE w == IF a.w = NoWnd THEN t.hwnd ELSE a.w
    <2>1. w \in Wnd
      BY <1>1, <1>2 DEF Heeds
    <2>2. armed \subseteq {w}
      BY <1>5, <1>2 DEF Moves, TimerInv, TimersKept
    <2>3. Begin(a, w, stack)
      BY <1>5
    <2> HIDE DEF w
    <2>4. QED
      BY <1>1, <1>3, <2>1, <2>2, <2>3, Known, BeginKeeps
  <1>6. CASE /\ ~(a.kind = "Count" /\ a.n = 0) /\ Moves(a)
             /\ StopThen(t, <<[at |-> "Begin", ask |-> a]>> \o stack)
             /\ UNCHANGED <<fault, asked>>
    <2> DEFINE rest == <<[at |-> "Begin", ask |-> a]>> \o stack
    <2>1. [at |-> "Begin", ask |-> a] \in Frames
      BY <1>6, FrameIn DEF Moves, Named
    <2>2. rest \in Seq(Frames) /\ Once(rest, "Begin")
      BY <1>3, <2>1, Known, Push
    <2>3. StopThen(t, rest)
      BY <1>6
    <2> HIDE DEF rest
    <2>4. QED
      BY <1>1, <1>6, <2>2, <2>3, Known, StopKeeps
  <1>7. QED
    BY <1>4, <1>5, <1>6 DEF Start

LEMMA StopCallKeeps ==
  ASSUME TimerInv, Stop
  PROVE  TimerInv'
  BY Known, StopKeeps DEF Stop

LEMMA DestroyKeeps ==
  ASSUME TimerInv, NEW w \in Wnd, Destroy(w)
  PROVE  TimerInv'
  <1>1. /\ alive' = alive \ {w} /\ armed' = armed \ {w} /\ posted' = posted \ {w}
        /\ UNCHANGED <<clock, t, stack, fault, asked>>
    BY DEF Destroy
  <1>2. TypeOK'
    BY <1>1 DEF TimerInv, TypeOK
  <1>3. TimersKept' /\ MovesKept'
    BY <1>1 DEF TimerInv, TimersKept, MovesKept
  <1>4. QED
    BY <1>1, <1>2, <1>3 DEF TimerInv

LEMMA CallbackReturnsKeeps ==
  ASSUME TimerInv, CallbackReturns
  PROVE  TimerInv'
  <1> DEFINE counted == [t EXCEPT !.done = OneMore(@)]
  <1>1. UNCHANGED <<alive, posted, clock, fault, asked>>
    BY DEF CallbackReturns
  <1>2. /\ stack # <<>> /\ Head(stack).at = "Callback"
    BY TopPops DEF CallbackReturns
  <1>3. /\ Tail(stack) \in Seq(Frames) /\ Once(Tail(stack), "Begin")
        /\ Has(stack, "Arm") <=> Has(Tail(stack), "Arm")
        /\ Has(stack, "Begin") <=> Has(Tail(stack), "Begin")
    BY <1>2, Known, Pop
  <1>4. /\ counted \in TimerRecords /\ counted.hwnd = t.hwnd /\ counted.ticking = t.ticking
        /\ counted.need = t.need /\ counted.end = t.end
    BY Known, CountedIs
  <1>5. \/ StopThen(counted, Tail(stack))
        \/ t' = counted /\ stack' = Tail(stack) /\ armed' = armed
    BY DEF CallbackReturns
  <1> HIDE DEF counted
  <1>6. CASE StopThen(counted, Tail(stack))
    BY <1>1, <1>3, <1>4, <1>6, Known, StopKeeps
  <1>7. CASE t' = counted /\ stack' = Tail(stack) /\ armed' = armed
    <2>1. \A i \in DOMAIN stack' : stack'[i].at \in {"Callback", "Off", "Arm", "Begin"}
      BY <1>3, <1>7, FrameAt
    <2>2. TypeOK'
      BY <1>1, <1>4, <1>7, <2>1, Known DEF TimerInv, TypeOK, TimerRecords
    <2>3. TimersKept' /\ MovesKept'
      BY <1>1, <1>3, <1>4, <1>7 DEF TimerInv, TimersKept, MovesKept
    <2>4. QED
      BY <1>1, <1>3, <1>4, <1>7, <2>2, <2>3 DEF TimerInv
  <1>8. QED
    BY <1>5, <1>6, <1>7

LEMMA OffReturnsKeeps ==
  ASSUME TimerInv, OffReturns
  PROVE  TimerInv'
  <1>1. /\ stack' = Tail(stack) /\ UNCHANGED <<alive, posted, clock, t, fault, armed, asked>>
        /\ stack # <<>> /\ Head(stack).at = "Off"
    BY TopPops DEF OffReturns
  <1>2. /\ stack' \in Seq(Frames) /\ Once(stack', "Begin")
        /\ Has(stack, "Arm") <=> Has(stack', "Arm")
        /\ Has(stack, "Begin") <=> Has(stack', "Begin")
    BY <1>1, Known, Pop
  <1>3. \A i \in DOMAIN stack' : stack'[i].at \in {"Callback", "Off", "Arm", "Begin"}
    BY <1>2, FrameAt
  <1>4. TypeOK'
    BY <1>1, <1>3 DEF TimerInv, TypeOK
  <1>5. TimersKept' /\ MovesKept'
    BY <1>1, <1>2 DEF TimerInv, TimersKept, MovesKept
  <1>6. QED
    BY <1>1, <1>2, <1>4, <1>5 DEF TimerInv

LEMMA ArmKeeps ==
  ASSUME TimerInv, Arm
  PROVE  TimerInv'
  <1>1. /\ stack' = Tail(stack) /\ UNCHANGED <<alive, posted, clock, t, asked>>
        /\ stack # <<>> /\ Head(stack).at = "Arm"
    BY TopPops DEF Arm
  <1>2. /\ stack' \in Seq(Frames) /\ Once(stack', "Begin")
        /\ Has(stack, "Begin") <=> Has(stack', "Begin")
    BY <1>1, Known, Pop
  <1>3. /\ armed' \subseteq {v \in {t.hwnd} : t.ticking} /\ armed' \subseteq alive
        /\ t.ticking /\ t.hwnd \in alive => t.hwnd \in armed'
        /\ fault' \in BOOLEAN
    BY DEF Arm, SetTimer, TimerInv, TypeOK, TimersKept
  <1>4. \A i \in DOMAIN stack' : stack'[i].at \in {"Callback", "Off", "Arm", "Begin"}
    BY <1>2, FrameAt
  <1>5. TypeOK'
    BY <1>1, <1>3, <1>4 DEF TimerInv, TypeOK
  <1>6. TimersKept' /\ MovesKept'
    BY <1>1, <1>2, <1>3 DEF TimerInv, TimersKept, MovesKept
  <1>7. QED
    BY <1>1, <1>2, <1>5, <1>6 DEF TimerInv

LEMMA ResumeKeeps ==
  ASSUME TimerInv, Resume
  PROVE  TimerInv'
  <1> DEFINE a == Head(stack).ask
  <1>1. /\ stack # <<>> /\ Head(stack).at = "Begin"
        /\ Begin(a, a.w, Tail(stack)) /\ UNCHANGED <<alive, posted, clock>>
    BY TopPops DEF Resume
  <1>2. /\ Head(stack) \in Frames /\ Tail(stack) \in Seq(Frames) /\ Once(Tail(stack), "Begin")
        /\ ~Has(Tail(stack), "Begin") /\ Has(stack, "Begin")
    BY <1>1, Known, Pop
  <1>3. a \in Ask /\ a.w \in Wnd
    BY <1>1, <1>2, FrameAt, AskFields DEF Named
  <1>4. armed \subseteq {a.w}
    BY <1>2 DEF TimerInv, TimersKept, MovesKept
  <1> HIDE DEF a
  <1>5. QED
    BY <1>1, <1>2, <1>3, <1>4, BeginKeeps

LEMMA SystemKeeps ==
  ASSUME TimerInv, Tick \/ \E w \in Wnd : Elapse(w)
  PROVE  TimerInv'
  <1>1. /\ UNCHANGED <<alive, t, stack, fault, armed, asked>>
        /\ posted' \subseteq alive /\ clock' \in Clock
    <2>1. CASE Tick
      <3>1. clock + 1 \in Int
        BY Numbers DEF TimerInv, TypeOK
      <3>2. QED
        BY <2>1, <3>1, Numbers DEF Tick, TimerInv, TypeOK
    <2>2. ASSUME NEW w \in Wnd, Elapse(w)
          PROVE  /\ UNCHANGED <<alive, t, stack, fault, armed, asked>>
                 /\ posted' \subseteq alive /\ clock' \in Clock
      BY <2>2 DEF Elapse, timerVars, TimerInv, TypeOK
    <2>3. QED
      BY <2>1, <2>2
  <1>2. TypeOK'
    BY <1>1 DEF TimerInv, TypeOK
  <1>3. TimersKept' /\ MovesKept'
    BY <1>1 DEF TimerInv, TimersKept, MovesKept
  <1>4. QED
    BY <1>1, <1>2, <1>3 DEF TimerInv

LEMMA DeliverKeeps ==
  ASSUME TimerInv, NEW w \in Wnd, Deliver(w)
  PROVE  TimerInv'
  <1>1. /\ UNCHANGED <<alive, clock, t, armed, asked>>
        /\ posted' \subseteq alive /\ fault' \in BOOLEAN
        /\ stack' = <<Frame("Callback")>> \o stack
    BY DEF Deliver, TimerInv, TypeOK
  <1>2. /\ stack' \in Seq(Frames) /\ Once(stack', "Begin")
        /\ Has(stack', "Arm") <=> Has(stack, "Arm")
        /\ Has(stack', "Begin") <=> Has(stack, "Begin")
    BY <1>1, Known, FrameIn, Push DEF Frame
  <1>3. \A i \in DOMAIN stack' : stack'[i].at \in {"Callback", "Off", "Arm", "Begin"}
    BY <1>2, FrameAt
  <1>4. TypeOK'
    BY <1>1, <1>3 DEF TimerInv, TypeOK
  <1>5. TimersKept' /\ MovesKept'
    BY <1>1, <1>2 DEF TimerInv, TimersKept, MovesKept
  <1>6. QED
    BY <1>1, <1>2, <1>4, <1>5 DEF TimerInv

LEMMA StutterKeeps ==
  ASSUME TimerInv, UNCHANGED vars
  PROVE  TimerInv'
  <1>1. UNCHANGED <<alive, posted, clock, t, stack, fault, armed, asked>>
    BY DEF vars, timerVars
  <1>2. TypeOK'
    BY <1>1 DEF TimerInv, TypeOK
  <1>3. TimersKept' /\ MovesKept'
    BY <1>1 DEF TimerInv, TimersKept, MovesKept
  <1>4. QED
    BY <1>1, <1>2, <1>3 DEF TimerInv

LEMMA NextKeeps ==
  ASSUME "RestartInMove" \notin Client, TimerInv, [Next]_vars
  PROVE  TimerInv'
  <1>1. ASSUME NEW a \in Ask, Start(a) PROVE TimerInv'
    BY <1>1, StartKeeps
  <1>2. CASE Stop
    BY <1>2, StopCallKeeps
  <1>3. ASSUME NEW w \in Wnd, Destroy(w) \/ Deliver(w) PROVE TimerInv'
    BY <1>3, DestroyKeeps, DeliverKeeps
  <1>4. CASE Tick \/ \E w \in Wnd : Elapse(w)
    BY <1>4, SystemKeeps
  <1>5. CASE CallbackReturns \/ OffReturns \/ Arm \/ Resume
    BY <1>5, CallbackReturnsKeeps, OffReturnsKeeps, ArmKeeps, ResumeKeeps
  <1>6. CASE UNCHANGED vars
    BY <1>6, StutterKeeps
  <1>7. QED
    BY <1>1, <1>2, <1>3, <1>4, <1>5, <1>6 DEF Next

\* Between calls there are no calls on the stack that are still to set a timer.
LEMMA KeptIsArmed == TimerInv => ArmedWhileTicking
  <1> SUFFICES ASSUME TimerInv, Quiet
               PROVE  armed = IF t.ticking THEN {t.hwnd} \cap alive ELSE {}
    BY DEF ArmedWhileTicking, TimerInv
  <1>1. ~Has(stack, "Arm")
    BY DEF Quiet, Has
  <1>2. QED
    BY <1>1 DEF TimerInv, TypeOK, TimersKept

\* Whatever a client's two callbacks do to the timer that called them -- stop it,
\* start it again, move it to another window, destroy that window, or run a
\* message loop -- between calls the system has a timer for the object just when
\* the object is ticking, and at its own window.  Only a start in the
\* TimerOffCallback() of a move is excepted.
THEOREM TimerCorrect ==
  ASSUME "RestartInMove" \notin Client
  PROVE  Spec => []ArmedWhileTicking
  <1>1. Init => TimerInv
    BY InitKeeps
  <1>2. TimerInv /\ [Next]_vars => TimerInv'
    BY NextKeeps
  <1>3. TimerInv => ArmedWhileTicking
    BY KeptIsArmed
  <1>4. QED
    BY <1>1, <1>2, <1>3, PTL DEF Spec

-----------------------------------------------------------------------------
(***************************************************************************)
(* No assertion fails.  A message can only reach the object's own window   *)
(* because the client does not move on while one waits, nor destroys a     *)
(* window that a call on the stack is about to use.                        *)
(***************************************************************************)
FaultInv ==
  /\ ~fault
  /\ posted \subseteq {t.hwnd}
  /\ Has(stack, "Begin") => posted = {}
  /\ (Has(stack, "Arm") /\ t.ticking) => t.hwnd \in alive
  /\ \A f \in FramesOf(stack) : f.at = "Begin" => f.ask.w \in alive

Heeding == /\ "RestartInMove" \notin Client
           /\ "MoveEarly" \notin Client /\ "DestroyEarly" \notin Client

\* A stop changes nothing of that: only its TimerOffCallback() is added.
LEMMA StopIsFaultless ==
  ASSUME FaultInv, NEW s \in TimerRecords, NEW rest \in Seq(Frames), s.hwnd = t.hwnd,
         Has(rest, "Begin") => posted = {},
         \A f \in FramesOf(rest) : f.at = "Begin" => f.ask.w \in alive,
         StopThen(s, rest), UNCHANGED <<alive, posted, fault>>
  PROVE  FaultInv'
  <1>1. Frame("Off") \in Frames /\ Frame("Off").at = "Off"
    BY FrameIn DEF Frame
  <1>2. t'.hwnd = t.hwnd /\ ~t'.ticking
    BY StoppedIs DEF StopThen
  <1>3. stack' = rest \/ stack' = <<Frame("Off")>> \o rest
    BY DEF StopThen
  <1>4. /\ Has(stack', "Begin") => posted = {}
        /\ \A f \in FramesOf(stack') : f.at = "Begin" => f.ask.w \in alive
    <2>1. CASE stack' = <<Frame("Off")>> \o rest
      <3>1. /\ Has(stack', "Begin") <=> Has(rest, "Begin")
            /\ FramesOf(stack') = {Frame("Off")} \cup FramesOf(rest)
        BY <1>1, <2>1, Push
      <3>2. QED
        BY <1>1, <3>1
    <2>2. QED
      BY <1>3, <2>1
  <1>5. QED
    BY <1>2, <1>4 DEF FaultInv

LEMMA BeginIsFaultless ==
  ASSUME FaultInv, NEW a, NEW w \in alive, NEW rest \in Seq(Frames),
         posted \subseteq {w}, ~Has(rest, "Begin"),
         Begin(a, w, rest), UNCHANGED <<alive, posted>>
  PROVE  FaultInv'
  <1>1. t'.hwnd = w /\ ~fault'
    BY DEF Begin, SetTimer, FaultInv
  <1>2. ~Has(stack', "Begin")
    <2>1. CASE a.now
      <3> DEFINE inner == <<Frame("Arm")>> \o rest
      <3>1. inner \in Seq(Frames) /\ ~Has(inner, "Begin")
        BY FrameIn, Push DEF Frame
      <3>2. stack' = <<Frame("Callback")>> \o inner
        BY <2>1, FrameIn DEF Begin
      <3> HIDE DEF inner
      <3>3. QED
        BY <3>1, <3>2, FrameIn, Push DEF Frame
    <2>2. CASE ~a.now
      BY <2>2 DEF Begin
    <2>3. QED
      BY <2>1, <2>2
  <1>3. \A f \in FramesOf(stack') : f.at # "Begin"
    BY <1>2 DEF Has, FramesOf
  <1>4. QED
    BY <1>1, <1>2, <1>3 DEF FaultInv

LEMMA StartIsFaultless ==
  ASSUME Heeding, TimerInv, FaultInv, NEW a \in Ask, Start(a)
  PROVE  FaultInv'
  <1>1. UNCHANGED <<alive, posted>> /\ Heeds(a) /\ a.w \in Wnd \cup {NoWnd}
    BY AskFields DEF Start
  <1>2. NoWnd \notin alive /\ posted \subseteq alive
    BY TimerAssumption DEF TimerInv, TypeOK, TimerAssumption
  <1>3. ~Has(stack, "Begin")
    BY <1>1 DEF Heeds, Heeding, Waits, Has
  <1>4. /\ a.w = NoWnd => t.hwnd \in alive
        /\ a.w # NoWnd => a.w \in alive
        /\ a.w # NoWnd /\ a.w # t.hwnd => posted = {}
    BY <1>1 DEF Heeds, Heeding, FaultInv
  <1>5. CASE StopThen(t, stack) /\ UNCHANGED <<fault, asked>>
    BY <1>1, <1>5, Known, StopIsFaultless DEF FaultInv
  <1>6. CASE Begin(a, IF a.w = NoWnd THEN t.hwnd ELSE a.w, stack)
    <2> DEFINE w == IF a.w = NoWnd THEN t.hwnd ELSE a.w
    <2>1. w \in alive /\ posted \subseteq {w}
      BY <1>4 DEF FaultInv
    <2>2. Begin(a, w, stack)
      BY <1>6
    <2> HIDE DEF w
    <2>3. QED
      BY <1>1, <1>3, <2>1, <2>2, Known, BeginIsFaultless
  <1>7. CASE /\ ~(a.kind = "Count" /\ a.n = 0) /\ Moves(a)
             /\ StopThen(t, <<[at |-> "Begin", ask |-> a]>> \o stack)
             /\ UNCHANGED <<fault, asked>>
    <2> DEFINE new == [at |-> "Begin", ask |-> a]
               rest == <<new>> \o stack
    <2>1. new \in Frames /\ new.at = "Begin" /\ new.ask.w \in alive /\ posted = {}
      BY <1>4, <1>7, FrameIn DEF Moves, Named
    <2>2. StopThen(t, rest)
      BY <1>7
    <2> HIDE DEF new
    <2>3. /\ rest \in Seq(Frames)
          /\ FramesOf(rest) = {new} \cup FramesOf(stack)
      BY <2>1, Known, Push
    <2> HIDE DEF rest
    <2>4. \A f \in FramesOf(rest) : f.at = "Begin" => f.ask.w \in alive
      BY <2>1, <2>3 DEF FaultInv
    <2>5. QED
      BY <1>1, <1>7, <2>1, <2>2, <2>3, <2>4, Known, StopIsFaultless
  <1>8. QED
    BY <1>5, <1>6, <1>7 DEF Start

\* A call that returns leaves less on the stack.
LEMMA PopIsFaultless ==
  ASSUME TimerInv, FaultInv, stack # <<>>
  PROVE  /\ Has(Tail(stack), "Begin") => posted = {}
         /\ Has(Tail(stack), "Arm") /\ t.ticking => t.hwnd \in alive
         /\ \A f \in FramesOf(Tail(stack)) : f.at = "Begin" => f.ask.w \in alive
  BY Known, Pop DEF FaultInv

LEMMA ReturnIsFaultless ==
  ASSUME TimerInv, FaultInv, CallbackReturns \/ OffReturns \/ Arm
  PROVE  FaultInv'
  <1>1. CASE CallbackReturns
    <2> DEFINE counted == [t EXCEPT !.done = OneMore(@)]
    <2>1. /\ UNCHANGED <<alive, posted, fault>> /\ stack # <<>>
          /\ \/ StopThen(counted, Tail(stack))
             \/ t' = counted /\ stack' = Tail(stack)
      BY <1>1, TopPops DEF CallbackReturns
    <2>2. counted \in TimerRecords /\ counted.hwnd = t.hwnd /\ counted.ticking = t.ticking
      BY Known, CountedIs
    <2>3. Tail(stack) \in Seq(Frames)
      BY <2>1, Known, Pop
    <2> HIDE DEF counted
    <2>4. CASE StopThen(counted, Tail(stack))
      BY <2>1, <2>2, <2>3, <2>4, PopIsFaultless, StopIsFaultless
    <2>5. CASE t' = counted /\ stack' = Tail(stack)
      BY <2>1, <2>2, <2>5, PopIsFaultless DEF FaultInv
    <2>6. QED
      BY <2>1, <2>4, <2>5
  <1>2. CASE OffReturns
    <2>1. UNCHANGED <<alive, posted, t, fault>> /\ stack # <<>> /\ stack' = Tail(stack)
      BY <1>2, TopPops DEF OffReturns
    <2>2. QED
      BY <2>1, PopIsFaultless DEF FaultInv
  <1>3. CASE Arm
    <2>1. /\ UNCHANGED <<alive, posted, t>> /\ stack' = Tail(stack)
          /\ stack # <<>> /\ Head(stack).at = "Arm"
      BY <1>3, TopPops DEF Arm
    <2>2. Has(stack, "Arm")
      BY <2>1, Known, Pop
    <2>3. ~fault'
      BY <1>3, <2>2 DEF Arm, SetTimer, FaultInv
    <2>4. QED
      BY <2>1, <2>3, PopIsFaultless DEF FaultInv
  <1>4. QED
    BY <1>1, <1>2, <1>3

LEMMA ResumeIsFaultless ==
  ASSUME TimerInv, FaultInv, Resume
  PROVE  FaultInv'
  <1> DEFINE a == Head(stack).ask
  <1>1. /\ stack # <<>> /\ Head(stack).at = "Begin"
        /\ Begin(a, a.w, Tail(stack)) /\ UNCHANGED <<alive, posted>>
    BY TopPops DEF Resume
  <1>2. /\ Tail(stack) \in Seq(Frames) /\ ~Has(Tail(stack), "Begin") /\ Has(stack, "Begin")
        /\ Head(stack) \in FramesOf(stack)
    BY <1>1, Known, Pop
  <1>3. a.w \in alive /\ posted \subseteq {a.w}
    BY <1>1, <1>2 DEF FaultInv
  <1> HIDE DEF a
  <1>4. QED
    BY <1>1, <1>2, <1>3, BeginIsFaultless

LEMMA DestroyIsFaultless ==
  ASSUME Heeding, FaultInv, NEW w \in Wnd, Destroy(w)
  PROVE  FaultInv'
  <1>1. /\ alive' = alive \ {w} /\ posted' = posted \ {w} /\ UNCHANGED <<t, stack, fault>>
        /\ ~Has(stack, "Begin")
        /\ ~(Has(stack, "Arm") /\ t.ticking /\ w = t.hwnd)
    BY DEF Destroy, Heeding, Waits, Has
  <1>2. \A f \in FramesOf(stack) : f.at # "Begin"
    BY <1>1 DEF Has, FramesOf
  <1>3. QED
    BY <1>1, <1>2 DEF FaultInv

LEMMA SystemIsFaultless ==
  ASSUME TimerInv, FaultInv, NEW w \in Wnd, Elapse(w) \/ Deliver(w)
  PROVE  FaultInv'
  <1>1. CASE Elapse(w)
    BY <1>1 DEF Elapse, timerVars, TimerInv, TimersKept, MovesKept, FaultInv
  <1>2. CASE Deliver(w)
    <2>1. /\ UNCHANGED <<alive, t>> /\ posted' = posted \ {w}
          /\ w \in posted /\ fault' = (fault \/ t.hwnd # w)
          /\ stack' = <<Frame("Callback")>> \o stack
      BY <1>2 DEF Deliver
    <2>2. /\ Has(stack', "Arm") <=> Has(stack, "Arm")
          /\ Has(stack', "Begin") <=> Has(stack, "Begin")
          /\ \A f \in FramesOf(stack') : f.at = "Begin" => f \in FramesOf(stack)
      BY <2>1, Known, FrameIn, Push DEF Frame
    <2>3. QED
      BY <2>1, <2>2 DEF FaultInv
  <1>3. QED
    BY <1>1, <1>2

LEMMA NextIsFaultless ==
  ASSUME Heeding, TimerInv, FaultInv, [Next]_vars
  PROVE  FaultInv'
  <1>1. ASSUME NEW a \in Ask, Start(a) PROVE FaultInv'
    BY <1>1, StartIsFaultless
  <1>2. CASE Stop
    BY <1>2, Known, StopIsFaultless DEF Stop, FaultInv
  <1>3. ASSUME NEW w \in Wnd, Destroy(w) PROVE FaultInv'
    BY <1>3, DestroyIsFaultless
  <1>4. ASSUME NEW w \in Wnd, Elapse(w) \/ Deliver(w) PROVE FaultInv'
    BY <1>4, SystemIsFaultless
  <1>5. CASE CallbackReturns \/ OffReturns \/ Arm
    BY <1>5, ReturnIsFaultless
  <1>6. CASE Resume
    BY <1>6, ResumeIsFaultless
  <1>7. CASE Tick
    BY <1>7 DEF Tick, FaultInv
  <1>8. CASE UNCHANGED vars
    BY <1>8 DEF vars, timerVars, FaultInv
  <1>9. QED
    BY <1>1, <1>2, <1>3, <1>4, <1>5, <1>6, <1>7, <1>8 DEF Next

LEMMA InitIsFaultless == Init => FaultInv
  BY DEF Init, FaultInv, Has, FramesOf

\* No message of a timer reaches an object that has moved to another window, and
\* SetTimer() is never called for a window that is gone, for clients that move
\* and destroy windows only while no message of theirs waits and no start is
\* under way.
THEOREM TimerFaultless ==
  ASSUME Heeding
  PROVE  Spec => []NoFault
  <1>1. Init => TimerInv /\ FaultInv
    BY InitKeeps, InitIsFaultless
  <1>2. TimerInv /\ FaultInv /\ [Next]_vars => TimerInv' /\ FaultInv'
    BY NextKeeps, NextIsFaultless DEF Heeding
  <1>3. FaultInv => NoFault
    BY DEF FaultInv, NoFault
  <1>4. QED
    BY <1>1, <1>2, <1>3, PTL DEF Spec

-----------------------------------------------------------------------------
(***************************************************************************)
(* A stop is final but for one message.  Counting the late callbacks alone *)
(* is not inductive: that a second one cannot come is because the one that *)
(* has come was the only message there was, and a stopped timer, which the *)
(* system has no more (TimersKept), posts none.                            *)
(***************************************************************************)
LateInv ==
  /\ late \in {0, 1}
  /\ t.ticking => late = 0
  /\ late = 1 => posted = {}

LEMMA StopIsFinal ==
  ASSUME LateInv, NEW s \in TimerRecords, NEW rest, s.ticking = t.ticking,
         StopThen(s, rest), UNCHANGED <<posted, late>>
  PROVE  LateInv'
  BY StoppedIs DEF StopThen, LateInv

LEMMA NextIsFinal ==
  ASSUME TimerInv, FaultInv, LateInv, [Next]_vars
  PROVE  LateInv'
  <1>1. ASSUME NEW a, NEW w, NEW rest, Begin(a, w, rest) PROVE LateInv'
    BY <1>1 DEF Begin, LateInv
  <1>2. ASSUME NEW a \in Ask, Start(a) PROVE LateInv'
    BY <1>1, <1>2, Known, StopIsFinal DEF Start
  <1>3. CASE Stop
    BY <1>3, Known, StopIsFinal DEF Stop
  <1>4. ASSUME NEW w \in Wnd, Destroy(w) PROVE LateInv'
    BY <1>4 DEF Destroy, LateInv
  <1>5. ASSUME NEW w \in Wnd, Elapse(w) PROVE LateInv'
    <2>1. t.ticking
      BY <1>5 DEF Elapse, TimerInv, TimersKept
    <2>2. UNCHANGED <<t, late>>
      BY <1>5 DEF Elapse, timerVars
    <2>3. QED
      BY <2>1, <2>2 DEF LateInv
  <1>6. ASSUME NEW w \in Wnd, Deliver(w) PROVE LateInv'
    <2>1. /\ posted = {w} /\ posted' = {} /\ t' = t
          /\ late' = IF t.ticking THEN late ELSE late + 1
      BY <1>6 DEF Deliver, FaultInv
    <2>2. late = 0
      BY <2>1 DEF LateInv
    <2>3. QED
      BY <2>1, <2>2 DEF LateInv
  <1>7. CASE CallbackReturns
    <2> DEFINE counted == [t EXCEPT !.done = OneMore(@)]
    <2>1. /\ UNCHANGED <<posted, late>>
          /\ StopThen(counted, Tail(stack)) \/ t' = counted
      BY <1>7 DEF CallbackReturns
    <2>2. counted \in TimerRecords /\ counted.ticking = t.ticking
      BY Known, CountedIs
    <2> HIDE DEF counted
    <2>3. CASE t' = counted
      BY <2>1, <2>2, <2>3 DEF LateInv
    <2>4. QED
      BY <2>1, <2>2, <2>3, StopIsFinal
  <1>8. CASE OffReturns \/ Arm \/ Tick
    BY <1>8 DEF OffReturns, Arm, Tick, LateInv
  <1>9. CASE Resume
    BY <1>1, <1>9 DEF Resume
  <1>10. CASE UNCHANGED vars
    BY <1>10 DEF vars, timerVars, LateInv
  <1>11. QED
    BY <1>2, <1>3, <1>4, <1>5, <1>6, <1>7, <1>8, <1>9, <1>10 DEF Next

\* After StopTimer(), from wherever it is called, at most one more callback is
\* made: the one for a message that waited already.
THEOREM StopFinal ==
  ASSUME Heeding
  PROVE  Spec => []OneLateCallback
  <1> DEFINE Inv == TimerInv /\ FaultInv /\ LateInv
  <1>1. Init => Inv
    BY InitKeeps, InitIsFaultless DEF Init, LateInv
  <1>2. Inv /\ [Next]_vars => Inv'
    BY NextKeeps, NextIsFaultless, NextIsFinal DEF Heeding
  <1>3. Inv => OneLateCallback
    BY DEF LateInv, OneLateCallback
  <1> HIDE DEF Inv
  <1>4. QED
    BY <1>1, <1>2, <1>3, PTL DEF Spec

-----------------------------------------------------------------------------
(***************************************************************************)
(* A run makes the callbacks it was asked for.  A callback is begun before *)
(* it is counted; the one under way is on the stack, and there is no more  *)
(* than one, of the present run, for clients that do not start the timer   *)
(* in it and run no message loop.                                          *)
(***************************************************************************)
Counting == asked.kind = "Count" /\ asked.n > 0

CountInv ==
  /\ Once(stack, "Callback")
  /\ Has(stack, "Begin") => ~Has(stack, "Callback")
  /\ Counting =>
       /\ asked.n \in 1 .. MaxDone - 1
       /\ made \in Nat /\ made <= asked.n
       /\ t.ticking =>
            /\ t.kind = "Count" /\ t.need = asked.n /\ t.done < asked.n
            /\ made = IF Has(stack, "Callback") THEN t.done + 1 ELSE t.done

Simple == {"RestartInside", "RestartInMove", "Modal"} \cap Client = {}

\* Stops leave the count of callbacks alone.
LEMMA StopIsCounted ==
  ASSUME CountInv, NEW s \in TimerRecords, NEW rest \in Seq(Frames),
         Once(rest, "Callback"), Has(rest, "Begin") => ~Has(rest, "Callback"),
         StopThen(s, rest), UNCHANGED <<asked, made>>
  PROVE  CountInv'
  <1>1. Frame("Off") \in Frames /\ Frame("Off").at = "Off"
    BY FrameIn DEF Frame
  <1>2. ~t'.ticking
    BY StoppedIs DEF StopThen
  <1>3. stack' = rest \/ stack' = <<Frame("Off")>> \o rest
    BY DEF StopThen
  <1>4. Once(stack', "Callback") /\ (Has(stack', "Begin") => ~Has(stack', "Callback"))
    <2>1. CASE stack' = <<Frame("Off")>> \o rest
      BY <1>1, <2>1, Push
    <2>2. QED
      BY <1>3, <2>1
  <1>5. QED
    BY <1>2, <1>4 DEF CountInv, Counting

LEMMA BeginIsCounted ==
  ASSUME NEW a \in Ask, ~(a.kind = "Count" /\ a.n = 0), NEW w, NEW rest \in Seq(Frames),
         ~Has(rest, "Callback"), ~Has(rest, "Begin"), Begin(a, w, rest)
  PROVE  CountInv'
  <1>1. /\ Once(stack', "Callback") /\ ~Has(stack', "Begin")
        /\ Has(stack', "Callback") <=> a.now
    <2>1. Once(rest, "Callback")
      BY DEF Once, Has
    <2>2. CASE a.now
      <3> DEFINE inner == <<Frame("Arm")>> \o rest
      <3>1. /\ inner \in Seq(Frames) /\ Once(inner, "Callback")
            /\ ~Has(inner, "Callback") /\ ~Has(inner, "Begin")
        BY <2>1, FrameIn, Push DEF Frame
      <3>2. stack' = <<Frame("Callback")>> \o inner
        BY <2>2, FrameIn DEF Begin
      <3> HIDE DEF inner
      <3>3. QED
        BY <2>2, <3>1, <3>2, FrameIn, Push DEF Frame
    <2>3. CASE ~a.now
      BY <2>1, <2>3 DEF Begin
    <2>4. QED
      BY <2>2, <2>3
  <1>2. /\ asked' = a /\ made' = IF a.now THEN 1 ELSE 0
        /\ t'.kind = a.kind /\ t'.done = 0
        /\ t'.need = IF a.kind = "Count" THEN a.n ELSE 0
    BY DEF Begin
  <1>3. a.kind = "Count" /\ a.n > 0 => a.n \in 1 .. MaxDone - 1
    BY AskFields, TimerAssumption DEF TimerAssumption
  <1>4. QED
    BY <1>1, <1>2, <1>3 DEF CountInv, Counting

LEMMA StartIsCounted ==
  ASSUME Simple, TimerInv, CountInv, NEW a \in Ask, Start(a)
  PROVE  CountInv'
  <1>1. ~Has(stack, "Begin") /\ ~Has(stack, "Callback")
    BY DEF Start, Heeds, Simple, Waits, Has
  <1>2. CASE StopThen(t, stack) /\ UNCHANGED <<asked, made>>
    BY <1>1, <1>2, Known, StopIsCounted DEF CountInv
  <1>3. CASE /\ ~(a.kind = "Count" /\ a.n = 0)
             /\ Begin(a, IF a.w = NoWnd THEN t.hwnd ELSE a.w, stack)
    <2> DEFINE w == IF a.w = NoWnd THEN t.hwnd ELSE a.w
    <2>1. Begin(a, w, stack)
      BY <1>3
    <2> HIDE DEF w
    <2>2. QED
      BY <1>1, <1>3, <2>1, Known, BeginIsCounted
  <1>4. CASE /\ ~(a.kind = "Count" /\ a.n = 0) /\ Moves(a)
             /\ StopThen(t, <<[at |-> "Begin", ask |-> a]>> \o stack)
             /\ UNCHANGED <<asked, made>>
    <2> DEFINE new == [at |-> "Begin", ask |-> a]
               rest == <<new>> \o stack
    <2>1. new \in Frames /\ new.at = "Begin"
      BY <1>4, FrameIn DEF Moves, Named
    <2>2. StopThen(t, rest)
      BY <1>4
    <2> HIDE DEF new
    <2>3. rest \in Seq(Frames) /\ Once(rest, "Callback") /\ ~Has(rest, "Callback")
      BY <1>1, <2>1, Known, Push DEF CountInv
    <2> HIDE DEF rest
    <2>4. QED
      BY <1>4, <2>2, <2>3, Known, StopIsCounted
  <1>5. QED
    BY <1>2, <1>3, <1>4 DEF Start

LEMMA CallbackIsCounted ==
  ASSUME TimerInv, CountInv, CallbackReturns
  PROVE  CountInv'
  <1> DEFINE counted == [t EXCEPT !.done = OneMore(@)]
  <1>1. UNCHANGED <<asked, made>> /\ stack # <<>> /\ Head(stack).at = "Callback"
    BY TopPops DEF CallbackReturns
  <1>2. /\ Tail(stack) \in Seq(Frames) /\ Once(Tail(stack), "Callback")
        /\ ~Has(Tail(stack), "Callback") /\ Has(stack, "Callback")
    BY <1>1, Known, Pop DEF CountInv
  <1>3. counted \in TimerRecords /\ counted.ticking = t.ticking /\ counted.need = t.need
    BY Known, CountedIs
  <1>4. /\ counted.kind = t.kind /\ counted.done = OneMore(t.done)
        /\ t.done \in Nat
    BY Known, Numbers DEF TimerRecords
  <1>5. \/ StopThen(counted, Tail(stack))
        \/ ~IsTimerDue(counted) /\ t' = counted /\ stack' = Tail(stack)
    BY DEF CallbackReturns
  <1> HIDE DEF counted
  <1>6. CASE StopThen(counted, Tail(stack))
    BY <1>1, <1>2, <1>3, <1>6, StopIsCounted
  <1>7. CASE ~IsTimerDue(counted) /\ t' = counted /\ stack' = Tail(stack)
    <2>1. ASSUME Counting, t.ticking
          PROVE  /\ t'.kind = "Count" /\ t'.need = asked.n /\ t'.done < asked.n
                 /\ made = t'.done
      <3>1. /\ asked.n \in 1 .. MaxDone - 1 /\ made = t.done + 1
            /\ t.kind = "Count" /\ t.need = asked.n /\ t.done < asked.n
        BY <1>2, <2>1 DEF CountInv
      <3>2. counted.done = t.done + 1
        BY <1>4, <3>1, Numbers DEF OneMore
      <3>3. counted.done < counted.need
        BY <1>3, <1>4, <1>7, <3>1 DEF IsTimerDue
      <3>4. QED
        BY <1>3, <1>4, <1>7, <3>1, <3>2, <3>3
    <2>2. ~Has(stack', "Callback") /\ Once(stack', "Callback") /\ t'.ticking = t.ticking
      BY <1>2, <1>3, <1>7
    <2>3. QED
      BY <1>1, <2>1, <2>2 DEF CountInv, Counting
  <1>8. QED
    BY <1>5, <1>6, <1>7

LEMMA ReturnIsCounted ==
  ASSUME TimerInv, CountInv, OffReturns \/ Arm
  PROVE  CountInv'
  <1>1. /\ UNCHANGED <<t, asked, made>> /\ stack' = Tail(stack)
        /\ stack # <<>> /\ Head(stack).at \in {"Off", "Arm"}
    BY TopPops DEF OffReturns, Arm
  <1>2. /\ Once(stack', "Callback")
        /\ Has(stack', "Callback") <=> Has(stack, "Callback")
        /\ Has(stack', "Begin") => Has(stack, "Begin")
    BY <1>1, Known, Pop DEF CountInv
  <1>3. QED
    BY <1>1, <1>2 DEF CountInv, Counting

LEMMA ResumeIsCounted ==
  ASSUME TimerInv, CountInv, Resume
  PROVE  CountInv'
  <1> DEFINE a == Head(stack).ask
  <1>1. /\ stack # <<>> /\ Head(stack).at = "Begin" /\ Begin(a, a.w, Tail(stack))
    BY TopPops DEF Resume
  <1>2. /\ Head(stack) \in Frames /\ Tail(stack) \in Seq(Frames)
        /\ ~Has(Tail(stack), "Begin") /\ ~Has(Tail(stack), "Callback")
    BY <1>1, Known, Pop DEF CountInv
  <1>3. a \in Ask /\ ~(a.kind = "Count" /\ a.n = 0)
    BY <1>1, <1>2, FrameAt DEF Named
  <1> HIDE DEF a
  <1>4. QED
    BY <1>1, <1>2, <1>3, BeginIsCounted

\* A callback begins in the client's loop only, where the run is not complete.
LEMMA DeliverIsCounted ==
  ASSUME Simple, TimerInv, CountInv, NEW w \in Wnd, Deliver(w)
  PROVE  CountInv'
  <1>1. stack = <<>>
    <2>1. Top = "Loop"
      BY DEF Deliver, Simple
    <2>2. ASSUME stack # <<>> PROVE Top \in {"Callback", "Off", "Arm", "Begin"}
      BY <2>2, Known, Pop, FrameAt DEF Top
    <2>3. QED
      BY <2>1, <2>2
  <1>2. /\ UNCHANGED <<t, asked>> /\ made' = IF t.ticking THEN OneMore(made) ELSE made
        /\ stack' = <<Frame("Callback")>> \o stack
    BY DEF Deliver
  <1>3. ~Has(stack, "Callback") /\ ~Has(stack, "Begin")
    BY <1>1 DEF Has
  <1>4. Once(stack', "Callback") /\ Has(stack', "Callback") /\ ~Has(stack', "Begin")
    BY <1>2, <1>3, Known, FrameIn, Push DEF Frame, CountInv
  <1>5. Counting => made' \in Nat /\ made' <= asked.n /\ (t.ticking => made' = t.done + 1)
    <2> SUFFICES ASSUME Counting
                 PROVE  made' \in Nat /\ made' <= asked.n /\ (t.ticking => made' = t.done + 1)
      OBVIOUS
    <2>1. /\ asked.n \in 1 .. MaxDone - 1 /\ made \in Nat /\ made <= asked.n
          /\ t.ticking => made = t.done /\ t.done < asked.n
      BY <1>3 DEF CountInv
    <2>2. made < asked.n => OneMore(made) = made + 1
      BY <2>1, Numbers DEF OneMore
    <2>3. CASE t.ticking
      <3>1. made = t.done /\ made < asked.n /\ made' = made + 1
        BY <1>2, <2>1, <2>2, <2>3
      <3>2. asked.n \in Nat
        BY <2>1, Numbers
      <3>3. QED
        BY <2>1, <3>1, <3>2
    <2>4. CASE ~t.ticking
      BY <1>2, <2>1, <2>4
    <2>5. QED
      BY <2>3, <2>4
  <1>6. QED
    BY <1>2, <1>4, <1>5 DEF CountInv, Counting

LEMMA NextIsCounted ==
  ASSUME Simple, TimerInv, CountInv, [Next]_vars
  PROVE  CountInv'
  <1>1. ASSUME NEW a \in Ask, Start(a) PROVE CountInv'
    BY <1>1, StartIsCounted
  <1>2. CASE Stop
    BY <1>2, Known, StopIsCounted DEF Stop, CountInv
  <1>3. ASSUME NEW w \in Wnd, Destroy(w) \/ Elapse(w) PROVE CountInv'
    BY <1>3 DEF Destroy, Elapse, timerVars, CountInv, Counting
  <1>4. ASSUME NEW w \in Wnd, Deliver(w) PROVE CountInv'
    BY <1>4, DeliverIsCounted
  <1>5. CASE CallbackReturns
    BY <1>5, CallbackIsCounted
  <1>6. CASE OffReturns \/ Arm
    BY <1>6, ReturnIsCounted
  <1>7. CASE Resume
    BY <1>7, ResumeIsCounted
  <1>8. CASE Tick
    BY <1>8 DEF Tick, CountInv, Counting
  <1>9. CASE UNCHANGED vars
    BY <1>9 DEF vars, timerVars, CountInv, Counting
  <1>10. QED
    BY <1>1, <1>2, <1>3, <1>4, <1>5, <1>6, <1>7, <1>8, <1>9 DEF Next

\* A run of a number of callbacks makes as many and no more, and between calls
\* m_doneCount is how many it has made, whether they acted at once, were called
\* by the system or came late, and however the runs before it were stopped.
THEOREM RunCounted ==
  ASSUME Simple
  PROVE  Spec => []CountExact
  <1> DEFINE Inv == TimerInv /\ CountInv
  <1>1. Init => Inv
    BY InitKeeps DEF Init, CountInv, Counting, Once, Has
  <1>2. Inv /\ [Next]_vars => Inv'
    BY NextKeeps, NextIsCounted DEF Simple
  <1>3. Inv => CountExact
    <2> SUFFICES ASSUME CountInv, Counting, Quiet, t.ticking
                 PROVE  made = t.done /\ made < asked.n
      BY DEF CountExact, CountInv, Counting
    <2>1. ~Has(stack, "Callback")
      BY DEF Quiet, Has
    <2>2. QED
      BY <2>1 DEF CountInv
  <1> HIDE DEF Inv
  <1>4. QED
    BY <1>1, <1>2, <1>3, PTL DEF Spec

-----------------------------------------------------------------------------
(***************************************************************************)
(* A run of a span ends on time.  The clock and the end are known modulo a *)
(* round of the clock only; but the age of a run stays within half a round *)
(* of its span, so that one round at most separates the clock's distance   *)
(* from the end and the age's from the span (Elapsed).  This holds for     *)
(* every client: nothing is asked of the windows and their timers.         *)
(***************************************************************************)
Spanning(s) == s.ticking /\ s.kind = "Span"

\* The end lies as far ahead of the clock as the span is of the age, give or
\* take a round.
Elapsed ==
  /\ asked.n \in Spans
  /\ age \in 0 .. asked.n + MaxLag
  /\ clock + asked.n - age - t.end \in {-(2 ^ ClockBits), 0, 2 ^ ClockBits}

SpanInv ==
  /\ t \in TimerRecords /\ clock \in Clock /\ stack \in Seq(Frames)
  /\ Spanning(t) => Elapsed

\* A number within one round of the clock either way.
LEMMA OnceRound ==
  ASSUME NEW m \in Nat \ {0}, NEW x \in Int
  PROVE  /\ x \in 0 .. m - 1 => x % m = x
         /\ x \in m .. 2 * m - 1 => x % m = x - m
         /\ x \in -m .. -1 => x % m = x + m
  <1> DEFINE q == x \div m
             r == x % m
  <1>1. q \in Int /\ r \in 0 .. m - 1 /\ x = m * q + r
    OBVIOUS
  <1> HIDE DEF q, r
  <1>2. q >= 1 => m * q >= m
    BY <1>1
  <1>3. q >= 2 => m * q >= 2 * m
    BY <1>1
  <1>4. q <= -1 => m * q <= -m
    BY <1>1
  <1>5. q <= -2 => m * q <= -2 * m
    BY <1>1
  <1>6. (q = 0 => m * q = 0) /\ (q = 1 => m * q = m) /\ (q = -1 => m * q = -m)
    BY <1>1
  <1>7. m * q \in Int
    BY <1>1
  <1>8. x \in 0 .. m - 1 => r = x
    <2>1. x \in 0 .. m - 1 => q = 0
      BY <1>1, <1>2, <1>4, <1>7
    <2>2. QED
      BY <1>1, <1>6, <2>1
  <1>9. x \in m .. 2 * m - 1 => r = x - m
    <2>1. x \in m .. 2 * m - 1 => q = 1
      BY <1>1, <1>3, <1>4, <1>6, <1>7
    <2>2. QED
      BY <1>1, <1>6, <2>1
  <1>10. x \in -m .. -1 => r = x + m
    <2>1. x \in -m .. -1 => q = -1
      BY <1>1, <1>2, <1>5, <1>6, <1>7
    <2>2. QED
      BY <1>1, <1>6, <2>1
  <1>11. QED
    BY <1>8, <1>9, <1>10 DEF r

\* What is assumed of spans and powers.
LEMMA SpanFits ==
  /\ 2 ^ ClockBits \in Nat \ {0} /\ 2 ^ (ClockBits - 1) \in Nat
  /\ 2 ^ ClockBits = 2 * 2 ^ (ClockBits - 1) /\ MaxLag \in Nat
  /\ Clock = 0 .. 2 ^ ClockBits - 1
  /\ \A s \in Spans : s \in Nat /\ s + MaxLag + 1 < 2 ^ (ClockBits - 1)
  BY TimerAssumption, ClockAssumption DEF TimerAssumption, Clock

\* The clock's distance from the end is the age's from the span.
LEMMA SignedIs ==
  ASSUME NEW m \in Nat \ {0}, NEW h \in Nat, m = 2 * h, NEW x \in Int, -h < x, x < h,
         NEW d \in Int, d - x \in {-m, 0, m}
  PROVE  (d % m < h <=> x >= 0) /\ (d % m < h => d % m = x)
         /\ (~(d % m < h) => (d % m) - m = x)
  <1>1. CASE x >= 0
    <2>1. CASE d = x
      BY <1>1, <2>1, OnceRound
    <2>2. CASE d = x - m
      <3>1. d \in -m .. -1
        BY <1>1, <2>2
      <3>2. d % m = d + m
        BY <3>1, OnceRound
      <3>3. QED
        BY <1>1, <2>2, <3>2
    <2>3. CASE d = x + m
      <3>1. d \in m .. 2 * m - 1
        BY <1>1, <2>3
      <3>2. d % m = d - m
        BY <3>1, OnceRound
      <3>3. QED
        BY <1>1, <2>3, <3>2
    <2>4. QED
      BY <2>1, <2>2, <2>3
  <1>2. CASE x < 0
    <2>1. CASE d = x
      <3>1. d \in -m .. -1
        BY <1>2, <2>1
      <3>2. d % m = d + m
        BY <3>1, OnceRound
      <3>3. QED
        BY <1>2, <2>1, <3>2
    <2>2. CASE d = x - m
      <3> DEFINE q == d \div m
                 r == d % m
      <3>1. q \in Int /\ r \in 0 .. m - 1 /\ d = m * q + r
        OBVIOUS
      <3> HIDE DEF q, r
      <3>2. (q >= -1 => m * q >= -m) /\ (q <= -3 => m * q <= -3 * m) /\ m * q \in Int
        BY <3>1
      <3>3. q = -2
        BY <1>2, <2>2, <3>1, <3>2
      <3>4. m * q = -2 * m
        BY <3>3
      <3>5. r = x + m
        BY <3>1, <3>4, <2>2
      <3>6. QED
        BY <1>2, <3>5 DEF r
    <2>3. CASE d = x + m
      <3>1. d \in 0 .. m - 1
        BY <1>2, <2>3
      <3>2. d % m = d
        BY <3>1, OnceRound
      <3>3. QED
        BY <1>2, <2>3, <3>2
    <2>4. QED
      BY <2>1, <2>2, <2>3
  <1>3. QED
    BY <1>1, <1>2

\* So IsTimerDue() tells by the clock what the age tells.
LEMMA DueIs ==
  ASSUME SpanInv, Spanning(t), NEW c \in TimerRecords, c.kind = t.kind, c.end = t.end
  PROVE  IsTimerDue(c) <=> ~(age <= asked.n)
  <1> DEFINE m == 2 ^ ClockBits
             h == 2 ^ (ClockBits - 1)
             d == clock - t.end
             x == age - asked.n
  <1>1. m \in Nat \ {0} /\ h \in Nat /\ m = 2 * h
    BY SpanFits
  <1>2. clock \in Int /\ t.end \in Int
    BY SpanFits DEF SpanInv, TimerRecords
  <1>3. asked.n \in Nat /\ age \in Int /\ x \in Int /\ -h < x /\ x < h
    BY SpanFits DEF SpanInv, Elapsed
  <1>4. d \in Int /\ d - x \in {-m, 0, m}
    <2>1. clock + asked.n - age - t.end \in {-m, 0, m}
      BY DEF SpanInv, Elapsed
    <2>2. d - x = clock + asked.n - age - t.end
      BY <1>2, <1>3
    <2>3. QED
      BY <1>2, <2>1, <2>2
  <1>5. IsTimerDue(c) <=> (IF d % m < h THEN d % m ELSE (d % m) - m) > 0
    BY DEF Spanning, IsTimerDue, Signed
  <1> HIDE DEF m, h, d
  <1>6. (d % m < h <=> x >= 0) /\ (d % m < h => d % m = x) /\ (~(d % m < h) => (d % m) - m = x)
    <2> HIDE DEF x
    <2>1. QED
      BY <1>1, <1>3, <1>4, SignedIs
  <1>7. IsTimerDue(c) <=> x > 0
    BY <1>3, <1>5, <1>6
  <1>8. QED
    BY <1>3, <1>7

-----------------------------------------------------------------------------
(* The steps.                                                               *)

LEMMA InitSpans == Init => SpanInv
  BY InitKeeps DEF TimerInv, TypeOK, TimerRecords, SpanInv, Spanning, Init

\* The clock moved on by less than a round.
LEMMA MovedOn ==
  ASSUME NEW m \in Nat \ {0}, NEW c \in 0 .. m - 1, NEW n \in 0 .. m
  PROVE  (c + n) % m = IF c + n < m THEN c + n ELSE c + n - m
  <1>1. CASE c + n < m
    <2>1. c + n \in 0 .. m - 1 /\ c + n \in Int
      BY <1>1
    <2>2. (c + n) % m = c + n
      BY <2>1, OnceRound
    <2>3. QED
      BY <1>1, <2>2
  <1>2. CASE ~(c + n < m)
    <2>1. c + n \in m .. 2 * m - 1 /\ c + n \in Int
      BY <1>2
    <2>2. (c + n) % m = c + n - m
      BY <2>1, OnceRound
    <2>3. QED
      BY <1>2, <2>2
  <1>3. QED
    BY <1>1, <1>2

\* A clock that is moved on by one tick stays in step.
LEMMA StaysInStep ==
  ASSUME NEW m \in Nat \ {0}, NEW c \in 0 .. m - 1, NEW n \in Nat, NEW g \in Nat,
         NEW lag \in Nat, n + lag + 1 < m, g < n + lag,
         NEW e \in 0 .. m - 1, c + n - g - e \in {-m, 0, m},
         NEW d, d = IF c + 1 < m THEN c + 1 ELSE c + 1 - m
  PROVE  d + n - (g + 1) - e \in {-m, 0, m}
  <1>1. CASE c + 1 < m
    <2>1. d = c + 1
      BY <1>1
    <2>2. d + n - (g + 1) - e = c + n - g - e
      BY <2>1
    <2>3. QED
      BY <2>2
  <1>2. CASE ~(c + 1 < m)
    <2>1. c = m - 1 /\ d = 0
      BY <1>2
    <2>2. c + n - g - e \in {0, m}
      BY <2>1
    <2>3. d + n - (g + 1) - e = (c + n - g - e) - m
      BY <2>1
    <2>4. QED
      BY <2>2, <2>3
  <1>3. QED
    BY <1>1, <1>2

\* A tick keeps the clock in step with the age.
LEMMA TickSpans ==
  ASSUME SpanInv, Tick
  PROVE  SpanInv'
  <1> DEFINE m == 2 ^ ClockBits
  <1>1. UNCHANGED <<t, stack, asked>> /\ clock \in 0 .. m - 1 /\ clock' = (clock + 1) % m
    BY SpanFits DEF Tick, SpanInv
  <1>2. m \in Nat \ {0} /\ Clock = 0 .. m - 1
    BY SpanFits
  <1> HIDE DEF m
  <1>3. clock' = IF clock + 1 < m THEN clock + 1 ELSE clock + 1 - m
    <2>1. 1 \in 0 .. m
      BY <1>2
    <2>2. QED
      BY <1>1, <1>2, <2>1, MovedOn
  <1>4. clock' \in Clock
    BY <1>1, <1>2, <1>3
  <1>5. ASSUME Spanning(t) PROVE Elapsed'
    <2>1. asked.n \in Spans /\ age \in 0 .. asked.n + MaxLag /\ t.end \in 0 .. m - 1
      BY <1>2, <1>5 DEF SpanInv, Elapsed, TimerRecords
    <2>2. asked.n \in Nat /\ MaxLag \in Nat /\ asked.n + MaxLag + 1 < m
      BY <2>1, SpanFits DEF m
    <2>3. age < asked.n + MaxLag /\ age' = age + 1
      BY <1>5 DEF Tick, Spanning
    <2>4. clock + asked.n - age - t.end \in {-m, 0, m}
      BY <1>5 DEF SpanInv, Elapsed, m
    <2> DEFINE c == IF clock + 1 < m THEN clock + 1 ELSE clock + 1 - m
    <2>5. c + asked.n - (age + 1) - t.end \in {-m, 0, m}
      <3>1. age \in Nat
        BY <2>1, <2>2
      <3> HIDE DEF c
      <3>2. QED
        BY <1>1, <1>2, <2>1, <2>2, <2>3, <2>4, <3>1, StaysInStep DEF c
    <2>6. age + 1 \in 0 .. asked.n + MaxLag
      BY <2>1, <2>2, <2>3
    <2>7. clock' + asked'.n - age' - t'.end \in {-m, 0, m}
      BY <1>1, <1>3, <2>3, <2>5
    <2>8. QED
      BY <1>1, <2>1, <2>3, <2>6, <2>7 DEF Elapsed, m
  <1>6. QED
    BY <1>1, <1>4, <1>5 DEF SpanInv, Spanning

LEMMA StopSpans ==
  ASSUME SpanInv, NEW s \in TimerRecords, NEW rest \in Seq(Frames), StopThen(s, rest),
         UNCHANGED clock
  PROVE  SpanInv' /\ ~t'.ticking
  <1>1. t' \in TimerRecords /\ ~t'.ticking
    BY StoppedIs DEF StopThen
  <1>2. Frame("Off") \in Frames
    BY FrameIn
  <1>3. stack' \in Seq(Frames)
    BY <1>2, Push DEF StopThen
  <1>4. QED
    BY <1>1, <1>3 DEF SpanInv, Spanning

LEMMA BeginSpans ==
  ASSUME SpanInv, NEW a \in Ask, NEW w \in Wnd \cup {NoWnd}, NEW rest \in Seq(Frames),
         Begin(a, w, rest), UNCHANGED clock
  PROVE  SpanInv'
  <1> DEFINE m == 2 ^ ClockBits
             n == IF a.kind = "Span" THEN a.n ELSE 0
  <1>1. /\ t' = [hwnd |-> w, ticking |-> TRUE, kind |-> a.kind,
                 need |-> IF a.kind = "Count" THEN a.n ELSE 0, done |-> 0,
                 end |-> (clock + n) % m]
        /\ asked' = a /\ age' = 0
    BY DEF Begin
  <1>2. m \in Nat \ {0} /\ Clock = 0 .. m - 1 /\ clock \in 0 .. m - 1 /\ MaxLag \in Nat
    BY SpanFits DEF SpanInv
  <1>3. n \in Nat /\ clock + n \in Int
    BY <1>2, AskFields
  <1>4. t' \in TimerRecords
    <2>1. (clock + n) % m \in Clock
      BY <1>3, Numbers
    <2>2. (IF a.kind = "Count" THEN a.n ELSE 0) \in Counts \cup {0} /\ 0 \in 0 .. MaxDone
      BY AskFields, Numbers
    <2> HIDE DEF n, m
    <2>3. QED
      BY <1>1, <2>1, <2>2, AskFields DEF TimerRecords
  <1>5. stack' \in Seq(Frames)
    <2>1. CASE a.now
      <3> DEFINE inner == <<Frame("Arm")>> \o rest
      <3>1. inner \in Seq(Frames)
        BY FrameIn, Push
      <3>2. stack' = <<Frame("Callback")>> \o inner
        BY <2>1, FrameIn DEF Begin
      <3> HIDE DEF inner
      <3>3. QED
        BY <3>1, <3>2, FrameIn, Push
    <2>2. CASE ~a.now
      BY <2>2 DEF Begin
    <2>3. QED
      BY <2>1, <2>2
  <1>6. ASSUME a.kind = "Span" PROVE Elapsed'
    <2>1. n = a.n /\ a.n \in Spans
      BY <1>6 DEF Ask
    <2>2. a.n \in Nat /\ a.n < m /\ 0 \in 0 .. a.n + MaxLag
      BY <2>1, SpanFits
    <2> HIDE DEF m
    <2>3. (clock + a.n) % m = IF clock + a.n < m THEN clock + a.n ELSE clock + a.n - m
      <3>1. a.n \in 0 .. m
        BY <1>2, <2>2
      <3>2. QED
        BY <1>2, <3>1, MovedOn
    <2> DEFINE e == (clock + a.n) % m
    <2>4. e = clock + a.n \/ e = clock + a.n - m
      BY <2>3
    <2>5. t'.end = e /\ asked'.n = a.n /\ clock' = clock /\ age' = 0
      BY <1>1, <2>1
    <2> HIDE DEF e
    <2>6. clock' + asked'.n - age' - t'.end \in {-m, 0, m}
      <3>1. clock \in Int /\ a.n \in Int /\ m \in Int
        BY <1>2, <2>2
      <3>2. clock + a.n - 0 - e \in {0, m}
        BY <2>4, <3>1
      <3>3. QED
        BY <2>5, <3>2
    <2>7. age' \in 0 .. asked'.n + MaxLag /\ asked'.n \in Spans
      BY <1>1, <2>1, <2>2
    <2>8. QED
      BY <2>6, <2>7 DEF Elapsed, m
  <1>7. t'.kind = a.kind
    BY <1>1
  <1>8. QED
    BY <1>2, <1>4, <1>5, <1>6, <1>7 DEF SpanInv, Spanning

LEMMA OthersSpan ==
  ASSUME SpanInv, UNCHANGED <<clock, asked, age>>, stack' \in Seq(Frames),
         t' \in TimerRecords, t'.ticking = t.ticking, t'.kind = t.kind, t'.end = t.end
  PROVE  SpanInv'
  BY DEF SpanInv, Spanning, Elapsed

LEMMA ClientSpans ==
  ASSUME SpanInv,
         \/ \E a \in Ask : Start(a)
         \/ Stop
         \/ \E w \in Wnd : Destroy(w) \/ Deliver(w)
  PROVE  SpanInv'
  <1>1. t \in TimerRecords /\ stack \in Seq(Frames)
    BY DEF SpanInv
  <1>2. ASSUME NEW a \in Ask, Start(a) PROVE SpanInv'
    <2>1. UNCHANGED clock
      BY <1>2 DEF Start
    <2>2. CASE StopThen(t, stack)
      BY <1>1, <2>1, <2>2, StopSpans
    <2>3. CASE Begin(a, IF a.w = NoWnd THEN t.hwnd ELSE a.w, stack)
      <3> DEFINE w == IF a.w = NoWnd THEN t.hwnd ELSE a.w
      <3>1. w \in Wnd \cup {NoWnd} /\ Begin(a, w, stack)
        BY <1>1, <2>3, AskFields DEF TimerRecords
      <3> HIDE DEF w
      <3>2. QED
        BY <1>1, <2>1, <3>1, BeginSpans
    <2>4. CASE /\ ~(a.kind = "Count" /\ a.n = 0) /\ Moves(a)
               /\ StopThen(t, <<[at |-> "Begin", ask |-> a]>> \o stack)
      <3> DEFINE rest == <<[at |-> "Begin", ask |-> a]>> \o stack
      <3>1. [at |-> "Begin", ask |-> a] \in Frames
        BY <2>4, FrameIn DEF Moves, Named
      <3>2. rest \in Seq(Frames) /\ StopThen(t, rest)
        BY <1>1, <2>4, <3>1, Push
      <3> HIDE DEF rest
      <3>3. QED
        BY <1>1, <2>1, <3>2, StopSpans
    <2>5. QED
      BY <1>2, <2>2, <2>3, <2>4 DEF Start
  <1>3. ASSUME Stop PROVE SpanInv'
    BY <1>1, <1>3, StopSpans DEF Stop
  <1>4. ASSUME NEW w \in Wnd, Destroy(w) PROVE SpanInv'
    BY <1>1, <1>4, OthersSpan DEF Destroy
  <1>5. ASSUME NEW w \in Wnd, Deliver(w) PROVE SpanInv'
    BY <1>1, <1>5, FrameIn, Push, OthersSpan DEF Deliver
  <1>6. QED
    BY <1>2, <1>3, <1>4, <1>5

LEMMA ReturnSpans ==
  ASSUME SpanInv, CallbackReturns \/ OffReturns \/ Arm \/ Resume
  PROVE  SpanInv'
  <1>1. t \in TimerRecords /\ stack \in Seq(Frames)
    BY DEF SpanInv
  <1>2. stack # <<>> /\ Head(stack) \in Frames /\ Tail(stack) \in Seq(Frames)
    <2>1. stack # <<>>
      BY TopPops DEF CallbackReturns, OffReturns, Arm, Resume
    <2>2. QED
      BY <1>1, <2>1, Pop
  <1>3. ASSUME CallbackReturns PROVE SpanInv'
    <2> DEFINE counted == [t EXCEPT !.done = OneMore(@)]
    <2>1. /\ counted \in TimerRecords /\ counted.ticking = t.ticking
          /\ counted.kind = t.kind /\ counted.end = t.end
      BY <1>1, CountedIs
    <2>2. /\ UNCHANGED <<clock, asked, age>>
          /\ \/ StopThen(counted, Tail(stack))
             \/ t' = counted /\ stack' = Tail(stack)
      BY <1>3 DEF CallbackReturns
    <2> HIDE DEF counted
    <2>3. QED
      BY <1>2, <2>1, <2>2, StopSpans, OthersSpan
  <1>4. ASSUME OffReturns \/ Arm PROVE SpanInv'
    BY <1>1, <1>2, <1>4, OthersSpan DEF OffReturns, Arm
  <1>5. ASSUME Resume PROVE SpanInv'
    <2> DEFINE a == Head(stack).ask
    <2>1. Head(stack).at = "Begin" /\ Begin(a, a.w, Tail(stack)) /\ UNCHANGED clock
      BY <1>5, TopPops DEF Resume
    <2>2. a \in Ask /\ a.w \in Wnd \cup {NoWnd}
      BY <1>2, <2>1, FrameAt, AskFields
    <2> HIDE DEF a
    <2>3. QED
      BY <1>2, <2>1, <2>2, BeginSpans
  <1>6. QED
    BY <1>3, <1>4, <1>5

LEMMA NextSpans ==
  ASSUME SpanInv, [Next]_vars
  PROVE  SpanInv'
  <1>1. t \in TimerRecords /\ stack \in Seq(Frames)
    BY DEF SpanInv
  <1>2. ASSUME NEW w \in Wnd, Elapse(w) PROVE SpanInv'
    BY <1>1, <1>2, OthersSpan DEF Elapse, timerVars
  <1>3. CASE UNCHANGED vars
    BY <1>1, <1>3, OthersSpan DEF vars, timerVars
  <1>4. QED
    BY <1>2, <1>3, ClientSpans, ReturnSpans, TickSpans DEF Next

-----------------------------------------------------------------------------
(* What returns from a callback.                                            *)

Returned == stack' \in {Tail(stack), <<Frame("Off")>> \o Tail(stack)}

LEMMA ReturnShortens ==
  ASSUME stack \in Seq(Frames), Top = "Callback", Returned
  PROVE  stack' # stack /\ Len(stack') <= Len(stack) /\ stack' \in Seq(Frames)
  <1>1. stack # <<>> /\ Head(stack).at = "Callback" /\ Frame("Off").at = "Off"
    BY TopPops DEF Frame
  <1>2. Tail(stack) \in Seq(Frames) /\ Len(Tail(stack)) = Len(stack) - 1 /\ Len(stack) \in Nat
    BY <1>1
  <1> DEFINE f == Frame("Off")
  <1>3. f \in Frames /\ f # Head(stack)
    BY <1>1, FrameIn
  <1> HIDE DEF f
  <1>4. /\ <<f>> \o Tail(stack) \in Seq(Frames) /\ Head(<<f>> \o Tail(stack)) = f
        /\ Len(<<f>> \o Tail(stack)) = Len(stack)
    BY <1>2, <1>3
  <1>5. QED
    BY <1>2, <1>3, <1>4 DEF Returned, f

LEMMA OneLonger ==
  ASSUME NEW f \in Frames, NEW s \in Seq(Frames)
  PROVE  Len(<<f>> \o s) = Len(s) + 1 /\ <<f>> \o s \in Seq(Frames) /\ Len(s) \in Nat
  OBVIOUS

LEMMA StopNests ==
  ASSUME t.ticking, NEW rest \in Seq(Frames), StopThen(t, rest)
  PROVE  Len(stack') = Len(rest) + 1
  BY FrameIn, OneLonger DEF StopThen

LEMMA BeginNests ==
  ASSUME NEW a, NEW w, NEW rest \in Seq(Frames), Begin(a, w, rest)
  PROVE  stack' = rest \/ Len(stack') = Len(rest) + 2
  <1>1. CASE a.now
    <2> DEFINE f == Frame("Callback")
               g == Frame("Arm")
    <2>1. f \in Frames /\ g \in Frames /\ stack' = <<f, g>> \o rest
      BY <1>1, FrameIn DEF Begin
    <2> HIDE DEF f, g
    <2>2. QED
      BY <2>1
  <1>2. CASE ~a.now
    BY <1>2 DEF Begin
  <1>3. QED
    BY <1>1, <1>2

\* While the client's code runs in a callback of a timer that ticks, the only
\* step that leaves the callback is its return.
LEMMA OnlyReturn ==
  ASSUME SpanInv, Top = "Callback", t.ticking, [Next]_vars, ~CallbackReturns
  PROVE  stack' = stack \/ Len(stack') > Len(stack)
  <1>1. stack \in Seq(Frames) /\ Len(stack) \in Nat
    BY DEF SpanInv
  <1>2. ASSUME NEW a \in Ask, Start(a) PROVE stack' = stack \/ Len(stack') > Len(stack)
    <2>1. CASE StopThen(t, stack)
      BY <1>1, <2>1, StopNests
    <2>2. CASE Begin(a, IF a.w = NoWnd THEN t.hwnd ELSE a.w, stack)
      BY <1>1, <2>2, BeginNests
    <2>3. CASE /\ ~(a.kind = "Count" /\ a.n = 0) /\ Moves(a)
               /\ StopThen(t, <<[at |-> "Begin", ask |-> a]>> \o stack)
      <3> DEFINE f == [at |-> "Begin", ask |-> a]
      <3>1. f \in Frames
        BY <2>3, FrameIn DEF Moves, Named
      <3> DEFINE rest == <<f>> \o stack
      <3>2. StopThen(t, rest)
        BY <2>3
      <3> HIDE DEF f
      <3>3. Len(rest) = Len(stack) + 1 /\ rest \in Seq(Frames)
        BY <1>1, <3>1, OneLonger
      <3> HIDE DEF rest
      <3>4. Len(stack') = Len(rest) + 1
        BY <3>2, <3>3, StopNests
      <3>5. QED
        BY <1>1, <3>3, <3>4
    <2>4. QED
      BY <1>2, <2>1, <2>2, <2>3 DEF Start
  <1>3. ASSUME Stop PROVE Len(stack') > Len(stack)
    BY <1>1, <1>3, StopNests DEF Stop
  <1>4. ASSUME NEW w \in Wnd, Destroy(w) \/ Elapse(w) PROVE stack' = stack
    BY <1>4 DEF Destroy, Elapse, timerVars
  <1>5. ASSUME NEW w \in Wnd, Deliver(w) PROVE Len(stack') > Len(stack)
    BY <1>1, <1>5, FrameIn, OneLonger DEF Deliver
  <1>6. ~OffReturns /\ ~Arm /\ ~Resume
    BY DEF OffReturns, Arm, Resume
  <1>7. ASSUME Tick \/ UNCHANGED vars PROVE stack' = stack
    BY <1>7 DEF Tick, vars, timerVars
  <1>8. QED
    BY <1>2, <1>3, <1>4, <1>5, <1>6, <1>7 DEF Next

LEMMA ReturnTells ==
  ASSUME SpanInv, CallbackReturns, Spanning(t)
  PROVE  t'.ticking <=> age <= asked.n
  <1> DEFINE counted == [t EXCEPT !.done = OneMore(@)]
  <1>1. /\ counted \in TimerRecords /\ counted.ticking = t.ticking
        /\ counted.kind = t.kind /\ counted.end = t.end
    BY CountedIs DEF SpanInv
  <1>2. IF IsTimerDue(counted) THEN StopThen(counted, Tail(stack)) ELSE t' = counted
    BY DEF CallbackReturns
  <1> HIDE DEF counted
  <1>3. IsTimerDue(counted) <=> ~(age <= asked.n)
    BY <1>1, DueIs
  <1>4. IsTimerDue(counted) => ~t'.ticking
    BY <1>1, <1>2, StoppedIs DEF StopThen
  <1>5. ~IsTimerDue(counted) => t'.ticking
    BY <1>1, <1>2 DEF Spanning
  <1>6. QED
    BY <1>3, <1>4, <1>5

\* A run of a span stops itself with the first callback that ends after the
\* span, and with none before, for every width of the clock and wherever in
\* the clock's round the run begins, whatever the client's callbacks do.
THEOREM SpansCorrect == Spec => SpanExact
  <1> DEFINE Exact ==
        (/\ Top = "Callback" /\ stack' \in {Tail(stack), <<Frame("Off")>> \o Tail(stack)}
         /\ t.ticking /\ t.kind = "Span")
        => (t'.ticking <=> age <= asked.n)
  <1>1. Init => SpanInv
    BY InitSpans
  <1>2. SpanInv /\ [Next]_vars => SpanInv'
    BY NextSpans
  <1>3. SpanInv /\ [Next]_vars => Exact
    <2> SUFFICES ASSUME SpanInv, [Next]_vars, Top = "Callback", Returned, Spanning(t)
                 PROVE  t'.ticking <=> age <= asked.n
      BY DEF Returned, Spanning
    <2>1. CallbackReturns
      <3> SUFFICES ASSUME ~CallbackReturns PROVE FALSE
        OBVIOUS
      <3>1. stack' = stack \/ Len(stack') > Len(stack)
        BY OnlyReturn DEF Spanning
      <3>2. stack' # stack /\ Len(stack') <= Len(stack) /\ Len(stack) \in Nat
            /\ Len(stack') \in Nat
        BY ReturnShortens DEF SpanInv
      <3>3. QED
        BY <3>1, <3>2
    <2>2. QED
      BY <2>1, ReturnTells
  <1>4. QED
    BY <1>1, <1>2, <1>3, PTL DEF Spec, SpanExact
=============================================================================
