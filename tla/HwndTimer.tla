------------------------------ MODULE HwndTimer ------------------------------
(***************************************************************************)
(* CHwndTimer (src/common-include/include/mswin/CHwndTimer.h): a timer of  *)
(* a window that calls a virtual TimerCallback() a number of times or for  *)
(* a span of time, and TimerOffCallback() when it stops.  Everything       *)
(* happens in the thread of the window, yet calls nest: both callbacks may *)
(* stop the timer, start it again or destroy its window while the code     *)
(* that called them is still to go on.  `stack' holds what is still to go  *)
(* on, topmost first.                                                      *)
(*                                                                         *)
(* The system's side is external and follows its documentation: at most    *)
(* one WM_TIMER waits per timer, KillTimer() leaves one that waits already *)
(* in the queue, the timers and messages of a window go with it, and the   *)
(* clock GetTickCount() wraps around.                                      *)
(***************************************************************************)
EXTENDS Integers, Sequences

CONSTANTS
  Wnd, NoWnd,   \* the windows, and NULL
  ClockBits,    \* the width of the clock (32 in the code)
  Counts,       \* counts clients ask for; -1 is for ever
  Spans,        \* spans clients ask for, in ticks
  Client,       \* what clients do that the timer is not made for (see Start)
  MaxLag,       \* ticks a due span may wait for its next message
  MaxDone,      \* bound on the callbacks counted
  MaxStarts,    \* bound on StartPeriodicWork() calls
  MaxDepth      \* bound on the nesting of calls

Clock == 0 .. 2 ^ ClockBits - 1

ASSUME TimerAssumption ==
  /\ NoWnd \notin Wnd
  /\ ClockBits \in Nat \ {0} /\ MaxLag \in Nat \ {0} /\ MaxDone \in Nat
  /\ \A n \in Counts : n \in -1 .. MaxDone - 1
  /\ Spans \subseteq Nat /\ \A s \in Spans : s + MaxLag + 1 < 2 ^ (ClockBits - 1)

\* Of powers the provers know nothing else.
ASSUME ClockAssumption ==
  /\ 2 ^ ClockBits \in Nat \ {0} /\ 2 ^ (ClockBits - 1) \in Nat
  /\ 2 ^ ClockBits = 2 * 2 ^ (ClockBits - 1)

VARIABLES
  alive,    \* windows that exist
  armed,    \* windows that have a system timer for this object
  posted,   \* windows with a WM_TIMER of this object in the queue
  clock,    \* GetTickCount()
  t,        \* the members of CHwndTimer
  stack,    \* calls in progress, the innermost first
  fault,    \* an assertion of the code has failed
  asked,    \* history: what the last start asked for
  made,     \* history: callbacks the run of the last start has begun
  age,      \* history: ticks since that start, while it runs
  late,     \* history: callbacks begun since the timer stopped
  starts    \* starts so far

timerVars == <<t, stack, fault, armed, asked, made, age, late>>
vars == <<alive, posted, clock, timerVars, starts>>

Ask == [w : Wnd \cup {NoWnd}, kind : {"Count"}, n : Counts, now : BOOLEAN]
       \cup [w : Wnd \cup {NoWnd}, kind : {"Span"}, n : Spans, now : BOOLEAN]

\* The client's code runs: at its top level or in one of the two callbacks.
Top == IF stack = <<>> THEN "Loop" ELSE Head(stack).at
ClientRuns == Top \in {"Loop", "Callback", "Off"}
Frame(at) == [at |-> at]
Waits(at) == \E i \in DOMAIN stack : stack[i].at = at

-----------------------------------------------------------------------------
(* StopTimer() on members s with `rest' still to go on: the timer goes and  *)
(* TimerOffCallback() is called, unless there is nothing to stop.           *)

Stopped(s) ==
  [hwnd |-> s.hwnd, ticking |-> FALSE, kind |-> s.kind, need |-> 0, done |-> 0, end |-> 0]

\* Mutant: The timer is not killed when another call is in progress.
StopThenKeeping(s, rest) ==
  IF s.ticking
  THEN /\ t' = Stopped(s)
       /\ armed' = IF rest = <<>> THEN armed \ {s.hwnd} ELSE armed
       /\ stack' = <<Frame("Off")>> \o rest
  ELSE t' = s /\ stack' = rest /\ UNCHANGED armed

StopThen(s, rest) ==
  IF s.ticking
  THEN /\ t' = Stopped(s)
       /\ armed' = armed \ {s.hwnd}
       /\ stack' = <<Frame("Off")>> \o rest
  ELSE t' = s /\ stack' = rest /\ UNCHANGED armed

\* SetTimer() on a window that is gone fails, and an assertion with it.
SetTimer(w) ==
  /\ armed' = IF w \in alive THEN armed \cup {w} ELSE armed
  /\ fault' = (fault \/ w \notin alive)

\* The second half of StartPeriodicWork(), from where the window is known.
Begin(a, w, rest) ==
  /\ t' = [hwnd |-> w, ticking |-> TRUE, kind |-> a.kind,
           need |-> IF a.kind = "Count" THEN a.n ELSE 0, done |-> 0,
           end |-> (clock + (IF a.kind = "Span" THEN a.n ELSE 0)) % 2 ^ ClockBits]
  /\ asked' = a /\ age' = 0 /\ late' = 0
  /\ made' = IF a.now THEN 1 ELSE 0
  /\ IF a.now
     THEN /\ stack' = <<Frame("Callback"), Frame("Arm")>> \o rest
          /\ UNCHANGED <<armed, fault>>
     ELSE stack' = rest /\ SetTimer(w)

(***************************************************************************)
(* StartPeriodicWork(), called by the client's code.  Clients give a       *)
(* window that exists, and leave it out only when the present one does.    *)
(* Three more things are for the clients in `Client' only.  A start inside *)
(* TimerCallback() has its run's first callback counted before it is made. *)
(* A move to another window while a message of the old one waits fails the *)
(* assertion in s_TimerProc().  A start in the TimerOffCallback() of such  *)
(* a move leaves a system timer at the old window for ever.                *)
(***************************************************************************)
Heeds(a) ==
  /\ IF a.w = NoWnd THEN t.hwnd \in alive ELSE a.w \in alive
  /\ Waits("Callback") => "RestartInside" \in Client
  /\ (a.w # NoWnd /\ a.w # t.hwnd /\ (t.hwnd \in posted \/ Waits("Arm")))
       => "MoveEarly" \in Client
  /\ Waits("Begin") => "RestartInMove" \in Client

\* The start is to stop the timer at another window first.
Moves(a) == a.w \notin {NoWnd, t.hwnd} /\ t.hwnd # NoWnd /\ t.ticking

Start(a) ==
  /\ ClientRuns /\ Len(stack) < MaxDepth /\ starts < MaxStarts /\ Heeds(a)
  /\ starts' = starts + 1
  /\ \/ /\ a.kind = "Count" /\ a.n = 0
        /\ StopThen(t, stack)
        /\ UNCHANGED <<fault, asked, made, age, late>>
     \/ /\ ~(a.kind = "Count" /\ a.n = 0)
        /\ ~Moves(a)
        /\ Begin(a, IF a.w = NoWnd THEN t.hwnd ELSE a.w, stack)
     \/ /\ ~(a.kind = "Count" /\ a.n = 0)
        /\ Moves(a)
        /\ StopThen(t, <<[at |-> "Begin", ask |-> a]>> \o stack)
        /\ UNCHANGED <<fault, asked, made, age, late>>
  /\ UNCHANGED <<alive, posted, clock>>

\* StopTimer(), called by the client's code.
Stop ==
  /\ ClientRuns /\ t.ticking /\ Len(stack) < MaxDepth
  /\ StopThen(t, stack)
  /\ UNCHANGED <<alive, posted, clock, fault, asked, made, age, late, starts>>

\* The client destroys a window: its timers and messages go, the object is not
\* told.  A window that is about to get its timer is for "DestroyEarly" only.
Destroy(w) ==
  /\ ClientRuns /\ w \in alive
  /\ ((Waits("Arm") /\ t.ticking /\ w = t.hwnd) \/ Waits("Begin"))
       => "DestroyEarly" \in Client
  /\ alive' = alive \ {w} /\ armed' = armed \ {w} /\ posted' = posted \ {w}
  /\ UNCHANGED <<clock, t, stack, fault, asked, made, age, late, starts>>

-----------------------------------------------------------------------------
(* What goes on when a callback returns.                                    *)

OneMore(n) == IF n < MaxDone THEN n + 1 ELSE n

\* Mutant: Clock values are compared without regard to the wrap.
SignedPlain(d) == d

Signed(d) == LET m == d % 2 ^ ClockBits
             IN  IF m < 2 ^ (ClockBits - 1) THEN m ELSE m - 2 ^ ClockBits

\* Mutant: The count is compared with > : one callback more.
IsTimerDueLate(s) ==
  IF s.kind = "Count"
  THEN ~(s.need = -1 \/ s.done <= s.need)
  ELSE Signed(clock - s.end) > 0

IsTimerDue(s) ==
  IF s.kind = "Count"
  THEN ~(s.need = -1 \/ s.done < s.need)
  ELSE Signed(clock - s.end) > 0

\* The rest of TimerProc(), once TimerCallback() has returned.
CallbackReturns ==
  /\ Top = "Callback"
  /\ LET counted == [t EXCEPT !.done = OneMore(@)]
     IN  IF IsTimerDue(counted)
         THEN StopThen(counted, Tail(stack))
         ELSE t' = counted /\ stack' = Tail(stack) /\ UNCHANGED armed
  /\ UNCHANGED <<alive, posted, clock, fault, asked, made, age, late, starts>>

OffReturns ==
  /\ Top = "Off"
  /\ stack' = Tail(stack)
  /\ UNCHANGED <<alive, posted, clock, t, fault, armed, asked, made, age, late, starts>>

\* Mutant: SetTimer() is not reached after an action that was taken at once.
ArmNever ==
  /\ Top = "Arm"
  /\ stack' = Tail(stack)
  /\ UNCHANGED <<armed, fault, alive, posted, clock, t, asked, made, age, late, starts>>

\* Mutant: SetTimer() is reached though the action taken at once has stopped the timer.
ArmAlways ==
  /\ Top = "Arm"
  /\ stack' = Tail(stack)
  /\ SetTimer(t.hwnd)
  /\ UNCHANGED <<alive, posted, clock, t, asked, made, age, late, starts>>

\* StartPeriodicWork() goes on after the callback that acted at once ...
Arm ==
  /\ Top = "Arm"
  /\ stack' = Tail(stack)
  /\ IF t.ticking THEN SetTimer(t.hwnd) ELSE UNCHANGED <<armed, fault>>
  /\ UNCHANGED <<alive, posted, clock, t, asked, made, age, late, starts>>

\* ... or after it has stopped the timer at the window it leaves.
Resume ==
  /\ Top = "Begin"
  /\ Begin(Head(stack).ask, Head(stack).ask.w, Tail(stack))
  /\ UNCHANGED <<alive, posted, clock, starts>>

-----------------------------------------------------------------------------
(* The system.                                                              *)

Tick ==
  /\ (t.ticking /\ t.kind = "Span") => age < asked.n + MaxLag
  /\ clock' = (clock + 1) % 2 ^ ClockBits
  /\ age' = IF t.ticking /\ t.kind = "Span" THEN age + 1 ELSE 0
  /\ UNCHANGED <<alive, posted, t, stack, fault, armed, asked, made, late, starts>>

Elapse(w) ==
  /\ w \in armed \ posted
  /\ posted' = posted \cup {w}
  /\ UNCHANGED <<alive, clock, timerVars, starts>>

\* A message loop, the program's own or ("Modal") one inside a callback, hands
\* a WM_TIMER to s_TimerProc().
Deliver(w) ==
  /\ IF "Modal" \in Client THEN ClientRuns /\ Len(stack) < MaxDepth ELSE Top = "Loop"
  /\ w \in posted
  /\ posted' = posted \ {w}
  /\ fault' = (fault \/ t.hwnd # w)
  /\ stack' = <<Frame("Callback")>> \o stack
  /\ made' = IF t.ticking THEN OneMore(made) ELSE made
  /\ late' = IF t.ticking THEN late ELSE late + 1
  /\ UNCHANGED <<alive, clock, t, armed, asked, age, starts>>

Init ==
  /\ alive = Wnd /\ armed = {} /\ posted = {}
  /\ clock \in Clock
  /\ t = [hwnd |-> NoWnd, ticking |-> FALSE, kind |-> "Count",
          need |-> 0, done |-> 0, end |-> 0]
  /\ stack = <<>> /\ fault = FALSE
  /\ asked = [w |-> NoWnd, kind |-> "Count", n |-> 0, now |-> FALSE]
  /\ made = 0 /\ age = 0 /\ late = 0 /\ starts = 0

Next ==
  \/ \E a \in Ask : Start(a)
  \/ Stop
  \/ \E w \in Wnd : Destroy(w) \/ Elapse(w) \/ Deliver(w)
  \/ CallbackReturns \/ OffReturns \/ Arm \/ Resume
  \/ Tick

(* Callbacks return, the code between them runs on, time passes, timers      *)
(* elapse, and the thread of the windows goes on fetching messages.          *)
Fairness ==
  /\ WF_vars(CallbackReturns) /\ WF_vars(OffReturns)
  /\ WF_vars(Arm) /\ WF_vars(Resume) /\ WF_vars(Tick)
  /\ \A w \in Wnd : WF_vars(Elapse(w)) /\ WF_vars(Deliver(w))

Spec == Init /\ [][Next]_vars /\ Fairness

-----------------------------------------------------------------------------
(* Properties.                                                              *)

Quiet == stack = <<>>

\* Members, windows, timers and messages are what they should be, and a stopped
\* timer keeps no order.
TypeOK ==
  /\ alive \subseteq Wnd /\ armed \subseteq alive /\ posted \subseteq alive
  /\ t \in [hwnd : Wnd \cup {NoWnd}, ticking : BOOLEAN, kind : {"Count", "Span"},
            need : Counts \cup {0}, done : 0 .. MaxDone, end : Clock]
  /\ ~t.ticking => t.need = 0 /\ t.end = 0
  /\ clock \in Clock /\ fault \in BOOLEAN /\ asked.now \in BOOLEAN
  /\ \A i \in DOMAIN stack : stack[i].at \in {"Callback", "Off", "Arm", "Begin"}

\* Between calls the system has a timer for the object just when the object
\* believes so, and at no window but its own: no path through nested starts,
\* stops and callbacks leaves a timer behind or a run without one.
ArmedWhileTicking ==
  /\ TypeOK
  /\ Quiet => armed = IF t.ticking THEN {t.hwnd} \cap alive ELSE {}

\* No assertion of the code fails: no message reaches an object that has moved
\* to another window, and SetTimer() succeeds.
NoFault == ~fault

\* A run makes no more callbacks than were asked for, and between calls it has
\* counted each of them, those that acted at once or came late included.
CountExact ==
  (asked.kind = "Count" /\ asked.n > 0) =>
     /\ made <= asked.n
     /\ (Quiet /\ t.ticking) => (made = t.done /\ made < asked.n)

\* A stop is final but for the one message that waited already.
OneLateCallback == late <= 1

\* A run of a span stops itself with the first callback after the span, and
\* with none before: also across the point where the clock wraps around.
SpanExact ==
  [][ (/\ Top = "Callback" /\ stack' \in {Tail(stack), <<Frame("Off")>> \o Tail(stack)}
       /\ t.ticking /\ t.kind = "Span")
      => (t'.ticking <=> age <= asked.n) ]_vars

\* A run that was to end ends, unless its window goes or it is replaced by a run
\* that was not to end: system and callbacks willing, a start never leaves the
\* object ticking without a timer, and due is noticed.
Endless == t.kind = "Count" /\ t.need = -1
RunEnds ==
  (t.ticking /\ ~Endless) ~> (~t.ticking \/ Endless \/ t.hwnd \notin alive)

=============================================================================
