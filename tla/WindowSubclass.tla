---------------------------- MODULE WindowSubclass ----------------------------
(***************************************************************************)
(* CxxWindowSubclass (mswin/CxxWindowSubclass.h) on the helper that delays *)
(* `delete this' (Cxx_delete_this_helper.h).  An object hooks a window by  *)
(* a window property, which finds it again, and a subclass procedure,      *)
(* which lets it see the window's messages.  Its SubWndProc() is client    *)
(* code: it may detach or delete objects, send messages and destroy the    *)
(* window, all of it from inside calls to the same objects.                *)
(*                                                                         *)
(* Windows, their properties and the chain of subclass procedures are the  *)
(* system's.  Everything happens on the windows' thread.                   *)
(***************************************************************************)
EXTENDS Naturals, Sequences, FiniteSets

CONSTANTS
  Hwnd, Obj, Sig,
  NoHwnd, NoObj, NoSig, NoName,
  Name,       \* property names: the signatures, one per object, and cut ones
  NameOf,     \* a signature with its prefix
  CutName,    \* the same in FetchCxxobj_precheck()'s buffer of 80 characters
  Failures,   \* system calls that may fail
  Calls,      \* the calls this client makes
  MaxDepth    \* bound: how many messages may be under way, one inside the other

ASSUME SubclassAssumption ==
  /\ NoHwnd \notin Hwnd /\ NoObj \notin Obj /\ NoSig \notin Sig /\ NoName \notin Name
  /\ Obj \subseteq Name
  /\ NameOf \in [Sig -> Name \ Obj] /\ CutName \in [Sig -> Name \ Obj]
  /\ Failures \subseteq {"SetProp", "SetWindowSubclass"}
  /\ MaxDepth \in Nat

VARIABLES
  windows,   \* the state of every window
  props,     \* the object each window property of the library's names
  chain,     \* the subclass procedures of each window, newest first
  objs,      \* every object: its fields, and whether its memory is in use
  stack,     \* the calls of SubWndProc() under way
  faults     \* what has gone wrong: "double free", "use after free", "assert"

vars == <<windows, props, chain, objs, stack, faults>>

Fresh == [life |-> "unused", hwnd |-> NoHwnd, name |-> NoName, partial |-> FALSE,
          recurse |-> 0, marks |-> 0]

Init ==
  /\ windows = [h \in Hwnd |-> "live"]
  /\ props = [h \in Hwnd |-> [n \in Name |-> NoObj]]
  /\ chain = [h \in Hwnd |-> <<>>]
  /\ objs = [o \in Obj |-> Fresh]
  /\ stack = <<>>
  /\ faults = {}

IsOn(o, seq)    == \E i \in DOMAIN seq : seq[i] = o
AllOn(seq)      == {seq[i] : i \in DOMAIN seq}
FaultIf(b, what) == IF b THEN {what} ELSE {}

\* The elements of seq that are in S: SelectSeq(), but with a set for a test, so
\* that it can be proved about.
Only(seq, S) ==
  LET upto[i \in 0 .. Len(seq)] ==
        IF i = 0 THEN <<>>
        ELSE IF seq[i] \in S THEN Append(upto[i - 1], seq[i]) ELSE upto[i - 1]
  IN  upto[Len(seq)]

--------------------------------------------------------------------------------
(***************************************************************************)
(* The library's functions, as functions of the state they change.         *)
(***************************************************************************)
Now == [props |-> props, chain |-> chain, objs |-> objs, faults |-> faults]

Becomes(s) == props' = s.props /\ chain' = s.chain /\ objs' = s.objs /\ faults' = s.faults

\* AttachHwnd(): the object hooks the window, or it fails; the object then stays
\* as it was, unless it was SetProp() that failed.
Attached(s, o, h, name) ==
  [s EXCEPT !.props[h][name] = o, !.chain[h] = <<o>> \o @,
            !.objs[o] = [@ EXCEPT !.hwnd = h, !.name = name]]

HalfAttached(s, o, h, name) ==
  [s EXCEPT !.objs[o] = [@ EXCEPT !.hwnd = h, !.name = name]]

\* CheckHwnd(): E_NotExist for a living window without such a property.
CheckHwnd(h, name) == windows[h] # "dead" /\ props[h][name] = NoObj

\* The states AttachHwnd() may leave, with whether it succeeded.
AttachOutcomes(s, o, h, name) ==
  IF s.objs[o].hwnd # NoHwnd \/ ~CheckHwnd(h, name)
  THEN {[ok |-> FALSE, s |-> s]}
  ELSE {[ok |-> TRUE, s |-> Attached(s, o, h, name)]}
       \cup {[ok |-> FALSE, s |-> HalfAttached(s, o, h, name)] : f \in Failures \cap {"SetProp"}}
       \cup {[ok |-> FALSE, s |-> s] : f \in Failures \cap {"SetWindowSubclass"}}

Mark(s, o, delete) == delete /\ ~s.objs[o].partial

\* DetachHwnd()'s own work, its helper left aside.
Detached(s, o, delete) ==
  LET h == s.objs[o].hwnd
      n == s.objs[o].name
  IN  [s EXCEPT !.chain[h] = Only(@, Obj \ {o}),
                !.props[h][n] = NoObj,
                !.objs[o] = [@ EXCEPT
                  !.hwnd = NoHwnd, !.name = NoName,
                  !.marks = s.objs[o].marks + IF Mark(s, o, delete) THEN 1 ELSE 0],
                !.faults = @ \cup FaultIf(~IsOn(o, s.chain[h]) \/ s.props[h][n] # o, "assert")]

\* ~Cxx_delete_this_helper(): whether the last call under way deletes.
NowDeletesEarly(s, o) == s.objs[o].marks > 0            \* mutation: any call does
NowDeletes(s, o)      == s.objs[o].recurse = 0 /\ s.objs[o].marks > 0

\* delete: the destructor detaches first, and DetachHwnd(true) may then delete
\* the object that is being deleted.
Deleted(s, o) ==
  LET hooked == s.objs[o].hwnd # NoHwnd
      d      == IF hooked THEN Detached(s, o, TRUE) ELSE s
  IN  [d EXCEPT !.objs[o].life = "freed",
                !.faults = @ \cup FaultIf(s.objs[o].life = "freed", "double free")
                             \cup FaultIf(hooked /\ NowDeletes(d, o), "double free")]

Unwound(s, o) == IF NowDeletes(s, o) THEN Deleted(s, o) ELSE s

\* DetachHwnd(), the helper included.
DetachHwnd(s, o, delete) ==
  IF s.objs[o].hwnd = NoHwnd THEN s ELSE Unwound(Detached(s, o, delete), o)

--------------------------------------------------------------------------------
(***************************************************************************)
(* The client's calls: at top level, or from the innermost SubWndProc().   *)
(* It does not touch an object it has had deleted, nor hook a window that  *)
(* is being destroyed.                                                     *)
(***************************************************************************)
Calling(call) == call \in Calls /\ faults = {}

Usable(o) == objs[o].life = "alive" /\ objs[o].marks = 0

FullName(o, sig) == IF sig = NoSig THEN o ELSE NameOf[sig]

\* FetchCxxobj_precheck(): an object to return, an error, or go on.
Found(h, sig) == IF sig = NoSig THEN NoObj ELSE props[h][CutName[sig]]

\* FetchCxxobjFromHwnd() with is_create: a new object o, or the one found.
Fetch(o, h, sig) ==
  /\ Calling("Fetch")
  /\ windows[h] # "dying" /\ objs[o].life = "unused"
  /\ Found(h, sig) = NoObj /\ (sig # NoSig => windows[h] # "dead")
  /\ \E out \in AttachOutcomes([Now EXCEPT !.objs[o].life = "alive"], o, h, FullName(o, sig)) :
       Becomes(IF out.ok THEN out.s ELSE Deleted(out.s, o))
  /\ UNCHANGED <<windows, stack>>

\* FetchCxxobjFromHwnd_as_partial(), with an object that lives in another one.  It
\* asserts that the object it finds, if any, is this one; a client that hands over
\* one while another is found has "FetchOther" among its calls.
FetchAsPartial(o, h, sig) ==
  /\ Calling("FetchAsPartial")
  /\ windows[h] # "dying" /\ (objs[o].life = "unused" \/ (Usable(o) /\ objs[o].partial))
  /\ \/ /\ Found(h, sig) = NoObj /\ (sig # NoSig => windows[h] # "dead")
        /\ \E out \in AttachOutcomes([Now EXCEPT !.objs[o].life = "alive"], o, h, FullName(o, sig)) :
             Becomes([out.s EXCEPT !.objs[o].partial = TRUE])
     \/ /\ Found(h, sig) # NoObj /\ (Found(h, sig) = o \/ "FetchOther" \in Calls)
        /\ Becomes([Now EXCEPT !.faults = FaultIf(Found(h, sig) # o, "assert")])
  /\ UNCHANGED <<windows, stack>>

\* AttachHwnd() on an object that DetachHwnd(false) has left to the client.
Attach(o, h, sig) ==
  /\ Calling("Attach")
  /\ windows[h] # "dying" /\ Usable(o) /\ ~objs[o].partial
  /\ \E out \in AttachOutcomes(Now, o, h, FullName(o, sig)) : Becomes(out.s)
  /\ UNCHANGED <<windows, stack>>

\* DetachHwnd() on an object that hooks a window.
Detach(o, delete) ==
  /\ Calling(IF delete THEN "Detach" ELSE "DetachKeep")
  /\ Usable(o) /\ objs[o].hwnd # NoHwnd
  /\ Becomes(DetachHwnd(Now, o, delete))
  /\ UNCHANGED <<windows, stack>>

\* delete, by the client: a composite object, one that DetachHwnd(false) has
\* left to it, or (as the comment in the header says it may) a hooked one.
Delete(o) ==
  /\ Usable(o)
  /\ \/ Calling("Delete") /\ (objs[o].partial \/ objs[o].hwnd = NoHwnd)
        /\ ~\E i \in DOMAIN stack : stack[i].obj = o
     \/ Calling("DeleteInProc") /\ objs[o].hwnd = NoHwnd
     \/ Calling("DeleteHooked") /\ ~objs[o].partial /\ objs[o].hwnd # NoHwnd
  /\ Becomes(Deleted(Now, o))
  /\ UNCHANGED <<windows, stack>>

--------------------------------------------------------------------------------
(***************************************************************************)
(* Messages.  The system calls the newest procedure; DefSubclassProc()     *)
(* calls the next one of those that were there and still are.              *)
(***************************************************************************)
StillOn(h, seq) == Only(seq, AllOn(chain[h]))

\* SubclassProc() and the beginning of StockWndProc(), called for the first of
\* seq by the system (first) or, from below, by DefSubclassProc().
Enter(below, h, msg, seq, first) ==
  LET o == Head(seq)
  IN  /\ stack' = Append(below, [obj |-> o, hwnd |-> h, msg |-> msg, rest |-> Tail(seq),
                                 passed |-> FALSE, first |-> first])
      /\ objs' = [objs EXCEPT ![o].recurse = @ + 1]
      /\ faults' = faults \cup FaultIf(props[h][objs[o].name] # o, "assert")

UnderWay == Cardinality({i \in DOMAIN stack : stack[i].first})

Send(h) ==
  /\ Calling("Send") /\ UnderWay < MaxDepth
  /\ windows[h] = "live" /\ chain[h] # <<>>
  /\ Enter(stack, h, "msg", chain[h], TRUE)
  /\ UNCHANGED <<windows, props, chain>>

\* DestroyWindow(): WM_NCDESTROY is its last message.
DestroyWindow(h) ==
  /\ Calling("DestroyWindow") /\ UnderWay < MaxDepth
  /\ windows[h] = "live"
  /\ \/ /\ chain[h] = <<>>
        /\ windows' = [windows EXCEPT ![h] = "dead"]
        /\ UNCHANGED <<objs, stack, faults>>
     \/ /\ chain[h] # <<>>
        /\ windows' = [windows EXCEPT ![h] = "dying"]
        /\ Enter(stack, h, "WM_NCDESTROY", chain[h], TRUE)
  /\ UNCHANGED <<props, chain>>

Top == stack[Len(stack)]

\* The innermost SubWndProc() calls DefSubclassProc().
PassOn ==
  /\ stack # <<>> /\ faults = {} /\ ~Top.passed
  /\ LET rest    == StillOn(Top.hwnd, Top.rest)
         waiting == [stack EXCEPT ![Len(stack)].passed = TRUE]
     IN  \/ rest = <<>> /\ stack' = waiting /\ UNCHANGED <<objs, faults>>
         \/ rest # <<>> /\ Enter(waiting, Top.hwnd, Top.msg, rest, FALSE)
  /\ UNCHANGED <<windows, props, chain>>

NeverLast(msg)   == FALSE       \* mutation: WM_NCDESTROY is a message like any other
LastMessage(msg) == msg = "WM_NCDESTROY"

LeftUncounted(n) == n           \* mutation: the helper's destructor does not count
Left(n)          == n - 1

\* The innermost SubWndProc() returns, and StockWndProc() after it.
Return ==
  LET o    == Top.obj
      tail == IF LastMessage(Top.msg) THEN DetachHwnd(Now, o, TRUE) ELSE Now
      done == [tail EXCEPT !.objs[o].recurse = Left(@)]
  IN  /\ stack # <<>> /\ faults = {} /\ Top.passed
      /\ stack' = SubSeq(stack, 1, Len(stack) - 1)
      /\ windows' = IF Top.msg = "WM_NCDESTROY" /\ Top.first
                    THEN [windows EXCEPT ![Top.hwnd] = "dead"] ELSE windows
      /\ IF objs[o].life = "freed"
         THEN faults' = faults \cup {"use after free"} /\ UNCHANGED <<props, chain, objs>>
         ELSE Becomes(Unwound(done, o))

Next ==
  \/ \E o \in Obj, h \in Hwnd, sig \in Sig \cup {NoSig} :
        Fetch(o, h, sig) \/ FetchAsPartial(o, h, sig) \/ Attach(o, h, sig)
  \/ \E o \in Obj : Delete(o) \/ \E delete \in BOOLEAN : Detach(o, delete)
  \/ \E h \in Hwnd : Send(h) \/ DestroyWindow(h)
  \/ PassOn \/ Return

Spec == Init /\ [][Next]_vars

\* The client's procedures pass their messages on and return, however often
\* they are called again meanwhile.
FairSpec ==
  /\ Spec
  /\ \A d \in 1 .. MaxDepth * Cardinality(Obj) :
       SF_vars(Len(stack) = d /\ PassOn) /\ SF_vars(Len(stack) = d /\ Return)

--------------------------------------------------------------------------------
(***************************************************************************)
(* Properties.                                                             *)
(***************************************************************************)

TypeOK ==
  /\ windows \in [Hwnd -> {"live", "dying", "dead"}]
  /\ props \in [Hwnd -> [Name -> Obj \cup {NoObj}]]
  /\ chain \in [Hwnd -> Seq(Obj)]
  /\ objs \in [Obj -> [life : {"unused", "alive", "freed"}, hwnd : Hwnd \cup {NoHwnd},
                       name : Name \cup {NoName}, partial : BOOLEAN,
                       recurse : 0 .. MaxDepth, marks : 0 .. 1]]
  /\ stack \in Seq([obj : Obj, hwnd : Hwnd, msg : {"msg", "WM_NCDESTROY"}, rest : Seq(Obj),
                    passed : BOOLEAN, first : BOOLEAN])
  /\ Len(stack) <= MaxDepth * Cardinality(Obj)
  /\ faults \subseteq {"double free", "use after free", "assert"}

\* Whatever a SubWndProc() does to its object, its window or another object's,
\* no memory is freed twice or used after it is freed, and the assertions of
\* DetachHwnd() and SubclassProc() hold.
NoFault == faults = {}

\* An object, its window's property and its window's chain of procedures tell
\* the same story, so that neither the system nor CheckHwnd() ever follows a
\* pointer to an object that is gone, and no object is left on a dead window.
AttachmentsAgree ==
  /\ TypeOK
  /\ \A o \in Obj : objs[o].hwnd # NoHwnd =>
       LET h == objs[o].hwnd
       IN  /\ objs[o].life = "alive" /\ windows[h] # "dead"
           /\ props[h][objs[o].name] = o /\ IsOn(o, chain[h])
  /\ \A h \in Hwnd, n \in Name : props[h][n] # NoObj =>
       objs[props[h][n]].hwnd = h /\ objs[props[h][n]].name = n
  /\ \A h \in Hwnd, i, j \in 1 .. Cardinality(Obj) :
       i \in DOMAIN chain[h] =>
         /\ objs[chain[h][i]].hwnd = h
         /\ j \in DOMAIN chain[h] /\ i # j => chain[h][i] # chain[h][j]

\* An object that is to be deleted is deleted, once the calls that are under
\* way for it have returned.
DoomedAreDeleted == \A o \in Obj : objs[o].marks > 0 ~> objs[o].life = "freed"
===============================================================================
