------------------------------- MODULE ByteQueue -------------------------------
(***************************************************************************)
(* What CCircBufws promises its clients: a bounded queue of elements.      *)
(* `moved' and `ret' are the call's interface: the elements it took in or  *)
(* handed out, and its return value.  A negative return value is a refusal *)
(* and has no effect.                                                      *)
(***************************************************************************)
EXTENDS Integers, Sequences

VARIABLES cap, q, moved, ret

vars == <<cap, q, moved, ret>>

Newest(s, n) == SubSeq(s, Len(s) - n + 1, Len(s))
Excess(a, b) == IF a >= b THEN a - b ELSE 0

Init == cap = 0 /\ q = <<>> /\ moved = <<>> /\ ret = 0

Create == cap' \in Nat \ {0} /\ q' = <<>> /\ moved' = <<>> /\ ret' = 0

Destroy == cap' = 0 /\ q' = <<>> /\ moved' = <<>> /\ ret' = 0

Refuse == ret' < 0 /\ moved' = <<>> /\ UNCHANGED <<cap, q>>

\* A call about something other than the content.
Administer == ret' \in {0, 1} /\ moved' = <<>> /\ UNCHANGED <<cap, q>>

\* All the elements of the call go to the end, or none does.
PutAll ==
  /\ Len(q) + Len(moved') <= cap
  /\ q' = q \o moved'
  /\ ret' \in {0, Len(moved')}
  /\ UNCHANGED cap

\* The oldest elements give way to the new ones.
PutOverOldest ==
  /\ Len(q) + Len(moved') > cap
  /\ q' = Newest(q \o moved', cap)
  /\ ret' \in {0, Len(q) + Len(moved') - cap}
  /\ UNCHANGED cap

\* The oldest elements are replaced in place, or the whole content is.
ReplaceOldest ==
  \/ /\ Len(moved') < Len(q)
     /\ q' = moved' \o SubSeq(q, Len(moved') + 1, Len(q))
     /\ ret' = 0
     /\ UNCHANGED cap
  \/ LET lost == Excess(Len(moved'), cap)
     IN /\ Len(moved') >= Len(q)
        /\ q' = Newest(moved', Len(moved') - lost)
        /\ ret' = Len(q) + lost
        /\ UNCHANGED cap

Remove == q = moved' \o q' /\ ret' = Len(moved') /\ UNCHANGED cap

Discard ==
  /\ \E n \in 0..Len(q) : ret' = n /\ q' = SubSeq(q, n + 1, Len(q))
  /\ moved' = <<>>
  /\ UNCHANGED cap

Peek ==
  /\ moved' = SubSeq(q, 1, Len(moved'))
  /\ ret' = 0
  /\ UNCHANGED <<cap, q>>

Next == Create \/ Destroy \/ Refuse \/ Administer \/ PutAll \/ PutOverOldest
        \/ ReplaceOldest \/ Remove \/ Discard \/ Peek

Spec == Init /\ [][Next]_vars
================================================================================
