----------------------------- MODULE GrowingArray -----------------------------
(***************************************************************************)
(* What TScalableArray promises: a sequence of elements, not longer than   *)
(* its limit, that calls change as a whole or not at all, except a copy    *)
(* that fails, which may leave nothing.  `ret' is the interface: what the  *)
(* last call was given, and the code it returned.                          *)
(***************************************************************************)
EXTENDS Integers, Sequences

CONSTANTS
  Value, Default, Zero,   \* the client's elements, T()'s and a blank one
  Given                   \* the sequences the client hands over

VARIABLES seq, limit, ret

vars == <<seq, limit, ret>>

Init == seq = <<>> /\ limit \in Nat /\ ret = [call |-> <<"new">>, code |-> "ok"]

Returns(call, code) == ret' = [call |-> call, code |-> code]

Becomes(s) == seq' = s /\ Len(s) <= limit /\ limit' = limit

\* A call that fails says why and changes nothing.
Refuse == ret'.code \notin {"ok"} /\ UNCHANGED <<seq, limit>>

Insert(pos, d) ==
  /\ Returns(<<"insert", pos, d>>, "ok")
  /\ Becomes(SubSeq(seq, 1, pos) \o d \o SubSeq(seq, pos + 1, Len(seq)))

\* Where there is nothing to insert, any position will do.
InsertNothing ==
  \E pos \in -1 .. Len(seq) + 1 : Returns(<<"insert", pos, <<>>>>, "ok") /\ UNCHANGED <<seq, limit>>

\* d from pos on, beyond the end too.
Over(pos, d) == SubSeq(seq, 1, pos) \o d \o SubSeq(seq, pos + Len(d) + 1, Len(seq))

Overwrite(pos, d) == Returns(<<"append at", pos, d>>, "ok") /\ Becomes(Over(pos, d))

\* The one call that may do half of its work.
OverwriteShort(pos, d) ==
  /\ Returns(<<"append at", pos, d>>, "no memory")
  /\ pos + Len(d) > Len(seq)
  /\ Becomes(SubSeq(Over(pos, d), 1, Len(seq)))

Delete(pos, n) ==
  /\ Returns(<<"delete", pos, n>>, "ok")
  /\ Becomes(SubSeq(seq, 1, pos) \o SubSeq(seq, pos + n + 1, Len(seq)))

Resize(n, blank) ==
  /\ Returns(<<"resize", n, blank>>, "ok")
  /\ Becomes([i \in 1..n |-> IF i <= Len(seq) THEN seq[i] ELSE blank])

\* Where each element left was, if all that go equal v.
Sifted(n, v) ==
  {kept \in [1..n -> DOMAIN seq] :
     /\ \A i, j \in 1..n : i < j => kept[i] < kept[j]
     /\ \A i \in DOMAIN seq : seq[i] # v => \E j \in 1..n : kept[j] = i}

\* Some of the elements that equal v go.
DeleteSome(v) ==
  /\ Returns(<<"delete match", v>>, "ok")
  /\ \E n \in 0 .. Len(seq) : \E kept \in Sifted(n, v) : Becomes([i \in 1..n |-> seq[kept[i]]])

Clear == Returns(<<"cleanup">>, "ok") /\ Becomes(<<>>)

Copy == Returns(<<"copy">>, "ok") /\ Becomes(seq)

\* A copy that fails may have emptied the array that was to become one.
CopyFails == ret'.call = <<"copy">> /\ ret'.code # "ok" /\ Becomes(<<>>)

NewLimit == Returns(<<"trait">>, "ok") /\ seq' = seq /\ limit' >= Len(seq)

\* The content has been moved to another array.
GiveUp == Returns(<<"move">>, "ok") /\ seq' = <<>> /\ limit' \in Nat

Next ==
  \/ Refuse \/ InsertNothing
  \/ \E pos \in 0 .. Len(seq), d \in Given :
       Insert(pos, d) \/ Overwrite(pos, d) \/ OverwriteShort(pos, d)
  \/ \E pos \in 0 .. Len(seq), n \in 0 .. Len(seq) + 1 : Delete(pos, n)
  \/ \E n \in 0 .. limit, blank \in {Default, Zero} : Resize(n, blank)
  \/ \E v \in Value : DeleteSome(v)
  \/ Clear \/ Copy \/ CopyFails \/ NewLimit \/ GiveUp

Spec == Init /\ [][Next]_vars
===============================================================================
