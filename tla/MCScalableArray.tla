---------------------------- MODULE MCScalableArray ----------------------------
(***************************************************************************)
(* Instances of TScalableArray to check: traits, and what clients call.    *)
(***************************************************************************)
EXTENDS ScalableArray

Trait(max, inc, dec, thres) == [max |-> max, inc |-> inc, dec |-> dec, thres |-> thres]

\* The default maximum is not reached in the code.
DefaultOf4 == Trait(4, 2, 4, 1)

\* What the tests use, scaled down, with a spare of at most one element; and
\* one of each kind that is refused.
TestTraits == {Trait(3, 1, 1, 0), Trait(4, 2, 2, 0), Trait(4, 2, 2, 1), Trait(4, 2, 0, 0),
               Trait(0, 1, 1, 0), Trait(4, 0, 1, 0), Trait(4, 2, 3, 1), Trait(3, 2, 2, 0)}

AllCalls == {"Insert", "AppendAt", "AppendOneAt", "Delete", "DeleteMatch", "SetEleQuan",
             "Cleanup", "SetTrait", "Copy", "MoveAway"}

\* What the calls depend on: no call and no property reads the ret of the call
\* before, so states that differ in it alone need not be told apart.
ArrayView == <<cells, storage, eles, trait, alive, faults>>
===============================================================================
