------------------------------ MODULE MCHashdict ------------------------------
(***************************************************************************)
(* Instances of hashdict to check, with thresholds scaled down so that a   *)
(* few keys cross all of them, and the sets of calls their clients make.   *)
(***************************************************************************)
EXTENDS Hashdict, TLC

CONSTANTS k1, k2, k3, k4

\* k1 and k2 start in the same slot and part later; between them the four
\* keys start in three of the four initial slots.
Hashes == (k1 :> 1) @@ (k2 :> 5) @@ (k3 :> 2) @@ (k4 :> 3)

\* Fewer keys; k1 and k2 have the same hash, k4 starts with them and parts at
\* once, so that keys which come and go can touch every slot.
HashesOfThree == (k1 :> 0) @@ (k2 :> 0) @@ (k4 :> 8)

HashesOfTwo == (k1 :> 1) @@ (k2 :> 1)

\* SetDbgParams() to grow only when one slot is left.
OneEmpty  == {-1}
NoneGiven == {}

\* A client that never enumerates.
CoreCalls == {"Set", "SetDefault", "Get", "Del", "Compact", "Clear", "GetKeys",
               "SetDbgParams"}

\* Two walks, and every call that has to heed them.
WalkCalls == {"Set", "SetDefault", "Del", "KeyRename", "Compact", "Clear", "GetKeys",
              "CopyDict", "EnumNext", "EnumReset", "EnumCopy"}

AllCalls == CoreCalls \cup WalkCalls

\* A client that compacts a dict with many keys, and deletes.
TightDelCalls == {"Set", "Del", "Compact"}

\* No call and no property reads what the call before returned, but for whether
\* it returned, so states that differ in that alone need not be told apart.
DictView == <<dictVars, enumors, renames, ret = Hang>>
===============================================================================
