---------------------------- MODULE MCWindowSubclass ----------------------------
(***************************************************************************)
(* Instances of CxxWindowSubclass to check, and what their clients call.   *)
(***************************************************************************)
EXTENDS WindowSubclass, TLC

CONSTANTS o1, o2, s1, s2, n1, n2

Names == {n1, n2} \cup Obj

\* A signature that fits in the buffer of FetchCxxobj_precheck().
SigName == s1 :> n1

\* And a second one that does not, and begins as the first does.
SigNames == s1 :> n1 @@ s2 :> n2
CutNames == s1 :> n1 @@ s2 :> n1

\* A client that keeps to what the header's comment recommends.
GoodCalls == {"Fetch", "FetchAsPartial", "Attach", "Detach", "DetachKeep", "Delete",
              "Send", "DestroyWindow"}

\* A client that deletes a hooked object.
DeleteHookedCalls == {"Fetch", "DeleteHooked"}
===============================================================================
