----------------------------- MODULE MCCircBufws -----------------------------
(***************************************************************************)
(* Clients of CCircBufws to check: the sets of calls they make.            *)
(***************************************************************************)
EXTENDS CircBufws

\* A client that keeps to the rules: it overwrites where there is no shadow
\* to fill, lets a device fill the tail, peeks at what is there, and resets
\* the pointers of an empty buffer.
CoreCalls == {"Init", "Destroy", "Put", "PutOverwrite", "OverwriteHead", "Get", "Clear",
              "ResetPtr", "ResetPeakUsage", "ShadowPeekHead", "ShadowRetrieveEnd",
              "ShadowOverwrite"}

\* No call and no property reads what the call before returned, so states that
\* differ in that alone need not be told apart.
BufferView == <<bufVars, reading>>
==============================================================================
