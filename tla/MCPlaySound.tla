---------------------------- MODULE MCPlaySound ----------------------------
(***************************************************************************)
(* Instances of PlaySound to check.                                        *)
(***************************************************************************)
EXTENDS PlaySound

\* Files that can be played and files that are refused.
PlainFiles == {<<"other", "fmt", "data">>, <<"data", "fmt">>, <<"badfmt", "data">>, <<"other">>}

\* One more file, refused after its data chunk has been taken.
AllFiles == PlainFiles \cup {<<"data", "badfmt">>}
=============================================================================
