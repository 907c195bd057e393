---------------------------- MODULE MCHwndTimer ----------------------------
(***************************************************************************)
(* An instance of HwndTimer to check: two windows, a clock that wraps      *)
(* within a run, and runs of every kind.                                   *)
(***************************************************************************)
EXTENDS HwndTimer

SomeCounts == {-1, 0, 1, 2}
=============================================================================
