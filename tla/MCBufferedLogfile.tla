-------------------------- MODULE MCBufferedLogfile --------------------------
(***************************************************************************)
(* Instances of BufferedLogfile to check: buffers of one byte and of two,  *)
(* and messages below, at, between and above one and two buffers.          *)
(***************************************************************************)
EXTENDS BufferedLogfile

Messages == {<<>>, <<0>>, <<1>>, <<0, 1>>, <<1, 0, 0>>, <<0, 0, 1, 1>>}
Lines == {<<<<0>>, <<>>, <<1>>>>, <<<<1>>, <<0, 1>>>>}
Sizes == {0, 2, 3}

\* Up to two writes of a call fail, do nothing, one byte, or all they should.
Disks == UNION {[1 .. n -> {-1, 0, 1, 9}] : n \in 0 .. 2}
=============================================================================
