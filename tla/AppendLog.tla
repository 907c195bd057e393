------------------------------ MODULE AppendLog ------------------------------
(***************************************************************************)
(* What a log file promises: the bytes it has accepted, in order, of which *)
(* a prefix is in the file for good.  A refusal or a crash costs no more   *)
(* than the bytes that were not in the file yet.  A call in which a write  *)
(* falls short may drop some of those, too, or of its own, but puts none   *)
(* where it does not belong.                                               *)
(***************************************************************************)
EXTENDS Naturals, Sequences

CONSTANT Text \* what may be appended at a time

VARIABLES
  stream, \* the bytes accepted
  stored, \* how many of them are in the file
  open,   \* the file is open
  told,   \* what the last call returned
  short   \* a write of the last call fell short, and the log has not noticed

vars == <<stream, stored, open, told, short>>

Init == stream = <<>> /\ stored = 0 /\ ~open /\ told = TRUE /\ ~short

Cut(s, n) == stream' = SubSeq(s, 1, n) /\ stored' = n

\* Opening keeps or clears what is there, and may append at once, which may be the
\* end of the process.
Open(keep, m) ==
  /\ ~open
  /\ LET kept == IF keep THEN stream ELSE <<>>
     IN  \/ told' = TRUE /\ open' = TRUE /\ stream' = kept \o m
            /\ stored' \in Len(kept) .. Len(stream')
         \/ told' = FALSE /\ open' \in BOOLEAN
            /\ \E n \in Len(kept) .. Len(kept \o m) : Cut(kept \o m, n)
         \/ told' = FALSE /\ UNCHANGED <<stream, stored, open>>

Accept(m) ==
  /\ open /\ told' = TRUE
  /\ stream' = stream \o m
  /\ stored' \in stored .. Len(stream')
  /\ UNCHANGED open

\* What was in the file stays there.  A flush may be refused, too, and so may what
\* is left to write when the log is closed, or the process may end in the call.
Refuse(m) ==
  /\ told' = FALSE
  /\ \E n \in stored .. Len(stream \o m) : Cut(stream \o m, n)
  /\ open' => open

Flush == told' = TRUE /\ stored' = Len(stream) /\ UNCHANGED <<stream, open>>

Close == open' = FALSE /\ stored' = Len(stream) /\ told' = TRUE /\ UNCHANGED stream

Crash == open' = FALSE /\ Cut(stream, stored) /\ told' = TRUE

\* t is s without some of the bytes behind the first n: each byte of t comes from
\* further behind in s than the one before it.
Thins(n, s, t) ==
  /\ n <= Len(t) /\ Len(t) <= Len(s)
  /\ \A i \in 1 .. n : t[i] = s[i]
  /\ \E skip \in [n + 1 .. Len(t) -> 0 .. Len(s) - Len(t)] :
       /\ \A i \in n + 1 .. Len(t) : t[i] = s[i + skip[i]]
       /\ \A i, j \in n + 1 .. Len(t) : i <= j => skip[i] <= skip[j]

\* A call that is given m drops bytes that are not in the file, and may not tell.
Drop(bytes, n, m) ==
  /\ Thins(n, bytes \o m, stream') /\ stored' \in n .. Len(stream')
  /\ told' \in BOOLEAN

Miss(m) == Drop(stream, stored, m) /\ (open' => open)

OpenMiss(keep, m) ==
  /\ ~open
  /\ LET kept == IF keep THEN stream ELSE <<>> IN Drop(kept, Len(kept), m)
  /\ open' \in BOOLEAN

NoMiss ==
  \/ \E keep \in BOOLEAN, m \in Text \cup {<<>>} : Open(keep, m)
  \/ \E m \in Text : Accept(m)
  \/ \E m \in Text \cup {<<>>} : Refuse(m)
  \/ Flush \/ Close \/ Crash

Next ==
  \/ ~short' /\ NoMiss
  \/ short' /\ \E m \in Text \cup {<<>>} : Miss(m) \/ \E keep \in BOOLEAN : OpenMiss(keep, m)

Spec == Init /\ [][Next]_vars
=============================================================================
