----------------------------- MODULE OrderedDict -----------------------------
(***************************************************************************)
(* What chjds::hashdict promises: a dictionary that remembers the order in *)
(* which its keys were added, and enumerators that walk it in that order.  *)
(* While a walk is going on a key may be changed, renamed or deleted, but  *)
(* none is added, and every key still there is visited exactly once.       *)
(*                                                                         *)
(* `ret' is the interface: the call, its argument, and what it returned; a *)
(* null pointer is returned as nothing.                                    *)
(***************************************************************************)
EXTENDS Integers, Sequences

CONSTANTS Key, Value, Enumor, NoKey

VARIABLES
  entries,   \* the keys and their values, oldest first
  walks,     \* each enumerator's progress
  ret

vars == <<entries, walks, ret>>

Fresh(from) == [from |-> from, going |-> FALSE, ended |-> FALSE, passed |-> 0]

Init == /\ entries = <<>>
        /\ walks = [e \in Enumor |-> Fresh(NoKey)]
        /\ ret = <<"clear", TRUE>>

Keys   == {entries[i].key : i \in DOMAIN entries}
At(k)  == CHOOSE i \in DOMAIN entries : entries[i].key = k
Val(k) == entries[At(k)].val
Locked == \E e \in Enumor : walks[e].going

\* The call changes nothing.
Answers(r) == ret' = r /\ UNCHANGED <<entries, walks>>

Get(k) == Answers(IF k \in Keys THEN <<"get", k, Val(k)>> ELSE <<"get", k>>)

Set(k, v) ==
  \/ /\ k \in Keys
     /\ entries' = [entries EXCEPT ![At(k)].val = v]
     /\ ret' = <<"set", k, v>>
     /\ UNCHANGED walks
  \/ /\ k \notin Keys /\ ~Locked
     /\ entries' = Append(entries, [key |-> k, val |-> v])
     /\ ret' = <<"set", k, v>>
     /\ UNCHANGED walks
  \/ k \notin Keys /\ Locked /\ Answers(<<"set", k>>)

\* setdefault(): an existing value is kept.
SetDefault(k, v) ==
  IF k \in Keys THEN Answers(<<"set", k, Val(k)>>) ELSE Set(k, v)

Del(k) ==
  \/ k \notin Keys /\ Answers(<<"del", k, FALSE>>)
  \/ /\ k \in Keys
     /\ entries' = SubSeq(entries, 1, At(k) - 1)
                   \o SubSeq(entries, At(k) + 1, Len(entries))
     /\ walks' = [e \in Enumor |-> IF walks[e].going /\ At(k) <= walks[e].passed
                                   THEN [walks[e] EXCEPT !.passed = @ - 1]
                                   ELSE walks[e]]
     /\ ret' = <<"del", k, TRUE>>

\* The key changes, its value and its place do not.
Rename(k, new) ==
  \/ (k \notin Keys \/ new \in Keys) /\ Answers(<<"rename", k, new, FALSE>>)
  \/ /\ k \in Keys /\ new \notin Keys
     /\ entries' = [entries EXCEPT ![At(k)].key = new]
     /\ ret' = <<"rename", k, new, TRUE>>
     /\ UNCHANGED walks

Clear ==
  \/ Locked /\ Answers(<<"clear", FALSE>>)
  \/ /\ ~Locked
     /\ entries' = <<>>
     /\ ret' = <<"clear", TRUE>>
     /\ UNCHANGED walks

\* What is rearranged inside is not the client's business.
Compact == \E b \in BOOLEAN : (~b <=> Locked) /\ Answers(<<"compact", b>>)

\* Debug parameters, and a copy of the dictionary that takes its place.
Administer == \E r \in {<<"dbg">>, <<"copy">>} : Answers(r)

GetKeys == Answers(<<"keys", [i \in DOMAIN entries |-> entries[i].key]>>)

EnumNext(e) ==
  LET w     == walks[e]
      start == IF w.going THEN w.passed
               ELSE IF w.from = NoKey THEN 0
               ELSE IF w.from \in Keys THEN At(w.from) - 1
               ELSE Len(entries)
  IN  /\ UNCHANGED entries
      /\ \/ /\ w.ended
            /\ ret' = <<"next", e>> /\ UNCHANGED walks
         \/ /\ ~w.ended /\ start < Len(entries)
            /\ walks' = [walks EXCEPT ![e].going = TRUE, ![e].passed = start + 1]
            /\ ret' = <<"next", e, entries[start + 1].key>>
         \/ /\ ~w.ended /\ start >= Len(entries)
            /\ walks' = [walks EXCEPT ![e].going = FALSE, ![e].ended = TRUE,
                                      ![e].passed = 0]
            /\ ret' = <<"next", e>>

EnumReset(e, from) ==
  /\ walks' = [walks EXCEPT ![e] = Fresh(from)]
  /\ ret' = <<"reset", e>>
  /\ UNCHANGED entries

\* A copied enumerator walks on from the same place.
EnumCopy(e, e2) ==
  /\ walks' = [walks EXCEPT ![e2] = walks[e]]
  /\ ret' = <<"reset", e2>>
  /\ UNCHANGED entries

Next ==
  \/ \E k \in Key : Get(k) \/ Del(k) \/ \E new \in Key : Rename(k, new)
  \/ \E k \in Key, v \in Value : Set(k, v) \/ SetDefault(k, v)
  \/ Clear \/ Compact \/ GetKeys \/ Administer
  \/ \E e \in Enumor : \/ EnumNext(e)
                       \/ \E from \in Key \cup {NoKey} : EnumReset(e, from)
                       \/ \E e2 \in Enumor : EnumCopy(e, e2)

Spec == Init /\ [][Next]_vars
==============================================================================
