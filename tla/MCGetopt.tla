-------------------------------- MODULE MCGetopt --------------------------------
(***************************************************************************)
(* Command lines to check: one context with many, a second one with few,   *)
(* so that their scans may run in turn.                                    *)
(***************************************************************************)
EXTENDS Getopt, TLC

CONSTANTS c1, c2

None == {}

\* -a takes no argument, -c one, -o may have one; --va needs one, --vb has none.
Short == ("a" :> 0) @@ ("c" :> 1) @@ ("o" :> 2)
LongOpts == {[name |-> <<"v", "a">>, has_arg |-> TRUE], [name |-> <<"v", "b">>, has_arg |-> FALSE]}

Operand1 == <<"x">>
Dash == <<"-">>
A == <<"-", "a">>
C == <<"-", "c">>

Groups == {A, C, <<"-", "a", "c">>, <<"-", "c", "a">>, <<"-", "o">>, <<"-", "o", "c">>, <<"-", "z", "a">>}
Longs == {<<"-", "-", "v", "a">>, <<"-", "-", "v", "a", "=", "x">>, <<"-", "-", "v", "b">>,
          <<"-", "-", "v", "b", "=">>, <<"-", "-", "v">>, <<"-", "-", "z">>}
OneDash == {<<"-", "v", "a">>, <<"-", "v", "b">>, <<"-", "v">>,
            <<"-", "a", "v">>, <<"-", "a", "v", "a">>, <<"-", "a", "z">>,
            <<"-", ":">>, <<"-", "a", ":">>}

Lines(words, n) == UNION {[1..m -> words] : m \in 0..n}

JobsFor(entry, prefix, colon, lines) ==
  {[entry |-> entry, prefix |-> prefix, colon |-> colon, short |-> Short,
    longopts |-> LongOpts, words |-> <<<<"p">>>> \o line] : line \in lines}

Many ==
  \* longer lines of a few words, for the permutation
  JobsFor("sgetopt", "", FALSE, Lines({Operand1, A, C}, 5) \cup Lines({Operand1, A, Terminator}, 5))
  \* all the words there are
  \cup JobsFor("long", "", TRUE, Lines({Operand1, Dash, Terminator} \cup Groups \cup Longs, 2))
  \cup JobsFor("long", "", FALSE, Lines({Operand1, Terminator, C} \cup Longs, 3))
  \cup JobsFor("long_only", "", FALSE, Lines({Operand1, Terminator, C} \cup Groups \cup OneDash, 2))
  \* the other orderings
  \cup JobsFor("long", "+", FALSE, Lines({Operand1, Terminator, A, C, <<"-", "-", "v", "a">>}, 3))
  \cup JobsFor("long", "-", FALSE, Lines({Operand1, Terminator, A, C, <<"-", "-", "v", "a">>}, 3))

\* The second context has nothing to do, or scans in permuting or in strict
\* order next to a few scans of the first.
Idle == JobsFor("sgetopt", "", FALSE, {<<>>})
Some == JobsFor("long", "", FALSE, Lines({Operand1, A}, 3)) \cup JobsFor("long", "+", FALSE, {<<A, Operand1>>})
Few  == JobsFor("long", "", FALSE, {<<Operand1, A>>}) \cup JobsFor("sgetopt", "+", FALSE, {<<A, Operand1, A>>})

TheJobs == {(c1 :> j) @@ (c2 :> k) : j \in Many, k \in Idle}
           \cup {(c1 :> j) @@ (c2 :> k) : j \in Some, k \in Few}
================================================================================
