------------------------------ MODULE OptionWords ------------------------------
(***************************************************************************)
(* How the words of a command line read, for sgetopt.cpp and for what it   *)
(* promises alike.  A word is a sequence of characters; a job is what a    *)
(* caller passes to every call of one scan:                                *)
(*   entry     the function called: "sgetopt", "long" or "long_only"       *)
(*   prefix    the first character of optstring if it is "-" or "+"        *)
(*   colon     optstring (after the prefix) starts with a colon            *)
(*   short     for each option character how many colons follow it         *)
(*   longopts  the long options: [name, has_arg]                           *)
(*   words     the words of argv                                           *)
(***************************************************************************)
EXTENDS Integers, Sequences, FiniteSets, SequencesExt

\* No argument, no option character: NULL and 0 in the code.
NoArg == <<>>

Result(code, opt, optarg) == [code |-> code, opt |-> opt, optarg |-> optarg]
Nothing == Result("none", NoArg, NoArg)

Terminator == <<"-", "-">>

\* optstring contains the character: it is an option's, or one of the colons.
InOptstring(job, ch) ==
  \/ ch \in DOMAIN job.short
  \/ ch = ":" /\ (job.colon \/ \E opt \in DOMAIN job.short : job.short[opt] > 0)

\* A word that starts with a dash and is more than a dash.
IsOption(word) == Len(word) >= 2 /\ word[1] = "-"

\* What is before the first "=", and whether there is one.
HasValue(text) == \E i \in DOMAIN text : text[i] = "="
ValueAt(text) == CHOOSE i \in DOMAIN text :
                    text[i] = "=" /\ \A k \in 1 .. i - 1 : text[k] # "="
NameIn(text) == IF HasValue(text) THEN SubSeq(text, 1, ValueAt(text) - 1) ELSE text
ValueIn(text) == SubSeq(text, ValueAt(text) + 1, Len(text))

\* The long options a text may stand for: the one it names, or else those it
\* abbreviates.
Meant(job, text) ==
  LET begun == {p \in job.longopts : IsPrefix(NameIn(text), p.name)}
      named == {p \in begun : p.name = NameIn(text)}
  IN  IF named # {} THEN named ELSE begun
================================================================================
