----------------------------- MODULE OptionStream -----------------------------
(***************************************************************************)
(* What scans with sgetopt promise their callers: the words of a command   *)
(* line are read once, from left to right, as if nothing were permuted,    *)
(* and no scan is any concern of another.                                  *)
(***************************************************************************)
EXTENDS OptionWords

CONSTANT Ctx  \* the contexts

VARIABLES     \* of each context:
  job,   \* what its caller asks for
  todo,  \* the words not read yet
  rest,  \* what is left of the word that is being read
  aside, \* the operands passed over; at the end, what the caller finds
  said,  \* the result of the last call
  ended  \* the scan has ended

vars == <<job, todo, rest, aside, said, ended>>

Init ==
  /\ todo = [c \in Ctx |-> <<>>] /\ rest = [c \in Ctx |-> <<>>]
  /\ aside = [c \in Ctx |-> <<>>] /\ said = [c \in Ctx |-> Nothing]
  /\ ended = [c \in Ctx |-> TRUE]

\* The words are the caller's, or for a second scan what the first has made of
\* the caller's argv.
Begin(c) == ended[c] /\ ~ended'[c] /\ rest'[c] = <<>> /\ aside'[c] = <<>>

Forget(c) ==
  /\ todo'[c] = <<>> /\ rest'[c] = <<>> /\ aside'[c] = <<>>
  /\ said'[c] = Nothing /\ ended'[c]

\* The caller has seen the result.
Note(c) ==
  /\ said'[c] = Nothing
  /\ UNCHANGED <<todo[c], rest[c], aside[c], ended[c]>>

Permutes(c) == job[c].prefix = ""

\* The first n words to do are operands to pass over before the next option.
Passes(c, n) ==
  /\ \A i \in 1..n : ~IsOption(todo[c][i])
  /\ n > 0 => Permutes(c) /\ rest[c] = <<>>
  /\ aside'[c] = aside[c] \o SubSeq(todo[c], 1, n)

After(c, n) == SubSeq(todo[c], n + 1, Len(todo[c]))

\* All operands passed over, or a terminator, or in strict order an operand.
End(c) ==
  /\ ~ended[c] /\ rest[c] = <<>>
  /\ \E n \in 0 .. Len(todo[c]) :
       /\ \A i \in 1..n : Permutes(c) /\ ~IsOption(todo[c][i])
       /\ \/ n = Len(todo[c]) /\ aside'[c] = aside[c] \o todo[c]
          \/ /\ n < Len(todo[c]) /\ todo[c][n + 1] = Terminator
             /\ aside'[c] = aside[c] \o SubSeq(todo[c], 1, n) \o After(c, n + 1)
          \/ /\ n < Len(todo[c]) /\ ~IsOption(todo[c][n + 1]) /\ job[c].prefix = "+"
             /\ aside'[c] = todo[c]
  /\ said'[c] = Result("EOF", NoArg, NoArg)
  /\ ended'[c] /\ todo'[c] = <<>> /\ rest'[c] = <<>>

Operand(c) ==
  /\ ~ended[c] /\ rest[c] = <<>> /\ job[c].prefix = "-"
  /\ todo[c] # <<>> /\ ~IsOption(Head(todo[c]))
  /\ said'[c] = Result("operand", NoArg, Head(todo[c]))
  /\ todo'[c] = Tail(todo[c])
  /\ UNCHANGED <<rest[c], aside[c], ended[c]>>

Missing(c) == IF job[c].colon THEN ":" ELSE "?"

\* The argument is the next word, which the option takes with it.  Of an option
\* that lacks its argument the caller is told the character, but not the name.
NextWord(c, left, opt, blamed) ==
  \/ /\ left # <<>> /\ todo'[c] = Tail(left)
     /\ said'[c] = Result("option", opt, Head(left))
  \/ left = <<>> /\ todo'[c] = left /\ said'[c] = Result(Missing(c), blamed, NoArg)

Letter(c, text, left) ==
  LET opt == Head(text)
      more == Tail(text)
      takes == IF opt \in DOMAIN job[c].short THEN job[c].short[opt] ELSE -1
  IN  \/ /\ takes <= 0 /\ todo'[c] = left /\ rest'[c] = more
         /\ said'[c] = Result(IF takes = 0 THEN "option" ELSE "?", <<opt>>, NoArg)
      \/ /\ takes > 0 /\ more # <<>> /\ todo'[c] = left /\ rest'[c] = <<>>
         /\ said'[c] = Result("option", <<opt>>, more)
      \/ /\ takes = 2 /\ more = <<>> /\ todo'[c] = left /\ rest'[c] = <<>>
         /\ said'[c] = Result("option", <<opt>>, NoArg)
      \/ takes = 1 /\ more = <<>> /\ rest'[c] = <<>> /\ NextWord(c, left, <<opt>>, <<opt>>)

Word(c, text, left) ==
  LET meant == Meant(job[c], text)
  IN  /\ rest'[c] = <<>>
      /\ \/ /\ Cardinality(meant) # 1 /\ todo'[c] = left
            /\ said'[c] = Result("?", NoArg, NoArg)
         \/ \E p \in meant :
              /\ meant = {p}
              /\ \/ /\ HasValue(text) /\ todo'[c] = left
                    /\ said'[c] = IF p.has_arg THEN Result("option", p.name, ValueIn(text))
                                               ELSE Result("?", NoArg, NoArg)
                 \/ /\ ~HasValue(text) /\ ~p.has_arg /\ todo'[c] = left
                    /\ said'[c] = Result("option", p.name, NoArg)
                 \/ ~HasValue(text) /\ p.has_arg /\ NextWord(c, left, p.name, NoArg)

\* A word after one dash is a long option where both are allowed and it is not
\* an option character alone nor a group of them.
Long(c, word) ==
  \/ job[c].entry # "sgetopt" /\ word[2] = "-"
  \/ /\ job[c].entry = "long_only"
     /\ \/ Meant(job[c], Tail(word)) # {} /\ (Len(word) > 2 \/ ~InOptstring(job[c], word[2]))
        \/ ~InOptstring(job[c], word[2])

\* So is what is left of a group: its next characters may be a name, or none.
LongRest(c, text) ==
  job[c].entry = "long_only" /\ (Meant(job[c], text) # {} \/ ~InOptstring(job[c], Head(text)))

Option(c) ==
  /\ ~ended[c] /\ UNCHANGED ended[c]
  /\ \/ /\ rest[c] # <<>> /\ UNCHANGED aside[c]
        /\ IF LongRest(c, rest[c]) THEN Word(c, rest[c], todo[c]) ELSE Letter(c, rest[c], todo[c])
     \/ /\ rest[c] = <<>>
        /\ \E n \in 0 .. Len(todo[c]) - 1 :
             LET word == todo[c][n + 1]
             IN  /\ IsOption(word) /\ word # Terminator
                 /\ Passes(c, n)
                 /\ IF Long(c, word)
                    THEN Word(c, SubSeq(word, IF word[2] = "-" THEN 3 ELSE 2, Len(word)),
                              After(c, n + 1))
                    ELSE Letter(c, Tail(word), After(c, n + 1))

Only(v, w, c) == w = [v EXCEPT ![c] = w[c]]

Next == \E c \in Ctx :
  /\ Begin(c) \/ Forget(c) \/ Note(c) \/ End(c) \/ Operand(c) \/ Option(c)
  /\ UNCHANGED job
  /\ Only(todo, todo', c) /\ Only(rest, rest', c) /\ Only(aside, aside', c)
  /\ Only(said, said', c) /\ Only(ended, ended', c)

Spec == Init /\ [][Next]_vars
================================================================================
