--------------------------------- MODULE Getopt ---------------------------------
(***************************************************************************)
(* The option parser (src/getopt/libsrc/sgetopt.cpp).  Each context is     *)
(* scanned by calls that share nothing with other contexts but `ordering', *)
(* a static variable of the file.  argv holds pointers, modelled as the    *)
(* positions of the words in the caller's command line; nextchar is the    *)
(* text it points at, with NULL and the empty text both <<>>, as the code  *)
(* tests them together.  What goes into errmsg is left out.                *)
(***************************************************************************)
EXTENDS OptionWords, FiniteSetsExt

CONSTANTS
  Ctx,    \* contexts, each used by one caller
  Jobs,   \* the jobs of all contexts: functions from Ctx to jobs
  Calls   \* what callers do that the parser is not made for (see Heeds)

\* What a caller passes: a name of the program at least, and words without
\* NULs; the option characters of optstring have up to two colons, and none of
\* them is a colon itself.
ASSUME JobsAssumption ==
  \A jobs \in Jobs : \A c \in Ctx :
    LET j == jobs[c]
    IN  /\ j.words \in Seq(Seq(STRING)) /\ j.words # <<>>
        /\ \A i \in DOMAIN j.words : "" \notin Range(j.words[i])
        /\ j.prefix \in {"", "-", "+"} /\ ":" \notin DOMAIN j.short
        /\ \A ch \in DOMAIN j.short : j.short[ch] \in 0 .. 2

VARIABLES
  ordering, \* the static variable
  stage,    \* of each context: "None", "Scanning", or "Ended" by EOF
  job,      \* of each context: what its caller passes (see OptionWords)
  argv,     \* of each context: the permuted pointers
  si,       \* of each context: sgetopt_ctx
  said,     \* of each context: what the last call told its caller
  rescanned \* of each context: its command line is scanned again

vars == <<ordering, stage, job, argv, si, said, rescanned>>

Orderings == {"REQUIRE_ORDER", "PERMUTE", "RETURN_IN_ORDER"}

OrderingOf(prefix) == CASE prefix = "-" -> "RETURN_IN_ORDER"
                        [] prefix = "+" -> "REQUIRE_ORDER"
                        [] OTHER -> "PERMUTE"

Zeroed == [optind |-> 0, optopt |-> NoArg, nextchar |-> <<>>, first |-> 0, last |-> 0]

Given(j) == [i \in 0 .. Len(j.words) - 1 |-> i + 1]
Argc(c) == Len(job[c].words)
WordAt(c, a, i) == job[c].words[a[i]]

--------------------------------------------------------------------------------
(***************************************************************************)
(* exchange(): two adjacent runs of pointers change places, by swapping    *)
(* the shorter one with the far end of the longer until one is used up.    *)
(* s is what a call works on: the context's fields and its argv.           *)
(***************************************************************************)
SwapRuns(a, p, q, n) ==
  [i \in DOMAIN a |-> IF i \in p .. p + n - 1 THEN a[q + i - p]
                      ELSE IF i \in q .. q + n - 1 THEN a[p + i - q] ELSE a[i]]

\* Mutation: the shorter run at the bottom goes to the near end.
SwappedNear(r) ==
  LET low == r.middle - r.bottom
      high == r.top - r.middle
  IN  IF ~(r.top > r.middle /\ r.middle > r.bottom) THEN r
      ELSE IF high > low
           THEN [r EXCEPT !.argv = SwapRuns(r.argv, r.bottom, r.middle, low),
                          !.top = r.top - low]
           ELSE [r EXCEPT !.argv = SwapRuns(r.argv, r.bottom, r.middle, high),
                          !.bottom = r.bottom + high]

\* A round of the loop on what it works on: r.argv from r.bottom to r.top.
Swapped(r) ==
  LET low == r.middle - r.bottom
      high == r.top - r.middle
  IN  IF ~(r.top > r.middle /\ r.middle > r.bottom) THEN r
      ELSE IF high > low
           THEN [r EXCEPT !.argv = SwapRuns(r.argv, r.bottom, r.top - low, low),
                          !.top = r.top - low]
           ELSE [r EXCEPT !.argv = SwapRuns(r.argv, r.bottom, r.middle, high),
                          !.bottom = r.bottom + high]

\* Each round settles one cell at least.
Rotated(a, bottom, middle, top) ==
  LET round[n \in 0 .. top - bottom] ==
        IF n = 0 THEN [argv |-> a, bottom |-> bottom, middle |-> middle, top |-> top]
        ELSE Swapped(round[n - 1])
  IN  round[top - bottom].argv

Exchange(s) ==
  [s EXCEPT !.argv = Rotated(s.argv, s.first, s.last, s.optind),
            !.first = s.first + (s.optind - s.last),
            !.last = s.optind]

\* _sgetopt_initialize()
Initialized(s) == [s EXCEPT !.optind = 1, !.first = 1, !.last = 1, !.nextchar = <<>>]

\* The first word from optind on that is an option, the operands before it
\* added to those skipped so far, which come after the options since.
PassOver(c, s) ==
  LET gathered == IF s.first # s.last /\ s.last # s.optind THEN Exchange(s)
                  ELSE IF s.last # s.optind THEN [s EXCEPT !.first = s.optind] ELSE s
      stop == Min({i \in s.optind .. Argc(c) :
                     i = Argc(c) \/ IsOption(WordAt(c, gathered.argv, i))})
  IN  [gathered EXCEPT !.optind = stop, !.last = stop]

\* Mutation: the operands skipped are left before "--".
TerminatedInPlace(c, s) ==
  [s EXCEPT !.first = IF s.first = s.last THEN s.optind + 1 ELSE s.first,
            !.last = Argc(c), !.optind = Argc(c)]

\* The word "--" goes before the operands skipped, all words after it to them.
Terminated(c, s) ==
  LET past == [s EXCEPT !.optind = s.optind + 1]
      gathered == IF s.first # s.last /\ s.last # past.optind THEN Exchange(past)
                  ELSE IF s.first = s.last THEN [past EXCEPT !.first = past.optind]
                  ELSE past
  IN  [gathered EXCEPT !.last = Argc(c), !.optind = Argc(c)]

\* What the call goes by: the static variable, which its first call has set.
Fresh(c) == si[c].optind = 0
Mode(c) == IF Fresh(c) THEN OrderingOf(job[c].prefix) ELSE ordering

Entered(c) ==
  LET s == [argv |-> argv[c], optind |-> si[c].optind, optopt |-> si[c].optopt,
            nextchar |-> si[c].nextchar, first |-> si[c].first, last |-> si[c].last]
  IN  IF Fresh(c) THEN Initialized(s) ELSE s

\* Where the call stands when it has decided which word it is about.
Reached(c) ==
  LET s == Entered(c)
      passed == IF Mode(c) = "PERMUTE" THEN PassOver(c, s) ELSE s
  IN  IF s.nextchar # <<>> THEN s
      ELSE IF passed.optind # Argc(c) /\ WordAt(c, passed.argv, passed.optind) = Terminator
           THEN Terminated(c, passed) ELSE passed
--------------------------------------------------------------------------------
\* Which callers the parser serves.  A caller without the call on the left
\*   "Mix"    begins no scan while one with another ordering is under way;
\*   "Again"  does not call again after EOF, unless to scan anew;
\*   "Keep"   sets optopt to 0 when it has read it, as demo.cpp does.
Heeds(call) == call \notin Calls

Alone(c) ==
  \A d \in Ctx : stage[d] = "Scanning" => OrderingOf(job[d].prefix) = OrderingOf(job[c].prefix)

\* sgetopt_ctx_create() and sgetopt_ctx_delete().  What is created next has a
\* cleared context, and argv as it was given.
Create(c) ==
  /\ stage[c] = "None"
  /\ Heeds("Mix") => Alone(c)
  /\ stage' = [stage EXCEPT ![c] = "Scanning"]
  /\ UNCHANGED <<ordering, job, argv, si, said, rescanned>>

Delete(c) ==
  /\ stage[c] = "Ended"
  /\ stage' = [stage EXCEPT ![c] = "None"]
  /\ said' = [said EXCEPT ![c] = Nothing]
  /\ rescanned' = [rescanned EXCEPT ![c] = FALSE]
  /\ si' = [si EXCEPT ![c] = Zeroed]
  /\ argv' = [argv EXCEPT ![c] = Given(job[c])]
  /\ UNCHANGED <<ordering, job>>

\* The caller scans the same argv again, as it was left: it sets optind to 0.
Rescan(c) ==
  /\ stage[c] = "Ended" /\ ~rescanned[c]
  /\ Heeds("Mix") => Alone(c)
  /\ stage' = [stage EXCEPT ![c] = "Scanning"]
  /\ si' = [si EXCEPT ![c].optind = 0]
  /\ rescanned' = [rescanned EXCEPT ![c] = TRUE]
  /\ UNCHANGED <<ordering, job, argv, said>>

\* The caller has read which option character was wrong.
ClearOptopt(c) ==
  /\ stage[c] = "Scanning" /\ si[c].optopt # NoArg
  /\ si' = [si EXCEPT ![c].optopt = NoArg]
  /\ said' = [said EXCEPT ![c] = Nothing]
  /\ UNCHANGED <<ordering, stage, job, argv, rescanned>>

--------------------------------------------------------------------------------
\* The call returns: it has used n more words, and of the last one there is
\* `rest' to decode by the next call.
Returns(c, s, n, rest, result) ==
  /\ argv' = [argv EXCEPT ![c] = s.argv]
  /\ si' = [si EXCEPT ![c] =
       [optind |-> s.optind + n, nextchar |-> rest, first |-> s.first, last |-> s.last,
        optopt |-> IF result.code \in {"?", ":"} /\ result.opt # NoArg
                   THEN result.opt ELSE s.optopt]]
  /\ said' = [said EXCEPT ![c] = result]
  /\ ordering' = Mode(c)
  /\ UNCHANGED <<job, rescanned>>

Calling(c) ==
  /\ stage[c] = "Scanning" \/ (stage[c] = "Ended" /\ ~Heeds("Again"))
  /\ si[c].optopt = NoArg \/ ~Heeds("Keep")

AtOption(c, s) ==
  s.nextchar # <<>> \/ (s.optind < Argc(c) /\ IsOption(WordAt(c, s.argv, s.optind)))

EndOfScan(c) ==
  LET s == Reached(c)
      atEnd == s.optind = Argc(c)
  IN  /\ Calling(c) /\ ~AtOption(c, s)
      /\ atEnd \/ Mode(c) = "REQUIRE_ORDER"
      /\ stage' = [stage EXCEPT ![c] = "Ended"]
      /\ Returns(c, [s EXCEPT !.optind = IF atEnd /\ s.first # s.last THEN s.first ELSE s.optind],
                 0, s.nextchar, Result("EOF", NoArg, NoArg))

NonOption(c) ==
  LET s == Reached(c)
  IN  /\ Calling(c) /\ ~AtOption(c, s)
      /\ s.optind # Argc(c) /\ Mode(c) # "REQUIRE_ORDER"
      /\ Returns(c, s, 1, s.nextchar, Result("operand", NoArg, WordAt(c, s.argv, s.optind)))
      /\ UNCHANGED stage

\* The text to decode: what is left of a word, or a word after its dashes.
Text(c, s) ==
  LET word == WordAt(c, s.argv, s.optind)
      dashes == IF job[c].entry # "sgetopt" /\ word[2] = "-" THEN 2 ELSE 1
  IN  IF s.nextchar # <<>> THEN s.nextchar ELSE SubSeq(word, dashes + 1, Len(word))

\* How many colons follow an option character in optstring, -1 for a character
\* that is none.  The prefix is skipped by the first call of a scan only.
Takes(c, ch) ==
  IF ch = job[c].prefix /\ ~Fresh(c) THEN IF job[c].colon THEN 1 ELSE 0
  ELSE IF ch \in DOMAIN job[c].short THEN job[c].short[ch] ELSE -1

\* optstring contains the character.
Known(c, ch) == (ch = job[c].prefix /\ ~Fresh(c)) \/ InOptstring(job[c], ch)

Missing(c) ==
  IF job[c].colon /\ (Fresh(c) \/ job[c].prefix = "") THEN ":" ELSE "?"

\* May the word be a long option, and if it means none, is it an error?
LongForm(c, word) ==
  \/ job[c].entry # "sgetopt" /\ word[2] = "-"
  \/ job[c].entry = "long_only" /\ (Len(word) > 2 \/ ~Known(c, word[2]))

MustBeLong(c, word, text) ==
  job[c].entry # "long_only" \/ word[2] = "-" \/ ~Known(c, Head(text))

\* Mutation: an error leaves optind at the word.
RefusesInPlace(c, s, code) == Returns(c, s, 0, <<>>, Result(code, NoArg, NoArg))

Refuses(c, s, code) == Returns(c, s, 1, <<>>, Result(code, NoArg, NoArg))

LongOption(c) ==
  LET s == Reached(c)
      word == WordAt(c, s.argv, s.optind)
      text == Text(c, s)
      meant == Meant(job[c], text)
      Taken(n, p, arg) == Returns(c, s, n, <<>>, Result("option", p.name, arg))
  IN  /\ Calling(c) /\ AtOption(c, s) /\ LongForm(c, word)
      /\ UNCHANGED stage
      /\ \/ Cardinality(meant) > 1 /\ Refuses(c, s, "?")
         \/ meant = {} /\ MustBeLong(c, word, text) /\ Refuses(c, s, "?")
         \/ \E p \in meant :
              /\ meant = {p}
              /\ \/ HasValue(text) /\ p.has_arg /\ Taken(1, p, ValueIn(text))
                 \/ HasValue(text) /\ ~p.has_arg /\ Refuses(c, s, "?")
                 \/ ~HasValue(text) /\ ~p.has_arg /\ Taken(1, p, NoArg)
                 \/ /\ ~HasValue(text) /\ p.has_arg /\ s.optind + 1 < Argc(c)
                    /\ Taken(2, p, WordAt(c, s.argv, s.optind + 1))
                 \/ /\ ~HasValue(text) /\ p.has_arg /\ s.optind + 1 >= Argc(c)
                    /\ Refuses(c, s, Missing(c))

\* A word is used up with its last character, or when the rest is an argument.
WordsUsed(more, takes) == IF more = <<>> \/ takes > 0 THEN 1 ELSE 0

ShortOption(c) ==
  LET s == Reached(c)
      word == WordAt(c, s.argv, s.optind)
      text == Text(c, s)
      opt == Head(text)
      more == Tail(text)
      takes == Takes(c, opt)
      used == WordsUsed(more, takes)
  IN  /\ Calling(c) /\ AtOption(c, s)
      /\ LongForm(c, word) => Meant(job[c], text) = {} /\ ~MustBeLong(c, word, text)
      /\ UNCHANGED stage
      /\ \/ takes = -1 /\ Returns(c, s, used, more, Result("?", <<opt>>, NoArg))
         \/ takes = 0 /\ Returns(c, s, used, more, Result("option", <<opt>>, NoArg))
         \/ takes > 0 /\ more # <<>> /\ Returns(c, s, used, <<>>, Result("option", <<opt>>, more))
         \/ takes = 2 /\ more = <<>> /\ Returns(c, s, used, <<>>, Result("option", <<opt>>, NoArg))
         \/ /\ takes = 1 /\ more = <<>> /\ s.optind + 1 = Argc(c)
            /\ Returns(c, s, 1, <<>>, Result(Missing(c), <<opt>>, NoArg))
         \/ /\ takes = 1 /\ more = <<>> /\ s.optind + 1 < Argc(c)
            /\ Returns(c, s, 2, <<>>, Result("option", <<opt>>, WordAt(c, s.argv, s.optind + 1)))
--------------------------------------------------------------------------------
Init ==
  /\ ordering = "REQUIRE_ORDER"
  /\ stage = [c \in Ctx |-> "None"]
  /\ job \in Jobs
  /\ argv = [c \in Ctx |-> Given(job[c])]
  /\ si = [c \in Ctx |-> Zeroed]
  /\ said = [c \in Ctx |-> Nothing]
  /\ rescanned = [c \in Ctx |-> FALSE]

Next == \E c \in Ctx :
  \/ Create(c) \/ Delete(c) \/ Rescan(c) \/ ClearOptopt(c)
  \/ EndOfScan(c) \/ NonOption(c) \/ LongOption(c) \/ ShortOption(c)

Spec == Init /\ [][Next]_vars

--------------------------------------------------------------------------------
(***************************************************************************)
(* Properties.                                                             *)
(***************************************************************************)
TypeOK ==
  /\ ordering \in Orderings
  /\ \A c \in Ctx :
       /\ stage[c] \in {"None", "Scanning", "Ended"} /\ rescanned[c] \in BOOLEAN
       /\ argv[c] \in [0 .. Argc(c) - 1 -> 1 .. Argc(c)]
       /\ Fresh(c) \/ /\ si[c].optind \in 1 .. Argc(c)
                      /\ 1 <= si[c].first /\ si[c].first <= si[c].last
                      /\ si[c].last <= Argc(c)
       /\ si[c].nextchar # <<>> => si[c].optind < Argc(c)

\* Permuting loses no word and doubles none, and in the end the options with
\* their arguments, before optind, and the operands, from optind on, are each
\* in the order in which they were given.  They stay so when the line is scanned
\* again, with what the scan before has left in the context.
InOrder(a, from, to) == \A i, k \in from .. to : i < k => a[i] < a[k]
Split(c, at) == InOrder(argv[c], 0, at - 1) /\ InOrder(argv[c], at, Argc(c) - 1)

StableSplit ==
  /\ TypeOK
  /\ \A c \in Ctx :
       /\ {argv[c][i] : i \in DOMAIN argv[c]} = 1 .. Argc(c)
       /\ stage[c] = "Ended" /\ ~rescanned[c] => Split(c, si[c].optind)
       /\ rescanned[c] => \E at \in 0 .. Argc(c) : Split(c, at)

\* After a '?' the caller can tell what was wrong the way demo.cpp does: from
\* optopt a character that is no option or lacks its argument, else from the
\* word before optind a long option that cannot be used as it is.
Unusable(c, word) ==
  LET text == SubSeq(word, IF word[2] = "-" THEN 3 ELSE 2, Len(word))
  IN  ~\E p \in Meant(job[c], text) :
         /\ Meant(job[c], text) = {p}
         /\ HasValue(text) => p.has_arg
         /\ p.has_arg /\ ~HasValue(text) => si[c].optind < Argc(c)

ErrorNamed ==
  \A c \in Ctx : said[c].code \in {"?", ":"} =>
    LET opt == si[c].optopt
        word == WordAt(c, argv[c], si[c].optind - 1)
    IN  IF opt = NoArg THEN IsOption(word) /\ Unusable(c, word)
        ELSE opt[1] \in DOMAIN job[c].short =>
           job[c].short[opt[1]] = 1 /\ si[c].optind = Argc(c)

\* Every scan comes to its end: a call that does not say EOF goes on to a later
\* word, or further into the word it is reading.
ScanAdvances ==
  [][\A c \in Ctx :
       NonOption(c) \/ LongOption(c) \/ ShortOption(c) =>
         LET before == si[c]
             after == si'[c]
         IN  \/ after.optind > before.optind
             \/ /\ after.optind = before.optind /\ after.nextchar # <<>>
                /\ before.nextchar = <<>> \/ Len(after.nextchar) < Len(before.nextchar)]_vars

\* To its caller a scan reads the words from left to right, each of them once
\* and by the caller's own ordering, whatever another context is doing.
Words(c, from) == [i \in 1 .. Argc(c) - from |-> WordAt(c, argv[c], from + i - 1)]

Todo(c) ==
  IF stage[c] # "Scanning" THEN <<>>
  ELSE Words(c, IF Fresh(c) THEN 1
                ELSE IF si[c].nextchar = <<>> THEN si[c].optind ELSE si[c].optind + 1)

Aside(c) ==
  IF stage[c] = "None" \/ (stage[c] = "Scanning" /\ Fresh(c)) THEN <<>>
  ELSE IF stage[c] = "Ended" THEN Words(c, si[c].optind)
  ELSE SubSeq(Words(c, si[c].first), 1, si[c].last - si[c].first)

Streams ==
  INSTANCE OptionStream WITH
    todo <- [c \in Ctx |-> Todo(c)], rest <- [c \in Ctx |-> si[c].nextchar],
    aside <- [c \in Ctx |-> Aside(c)], ended <- [c \in Ctx |-> stage[c] # "Scanning"]

ImplementsOptionStream == Streams!Spec
================================================================================
