---------------------------- MODULE MCSnprintf ----------------------------
(***************************************************************************)
(* What clients print, in buffers of every size around the text's length.  *)
(***************************************************************************)
EXTENDS Snprintf

Lit(t) == [kind |-> "lit", text |-> t]
Str(t, w, left, zero, prec) ==
  [kind |-> "str", text |-> t, width |-> w, left |-> left, zero |-> zero, prec |-> prec]
Num(conv, neg, v, w, left, zero, sign, alt, prec) ==
  [kind |-> "num", conv |-> conv, neg |-> neg, value |-> v, zeroval |-> v = 0, width |-> w,
   left |-> left, zero |-> zero, sign |-> sign, alt |-> alt, prec |-> prec]
Flt(neg, whole, frac, w, left, sign, prec) ==
  [kind |-> "num", conv |-> "f", neg |-> neg, whole |-> whole, frac |-> frac,
   zeroval |-> whole = <<"0">> /\ frac = <<>>, value |-> 0, width |-> w, left |-> left,
   zero |-> TRUE, sign |-> sign, alt |-> FALSE, prec |-> prec]
SetText(conv, t) == [kind |-> "set", conv |-> conv, text |-> t]
SetWidth(v) == [kind |-> "set", conv |-> "_", value |-> v]
Ruler(conv, w, prec, columns) ==
  [kind |-> "set", conv |-> conv, width |-> w, prec |-> prec, columns |-> columns]
Address(w, prec, v) == [kind |-> "set", conv |-> "v", width |-> w, prec |-> prec, value |-> v]
Rep(t, n) == [kind |-> "n", text |-> t, width |-> n]
Dump(n, group) == [kind |-> "m", n |-> n, group |-> group]
With(id, fmt) == [kind |-> "w", id |-> id, fmt |-> fmt]
Func(fmts) == [kind |-> "F", fmts |-> fmts]

Printed(fmt, size) == [api |-> "snprintf", size |-> size, fmts |-> <<fmt>>, dest |-> <<>>]

\* Every combination of flags, width and precision of a small integer and of zero.
Integers ==
  {Num(conv, FALSE, v, w, left, zero, sign, alt, prec) :
     conv \in {"d", "u", "x", "o"}, v \in {0, 10, 123}, w \in {0, 5}, left \in BOOLEAN,
     zero \in BOOLEAN, sign \in {"none", "plus"}, alt \in BOOLEAN, prec \in {NoPrec, 0, 4}}
  \cup {Num("d", TRUE, 12, w, left, zero, sign, FALSE, prec) :
     w \in {0, 5}, left \in BOOLEAN, zero \in BOOLEAN, sign \in {"none", "space"},
     prec \in {NoPrec, 0, 4}}

\* The same through separators, %D and %U.
Separated == {Num(conv, FALSE, v, w, FALSE, zero, "none", FALSE, prec) :
     conv \in {"d", "U", "D", "u"}, v \in {0, 999, 1234}, w \in {0, 7}, zero \in BOOLEAN,
     prec \in {NoPrec, 5}}
Separators == {SetText("t", <<>>), SetText("t", <<".">>)}
Grouped == {<<SetWidth(gw), sep, SetText("T", <<",">>), num>> :
              gw \in {2, 3}, sep \in Separators, num \in Separated}

\* Floats: a value with a fraction, one without, both zeros.  A zero with a precision
\* of 0 is left out: the code prints nothing for it.
Floats ==
  {f \in {Flt(neg, v[1], v[2], w, left, sign, prec) :
            neg \in BOOLEAN, v \in {<<<<"0">>, <<>>>>, <<<<"1">>, <<"5">>>>, <<<<"1", "0">>, <<>>>>},
            w \in {0, 7}, left \in BOOLEAN, sign \in {"none", "plus", "space"},
            prec \in {NoPrec, 0, 2, -2}} :
     ~ (f.zeroval /\ f.prec = 0)}

Texts == {Str(t, w, left, zero, prec) : t \in {<<>>, <<"a", "b", "Q">>}, w \in {0, 4},
            left \in BOOLEAN, zero \in BOOLEAN, prec \in {NoPrec, 0, 2, -2}}

\* Dumps: groups of 1, 2 and 4 bytes either way round, 1 to 5 columns, skipped columns.
Rulers == {Ruler(conv, w, skip, columns) :
             conv \in {"r", "R"}, w \in {0, 1}, skip \in {NoPrec, 1, 2}, columns \in {0, 1, 3, 5}}
Addresses == {Address(1, prec, v) : prec \in {NoPrec, 0, 3}, v \in {2, 14}}
ByteDumps == {Dump(n, g) : n \in {0, 1, 5, 7}, g \in {0, 2, -4}}
Brackets == <<SetText("k", <<"-">>), SetText("K", <<"<", ">">>)>>
Dumps == {Brackets \o <<ruler, address, dump>> :
            ruler \in Rulers, address \in Addresses, dump \in ByteDumps}

a3 == Num("d", TRUE, 12, 5, FALSE, TRUE, "none", FALSE, NoPrec)
\* Formats within formats, and functions that print.
Nested ==
  LET in1 == <<Lit(<<"a">>), a3>>
      in2 == <<Str(<<"b">>, 2, TRUE, FALSE, NoPrec), With("i", in1), Lit(<<"Q">>)>>
  IN {<<Lit(<<"a", "b">>), With("w", in2), a3>>,
      <<Func(<<in1, in2>>), Rep(<<"a", "b">>, 2), With("w", in1)>>,
      <<With("w", <<Func(<<in1>>), Func(<<>>)>>), Rep(<<>>, 2), Func(<<in1>>), Lit(<<"b">>)>>,
      <<SetText("t", <<".">>), With("w", <<Dump(2, 0)>>), Dump(0, 0), Dump(1, 0)>>}

Sizes == {0, 1, 2, 3, 5, 6, 8, 11, 14, 17, 20}
NoArgs == <<Lit(<<"a">>), With("w", <<Lit(<<"b", "Q">>)>>)>>

CallsMade ==
  {Printed(<<i>>, size) : i \in Integers \cup Floats \cup Texts, size \in {0, 3, 9}}
  \cup {Printed(f, size) : f \in Grouped, size \in {4, 20}}
  \cup {Printed(f, 20) : f \in Dumps}
  \cup {Printed(f, size) : f \in Nested, size \in Sizes}
  \cup {[api |-> "snprintf", size |-> size, dest |-> <<>>,
         fmts |-> <<<<Lit(<<"a">>)>>, <<a3>>, <<>>, <<Lit(<<"b", "Q">>)>>>>] : size \in Sizes}
  \cup {[api |-> "Strcat", size |-> size, dest |-> <<"a", "b">>, fmts |-> <<f>>] :
         f \in Nested, size \in Sizes \ (0 .. 2)}
  \cup {[api |-> "asprintf", size |-> 0, dest |-> <<>>, fmts |-> <<f>>] :
         f \in {<<a3, Rep(<<"a", "b">>, 2)>>, NoArgs, <<Func(<<NoArgs, NoArgs>>), a3>>, <<>>}}
  \cup {[api |-> "asnprintf", size |-> size, dest |-> <<>>, fmts |-> <<f>>] :
         f \in {<<a3, Rep(<<"a", "b">>, 2)>>, NoArgs}, size \in Sizes}

\* A format with arguments within one whose length is measured first.
MeasuredFmt == <<With("w", <<Num("d", FALSE, 10, 0, FALSE, FALSE, "none", FALSE, NoPrec)>>)>>
MeasuredNest == {[api |-> "asprintf", size |-> 0, dest |-> <<>>, fmts |-> <<MeasuredFmt>>]}

\* The items of these formats, and of the formats within them.
Within(items) ==
  items \cup UNION {ToSet(i.fmt) : i \in {k \in items : k.kind = "w"}}
        \cup UNION {ToSet(FlattenSeq(i.fmts)) : i \in {k \in items : k.kind = "F"}}
ItemsUsed ==
  LET nesting == UNION {ToSet(fmt) : fmt \in Nested \cup {NoArgs, <<Func(<<NoArgs, NoArgs>>)>>, MeasuredFmt}}
  IN Integers \cup Floats \cup Texts
       \cup Separated \cup Separators \cup {SetWidth(2), SetWidth(3), SetText("T", <<",">>)}
       \cup ToSet(Brackets) \cup Rulers \cup Addresses \cup ByteDumps
       \cup Within(Within(nesting))

=============================================================================
