---------------------------- MODULE Snprintf ----------------------------
(***************************************************************************)
(* mm_vsnprintf_v7() of mm_snprintf.cpp and the calls built on it.         *)
(*                                                                         *)
(* Every character of the result goes two ways: ctipack_output() tells the *)
(* caller's callback of it, piece by piece, and as much of it as there is  *)
(* room for is written to the caller's buffer.  `stream' is what the       *)
(* callback is told, `mem' the memory at the buffer, cells beyond it       *)
(* included.  A format is a sequence of items: literal text, settings,     *)
(* conversions, byte dumps, and two items that run the formatter again     *)
(* before this one goes on: %w with another format, %F with a function of  *)
(* the caller's.  `stack' holds the calls under way, the innermost first.  *)
(***************************************************************************)
EXTENDS Integers, Sequences, FiniteSets, SequencesExt, FiniteSetsExt

CONSTANTS
  Items,          \* what formats are made of: text, conversions, settings (see Leaves)
  Calls,          \* the calls clients make: records with api, size, fmts and dest
  MemSize,        \* cells of memory looked at, more than any buffer has
  TmpLen,         \* characters of tmpnum[]; 128 in the code
  RevLen,         \* characters of rresult[]; 80 in the code
  AddrBits,       \* bits of an address a dump prints; 64 in the code
  AddrLen,        \* characters of addrstr[]; 40 in the code
  VaListIsArray,  \* TRUE: a va_list passed on is used up (gcc, x86-64)
  Garbage,        \* what is read for an argument that has been used up
  NoPrec,         \* stands for a precision that has not been specified
  Pending         \* stands for an answer that has not come yet

ASSUME SnprintfAssumption ==
  /\ MemSize \in Nat /\ TmpLen \in Nat \ {0} /\ RevLen \in Nat \ {0}
  /\ AddrBits \in Nat \ {0} /\ AddrLen \in Nat \ {0} /\ VaListIsArray \in BOOLEAN /\ Garbage \subseteq Nat
  /\ Pending \notin Int /\ NoPrec \notin Int

VARIABLES
  mem,      \* memory from the start of the buffer on
  room,     \* the characters the buffer has, as its owner knows
  stream,   \* what the callback has been told
  stack,    \* the formatter's calls under way, innermost first
  call,     \* the call of the client
  ret,      \* what the call returned, Pending while it runs
  spent,    \* the %w items whose arguments have been read
  last,     \* the last conversion: its item, its settings, its text
  faults    \* assertions that failed and reads of what was never written

vars == <<mem, room, stream, stack, call, ret, spent, last, faults>>

Untouched == "Untouched"   \* a cell nobody has written
NUL  == "NUL"
Junk == "Junk"             \* read from where nothing was written

Digit == <<"0", "1", "2", "3", "4", "5", "6", "7", "8", "9", "a", "b", "c", "d", "e", "f">>
Char == ToSet(Digit) \cup {"a", "b", "-", "+", " ", "x", ",", ".", ":", "\n", "<", ">",
                           "Q", Junk}

Abs(n) == IF n < 0 THEN -n ELSE n
Mid(a, c, b) == Min({Max({a, c}), b})
Times(c, n) == [i \in 1 .. n |-> c]
Concat(pieces) == FlattenSeq(pieces)

-----------------------------------------------------------------------------
(* Numbers.                                                                *)

\* radix ^ n, as a recursion: of ^ the provers know nothing.
Power(radix, n) == LET to[i \in 0 .. n] == IF i = 0 THEN 1 ELSE radix * to[i - 1] IN to[n]

DigitCount(v, radix) ==
  CHOOSE n \in 1 .. v + 1 : Power(radix, n) > v /\ (n > 1 => Power(radix, n - 1) <= v)

\* The characters the loop makes, the last first: sep after each `width' digits.
Reversed(v, radix, stuff, sep, width) ==
  LET n == Max({DigitCount(v, radix), stuff})
  IN Concat([k \in 1 .. n |->
       (IF width > 0 /\ k > 1 /\ (k - 1) % width = 0 THEN Reverse(sep) ELSE <<>>)
         \o <<Digit[((v \div Power(radix, k - 1)) % radix) + 1]>>])

\* What buf[] holds afterwards, as long as the length that is returned: what did
\* not fit in rresult[] or in buf[] has not been written.
NtoS(v, radix, stuff, sep, width, bufsize) ==
  LET rresult == Reversed(v, radix, stuff, sep, width)
      copylen == Min({Len(rresult), RevLen})
      kept    == Reverse(SubSeq(rresult, 1, copylen))
      n       == Min({bufsize, copylen})
  IN SubSeq(kept, 1, n) \o Times(Junk, Len(rresult) - n)

\* The system's snprintf() of a float: `whole' and `frac' are its digits.
SystemPrints(item, prec) ==
  (IF item.neg THEN <<"-">> ELSE <<>>) \o item.whole
    \o (IF prec = 0 THEN <<>> ELSE <<".">> \o SubSeq(item.frac \o Times("0", prec), 1, prec))

\* A call that had no room for all of it still returns the length of it all.
SystemSnprintf(item, prec, bufsize) ==
  LET s == SystemPrints(item, prec) IN
  SubSeq(s, 1, Min({bufsize - 1, Len(s)})) \o Times(Junk, Len(s) - Min({bufsize - 1, Len(s)}))

\* Zeros at the end, and a point they leave at the end, become blanks.
CleanTail(s) ==
  LET zeros == CHOOSE n \in 0 .. Len(s) : /\ \A i \in Len(s) - n + 1 .. Len(s) : s[i] = "0"
                                          /\ n < Len(s) => s[Len(s) - n] # "0"
      n == IF zeros < Len(s) /\ s[Len(s) - zeros] = "." THEN zeros + 1 ELSE zeros
  IN SubSeq(s, 1, Len(s) - n) \o Times(" ", n)

IsFloat(item)  == item.conv = "f"
IsSigned(item) == item.conv \in {"d", "D", "f"}
ArgSign(item)  == IF item.zeroval THEN 0 ELSE IF item.neg THEN -1 ELSE 1
Radix(item)    == IF item.conv \in {"x", "p"} THEN 16 ELSE IF item.conv = "o" THEN 8 ELSE 10

\* The precision the number is made with: 1 by default, 6 for floats.
MadeWith(item) == IF item.prec # NoPrec THEN item.prec ELSE IF IsFloat(item) THEN 6 ELSE 1

\* What is in tmpnum[] before the number itself; a negative zero brings its sign.
Prefix(item) ==
  IF IsSigned(item)
  THEN IF /\ item.sign # "none" /\ ArgSign(item) >= 0
          /\ ~ (IsFloat(item) /\ item.neg /\ item.zeroval /\ MadeWith(item) # 0)
       THEN <<IF item.sign = "space" THEN " " ELSE "+">> ELSE <<>>
  ELSE IF item.alt /\ ArgSign(item) # 0 /\ item.conv \in {"x", "p"} THEN <<"0", "x">> ELSE <<>>

Separator(cfg, item) ==
  IF item.conv \in {"D", "U"} THEN IF cfg.SEP = <<>> THEN <<" ">> ELSE cfg.SEP ELSE cfg.sep

Number(cfg, item) ==
  LET left   == TmpLen - Len(Prefix(item))
      prec   == MadeWith(item)
      width  == IF item.conv \in {"D", "U"} THEN 3 ELSE cfg.sepw
      stuff  == IF item.conv = "p" THEN AddrBits \div 4
                ELSE IF item.zero /\ prec # 0 THEN Abs(prec) ELSE 0
      minus  == IF item.neg THEN <<"-">> ELSE <<>>
  IN IF prec = 0 /\ ArgSign(item) = 0 THEN <<>>
     ELSE IF IsFloat(item)
          THEN LET s == SystemSnprintf(item, Abs(prec), left - 1)
               IN IF prec < 0 THEN CleanTail(s) ELSE s
          ELSE minus \o NtoS(item.value, Radix(item), stuff, Separator(cfg, item), width,
                             left - Len(minus))

\* Mutant: Only a sign of our own counts.
ZerosGoAtOurs(item, number) == Len(Prefix(item))
\* Zeros go in behind the sign, be it ours or the system's
\* (and behind a "0x", which a separator of "x" may look like).
ZerosGoAt(item, number) ==
  LET minus == IF number # <<>> /\ Head(number) = "-" THEN 1 ELSE 0
      hex == Len(number) > minus + 1 /\ number[minus + 1] = "0" /\ number[minus + 2] = "x"
  IN Len(Prefix(item)) + minus + (IF hex THEN 2 ELSE 0)

\* The pieces of a numeric conversion, in the order they are put out.
NumberPieces(cfg, item) ==
  LET number == Number(cfg, item)
      tmp    == Prefix(item) \o number
      ins    == ZerosGoAt(item, number)
      digits == Len(tmp) - ins
      forced == /\ item.alt /\ item.conv = "o"
                /\ ~ (digits > 0 /\ tmp[ins + 1] = "0")
                /\ item.prec = NoPrec \/ Abs(MadeWith(item)) < digits + 1
      prec   == IF IsFloat(item) THEN 0
                ELSE IF forced THEN digits + 1 ELSE Abs(MadeWith(item))
      byPrec == Max({0, prec - digits})
      pad0   == item.zero /\ item.prec = NoPrec
      byWidth == IF ~ item.left /\ pad0 THEN Max({0, item.width - Len(tmp) - byPrec}) ELSE 0
      zeros  == byPrec + byWidth
      blanks == Max({0, item.width - Len(tmp) - zeros})
      split  == IF zeros > 0 THEN ins ELSE 0
  IN <<Times(" ", IF item.left THEN 0 ELSE blanks),
       SubSeq(tmp, 1, split), Times("0", zeros), SubSeq(tmp, split + 1, Len(tmp)),
       Times(" ", IF item.left THEN blanks ELSE 0)>>

\* The pieces of %s, %c and %%.
TextPieces(item) ==
  LET n == IF item.prec = NoPrec THEN Len(item.text) ELSE Min({Len(item.text), Abs(item.prec)})
      blanks == Max({0, item.width - n})
  IN <<Times(IF item.zero THEN "0" ELSE " ", IF item.left THEN 0 ELSE blanks),
       SubSeq(item.text, 1, n), Times(" ", IF item.left THEN blanks ELSE 0)>>

-----------------------------------------------------------------------------
(* What %k %K %r %R %v %t %T %_ set, for the rest of their own format.     *)

InitialCfg == [sepw |-> 3, sep |-> <<>>, SEP |-> <<>>,
               hyph |-> <<>>, left |-> <<>>, right |-> <<>>,
               columns |-> 0, skip |-> 0, ruler |-> FALSE, indent |-> 0,
               addr |-> 0, asep |-> 0, awidth |-> 0, iso |-> FALSE]

BracketsSet(cfg, b) ==
  LET half == Len(b) \div 2 IN
  [cfg EXCEPT !.left  = SubSeq(b, 1, Min({half, 4})),
              !.right = SubSeq(b, half + 1, Min({half + 4, Len(b)}))]

RulerSet(cfg, item) ==
  [cfg EXCEPT !.indent  = IF item.width > 0 THEN Mid(0, item.width, 64) ELSE @,
              !.skip    = IF item.prec = NoPrec THEN 0 ELSE Abs(item.prec),
              !.columns = item.columns,
              !.ruler   = @ \/ item.conv = "R"]

AddressSet(cfg, item) ==
  [cfg EXCEPT !.addr   = item.value,
              !.asep   = item.width,
              !.awidth = IF item.prec = NoPrec THEN 0 ELSE Abs(item.prec),
              !.iso    = item.prec # NoPrec]

\* What %v asserts.
AddressAllowed(item) == item.width >= 0 /\ (item.prec = NoPrec \/ item.prec >= 0)

Set(cfg, item) ==
  CASE item.conv = "k" -> [cfg EXCEPT !.hyph = SubSeq(item.text, 1, Min({Len(item.text), 8}))]
    [] item.conv = "K" -> BracketsSet(cfg, item.text)
    [] item.conv \in {"r", "R"} -> RulerSet(cfg, item)
    [] item.conv = "v" -> AddressSet(cfg, item)
    [] item.conv = "t" -> [cfg EXCEPT !.sep = item.text]
    [] item.conv = "T" -> [cfg EXCEPT !.SEP = item.text]
    [] item.conv = "_" -> [cfg EXCEPT !.sepw = item.value]

-----------------------------------------------------------------------------
(* What a format is made of, once flags, width and precision are read, the *)
(* `*' among them replaced by its argument.  A number has the digits it is *)
(* printed with: its value, or the two parts of a float.                   *)

Precs == Int \cup {NoPrec}
IntItems ==
  [kind : {"num"}, conv : {"d", "D", "u", "U", "x", "o", "p"}, neg : BOOLEAN, value : Nat,
   zeroval : BOOLEAN, width : Int, left : BOOLEAN, zero : BOOLEAN,
   sign : {"none", "space", "plus"}, alt : BOOLEAN, prec : Precs]
FloatItems ==
  [kind : {"num"}, conv : {"f"}, neg : BOOLEAN, whole : Seq(Char), frac : Seq(Char),
   zeroval : BOOLEAN, value : Nat, width : Int, left : BOOLEAN, zero : BOOLEAN,
   sign : {"none", "space", "plus"}, alt : BOOLEAN, prec : Precs]
StrItems ==
  [kind : {"str"}, text : Seq(Char), width : Int, left : BOOLEAN, zero : BOOLEAN, prec : Precs]
SetItems ==
  [kind : {"set"}, conv : {"k", "K", "t", "T"}, text : Seq(Char)]
    \cup [kind : {"set"}, conv : {"_"}, value : Int]
    \cup [kind : {"set"}, conv : {"r", "R"}, width : Int, prec : Precs, columns : Int]
    \cup [kind : {"set"}, conv : {"v"}, width : Nat, prec : Precs, value : Nat]
DumpItems == [kind : {"m"}, n : Int, group : Int]

Leaves ==
  [kind : {"lit"}, text : Seq(Char)] \cup StrItems \cup IntItems \cup FloatItems
    \cup SetItems \cup DumpItems \cup [kind : {"n"}, text : Seq(Char), width : Int]

\* Formats nest as deep as clients like; a %w has one, a %F function any number.
ASSUME ItemsAssumption ==
  \A item \in Items :
    \/ item \in Leaves
    \/ item.kind = "w" /\ item.fmt \in Seq(Items)
    \/ item.kind = "F" /\ item.fmts \in Seq(Seq(Items))

\* mm_Strcat() is given a text in a buffer of that size.
ASSUME CallsAssumption ==
  /\ {c.fmts : c \in Calls} \subseteq Seq(Seq(Items)) \ {<<>>}
  /\ \A c \in Calls :
       /\ c.api \in {"snprintf", "Strcat", "asprintf", "asnprintf"}
       /\ c.size \in Nat /\ c.size < MemSize
       /\ c.api = "Strcat" => c.dest \in Seq(Char) /\ Len(c.dest) < c.size

-----------------------------------------------------------------------------
(* One call of the formatter: what is left of its format, where its part   *)
(* of the buffer starts and how long it is (less than nothing when the     *)
(* outer call has run past its end), how much it has made, and what it     *)
(* tells the callback of its place.  `dump' is a dump under way, `rest'    *)
(* the formats a %F function has still to print, or the length measured    *)
(* before the text is printed for good.                                    *)

NoDump == [consumed |-> -1]

Frame(fmt, base, max, stock, owner, rest) ==
  [fmt |-> fmt, base |-> base, max |-> max, len |-> 0, stock |-> stock, outpos |-> 0,
   cfg |-> InitialCfg, dump |-> NoDump, owner |-> owner, rest |-> rest]

State == [mem |-> mem, stream |-> stream, faults |-> faults, f |-> Head(stack)]

\* Cells at .. at + n - 1 get the first n characters of piece.
Written(m, at, n, piece) ==
  [i \in DOMAIN m |-> IF at <= i /\ i < at + n THEN piece[i - at + 1] ELSE m[i]]

\* How much of a piece of n characters there is room for.
FitsFromStart(f, n) == Min({n, f.max})
Fits(f, n) == Min({n, f.max - f.len})

\* ctipack_output() and the copy that follows it: the callback is told, with the
\* place the frame believes the piece has; the buffer gets what there is room for.
Emit(s, piece) ==
  [s EXCEPT !.mem      = Written(@, s.f.base + s.f.len, Fits(s.f, Len(piece)), piece),
            !.stream   = @ \o piece,
            !.faults   = @ \cup (IF piece # <<>> /\ s.f.stock + s.f.outpos # Len(s.stream)
                                 THEN {"misplaced"} ELSE {})
                           \cup (IF Junk \in ToSet(piece) THEN {"unwritten"} ELSE {}),
            !.f.len    = @ + Len(piece),
            !.f.outpos = @ + Len(piece)]

\* CTI_SETVAL(): every item that takes an argument tells its place anew.
Placed(s) == [s EXCEPT !.f.outpos = s.f.len]

EmitAll(s, pieces) ==
  LET after[i \in 0 .. Len(pieces)] == IF i = 0 THEN s ELSE Emit(after[i - 1], pieces[i])
  IN  after[Len(pieces)]

Next1(f) == [f EXCEPT !.fmt = Tail(@)]

Becomes(s, below) ==
  /\ mem' = s.mem /\ stream' = s.stream /\ faults' = s.faults
  /\ stack' = <<s.f>> \o below

Item == Head(Head(stack).fmt)

\* The innermost call has an item left, and no dump under way.
Reads(kind) ==
  /\ stack # <<>>
  /\ Head(stack).dump = NoDump
  /\ Head(stack).fmt # <<>>
  /\ Item.kind = kind

-----------------------------------------------------------------------------
(* Byte dumps, %m.  The byte at index k has the value k.                   *)

Hex(v) == <<Digit[((v \div 16) % 16) + 1], Digit[(v % 16) + 1]>>
Newline == <<"\n">>
OneLine == 1000             \* columns of a dump that is not to be broken
AddrEnd == Power(2, AddrBits)

\* fill_adcol_text(): an address, as far as addrstr[] has room for it.
AddressText(cfg, addr, width) ==
  LET text == NtoS(addr, 16, Abs(width), cfg.sep, cfg.asep, TmpLen)
  IN SubSeq(text, 1, Min({Len(text), AddrLen - 1}))

\* cal_adcol_widths(): the digits an address has, and the characters it takes.
AddressColumn(cfg, n) ==
  LET asked == IF cfg.iso /\ cfg.awidth = 0 THEN -1 ELSE Max({1, cfg.awidth})
      stop  == (cfg.addr + n - 1) % AddrEnd
      end   == IF stop < cfg.addr THEN AddrEnd - 1 ELSE stop
      endWidth == DigitCount(end, 16)
      isoZeros == cfg.asep # 0 /\ asked < 0
      adcol == IF isoZeros THEN ((endWidth + cfg.asep - 1) \div cfg.asep) * cfg.asep ELSE asked
  IN [ok |-> adcol > 0, width1 |-> Max({endWidth, adcol}),
      width2 |-> Len(AddressText(cfg, end, adcol))]

\* A group of -1 or 0 bytes is one byte; no columns, one line without a ruler.
DumpOf(cfg, item) ==
  LET group   == IF item.group \in {0, -1} THEN 1 ELSE Mid(-8, item.group, 8)
      columns == IF Mid(0, cfg.columns, 256) = 0 THEN OneLine ELSE Mid(0, cfg.columns, 256)
      skip    == Mid(0, cfg.skip, columns - 1)
  IN [n |-> item.n, group |-> group, columns |-> columns, skip |-> skip, consumed |-> 0,
      ruler |-> cfg.ruler /\ columns # OneLine, addr |-> (cfg.addr - skip) % AddrEnd,
      col |-> AddressColumn(cfg, item.n)]

RulerPieces(cfg, d) ==
  LET mark(i) == Times("-", Len(cfg.left)) \o Hex(i) \o Times("-", Len(cfg.right))
                   \o (IF i < d.columns - 1 THEN Times("-", Len(cfg.hyph)) ELSE <<>>)
  IN IF ~ d.ruler THEN <<>>
     ELSE <<Times(" ", cfg.indent), Times("-", d.col.width2 + 2)>>
            \o [i \in 1 .. d.columns |-> mark(i - 1)] \o <<Newline>>

PerByte(cfg) == Len(cfg.left) + 2 + Len(cfg.right) + Len(cfg.hyph)

\* What comes before the bytes of a line.
LineStart(cfg, d) ==
  Times(" ", cfg.indent)
    \o (IF d.ruler THEN AddressText(cfg, d.addr, d.col.width1) \o <<":", " ">> ELSE <<>>)
    \o Times(" ", PerByte(cfg) * d.skip)

AbsGroup(d) == Abs(d.group)
Remain(d)   == d.n - d.consumed
InLine(d)   == Min({Remain(d), d.columns - d.skip})     \* columns_remain

\* The loop over a line takes a group at a time, and a byte at a time when less than
\* a group is left of the dump: the index each step starts at, and what it takes.
GroupsIn(d) == Min({Remain(d) \div AbsGroup(d), (InLine(d) + AbsGroup(d) - 1) \div AbsGroup(d)})
Starts(d) ==
  [i \in 1 .. GroupsIn(d) + Max({0, InLine(d) - GroupsIn(d) * AbsGroup(d)}) |->
     IF i <= GroupsIn(d) THEN (i - 1) * AbsGroup(d) ELSE GroupsIn(d) * AbsGroup(d) + i - GroupsIn(d) - 1]
Takes(d, j) == IF Remain(d) - j >= AbsGroup(d) THEN AbsGroup(d) ELSE 1
Consumes(d) == IF Starts(d) = <<>> THEN 0 ELSE Last(Starts(d)) + Takes(d, Last(Starts(d)))

\* A group's digits with their brackets, then what keeps the next one in its column.
GroupText(cfg, d, j) ==
  LET g == Takes(d, j)
      byte(k) == Hex(d.consumed + j + (IF d.group > 0 THEN k - 1 ELSE g - k))
      last1 == InLine(d) - 1
  IN cfg.left \o Concat([k \in 1 .. g |-> byte(k)]) \o cfg.right
       \o (IF j >= last1 THEN <<>>
           ELSE Times(" ", Len(cfg.right) * (g - 1))
                  \o Concat([k \in 1 .. g - 1 |-> cfg.hyph])
                  \o (IF j + g - 1 < last1 THEN cfg.hyph ELSE <<>>)
                  \o Times(" ", Len(cfg.left) * (g - 1)))

LinePieces(cfg, d) ==
  <<LineStart(cfg, d)>> \o [i \in DOMAIN Starts(d) |-> GroupText(cfg, d, Starts(d)[i])]

\* Columns a group ran over into the next line are skipped there.
NextSkipNone(d) == 0
NextSkipKept(d) == IF Consumes(d) = 0 THEN d.skip ELSE Max({0, Consumes(d) - InLine(d)})
NextSkip(d) == Max({0, Consumes(d) - InLine(d)})

\* %v holds for one dump only.
AfterDump(f) ==
  [Next1(f) EXCEPT !.dump = NoDump, !.cfg = [@ EXCEPT !.addr = 0, !.iso = FALSE]]

\* The item's pieces go out and the innermost call goes on behind it.
Prints(s, pieces) ==
  LET done == EmitAll(s, pieces)
  IN Becomes([done EXCEPT !.f = Next1(@)], Tail(stack))

Literal ==
  /\ Reads("lit")
  /\ Prints(State, <<Item.text>>)
  /\ UNCHANGED <<room, call, ret, spent, last>>

Text ==
  /\ Reads("str")
  /\ Prints(Placed(State), TextPieces(Item))
  /\ last' = [item |-> Item, text |-> Concat(TextPieces(Item))]
  /\ UNCHANGED <<room, call, ret, spent>>

Numeric ==
  /\ Reads("num")
  /\ Prints(Placed(State), NumberPieces(Head(stack).cfg, Item))
  /\ last' = [item |-> Item, cfg |-> Head(stack).cfg,
              text |-> Concat(NumberPieces(Head(stack).cfg, Item))]
  /\ UNCHANGED <<room, call, ret, spent>>

Setting ==
  /\ Reads("set")
  /\ LET s == Placed(State)
         f == [Next1(s.f) EXCEPT !.cfg = Set(s.f.cfg, Item)]
         allowed == Item.conv = "v" => AddressAllowed(Item)
     IN Becomes([s EXCEPT !.f = f,
                          !.faults = IF allowed THEN @ ELSE @ \cup {"adcol_width"}],
                Tail(stack))
  /\ UNCHANGED <<room, call, ret, spent, last>>

\* %n: a text as many times as the width says.
Repeat ==
  /\ Reads("n")
  /\ Prints(Placed(State), [i \in 1 .. Item.width |-> Item.text])
  /\ UNCHANGED <<room, call, ret, spent, last>>

BeginDump ==
  /\ Reads("m")
  /\ IF Item.n <= 0
     THEN LET s == Placed(State)
              at == s.f.base + s.f.len
              done == [s EXCEPT !.mem = Written(@, at, Fits(s.f, 1), <<NUL>>)]
          IN Becomes([done EXCEPT !.f = AfterDump(@)], Tail(stack))
     ELSE LET s == Placed(State)
              d == DumpOf(s.f.cfg, Item)
              done == EmitAll(s, RulerPieces(s.f.cfg, d))
          IN Becomes([done EXCEPT !.f.dump = d,
                                  !.faults = IF d.col.ok THEN @ ELSE @ \cup {"adcol_width"}],
                     Tail(stack))
  /\ UNCHANGED <<room, call, ret, spent, last>>

DumpLine ==
  /\ stack # <<>>
  /\ Head(stack).dump # NoDump
  /\ LET f == Head(stack)
         d == f.dump
         all == d.consumed + Consumes(d)
         s == EmitAll(State, LinePieces(f.cfg, d) \o (IF all = d.n THEN <<>> ELSE <<Newline>>))
         goes == [s.f EXCEPT !.dump = [d EXCEPT !.consumed = all, !.skip = NextSkip(d),
                                                !.addr = (@ + d.columns) % AddrEnd]]
     IN /\ Becomes([s EXCEPT !.f = IF all = d.n THEN AfterDump(@) ELSE goes], Tail(stack))
        /\ last' = [item |-> Item, cfg |-> f.cfg, dump |-> d,
                    text |-> Concat(LinePieces(f.cfg, d))]
  /\ UNCHANGED <<room, call, ret, spent>>

\* The numbers of a format whose arguments have been read before.
Misread(fmt, g) ==
  [i \in DOMAIN fmt |-> IF fmt[i].kind = "num" THEN [fmt[i] EXCEPT !.value = g] ELSE fmt[i]]

\* %w: another format with its arguments, printed into what is left of the buffer.
Nest ==
  /\ Reads("w")
  /\ LET f == Next1(Placed(State).f)
         inner(fmt) == Frame(fmt, f.base + f.len, f.max - f.len, f.stock + f.len, "w", <<>>)
     IN IF Item.id \in spent
        THEN \E g \in Garbage : stack' = <<inner(Misread(Item.fmt, g)), f>> \o Tail(stack)
        ELSE stack' = <<inner(Item.fmt), f>> \o Tail(stack)
  /\ spent' = IF VaListIsArray THEN spent \cup {Item.id} ELSE spent
  /\ UNCHANGED <<mem, room, stream, call, ret, last, faults>>

\* %F: a function of the caller's, which sees the text so far as a string and
\* prints its formats one after another.
Inject ==
  /\ Reads("F")
  /\ LET f == Next1(Placed(State).f)
         at == IF f.max > f.len THEN f.base + f.len ELSE f.base + f.max - 1
     IN IF Item.fmts = <<>>
        THEN stack' = <<f>> \o Tail(stack) /\ UNCHANGED mem
        ELSE /\ mem' = IF f.max > 0 THEN Written(mem, at, 1, <<NUL>>) ELSE mem
             /\ stack' = <<Frame(Head(Item.fmts), f.base + f.len, f.max - f.len,
                                 f.stock + f.len, "F", Tail(Item.fmts)), f>> \o Tail(stack)
  /\ UNCHANGED <<room, stream, call, ret, spent, last, faults>>

-----------------------------------------------------------------------------
(* The end of a call, and the calls clients make.                          *)

\* The end of the text, or the end of the buffer, becomes NUL.
Ended(m, f) == IF f.max > 0 THEN Written(m, f.base + Min({f.len, f.max - 1}), 1, <<NUL>>) ELSE m

\* The next of several calls that share one mmv7_st.
Continued(f) ==
  Frame(Head(f.rest), f.base + f.len, f.max - f.len, f.stock + f.len, f.owner, Tail(f.rest))

FormatEnds(owners) ==
  /\ stack # <<>>
  /\ Head(stack).fmt = <<>>
  /\ Head(stack).owner \in owners
  /\ mem' = Ended(mem, Head(stack))

\* What %w and %F made counts for the call they were made in.
CountedLength(outer, n) == [outer EXCEPT !.len = @ + n]
Counted(outer, n) == [outer EXCEPT !.len = @ + n, !.outpos = @ + n]
NestedEnds ==
  /\ FormatEnds({"w", "F"})
  /\ LET f == Head(stack)
         below == <<Counted(stack[2], f.len)>> \o Tail(Tail(stack))
     IN stack' = IF f.owner = "w" \/ f.rest = <<>> THEN below ELSE <<Continued(f)>> \o below
  /\ UNCHANGED <<room, stream, call, ret, spent, last, faults>>

\* mm_snprintf(), mm_Strcat(), mm_printf_ct(), and mm_snprintf_v7() or
\* mm_snprintf_am() called again and again.
ClientEnds ==
  /\ FormatEnds({"client"})
  /\ LET f == Head(stack) IN
     IF f.rest = <<>>
     THEN stack' = <<>> /\ ret' = f.stock + f.len
     ELSE stack' = <<Continued(f)>> /\ UNCHANGED ret
  /\ UNCHANGED <<room, stream, call, spent, last, faults>>

\* mm_asprintf() and mm_asnprintf() know the length now, allocate, and print again.
Allocation == IF call.api = "asprintf" THEN Head(stack).len + 1
              ELSE Min({Head(stack).len + 1, call.size})

MeasureEnds ==
  /\ FormatEnds({"measure"})
  /\ \/ Allocation # 0 /\ stack' = <<>> /\ ret' = -1 /\ UNCHANGED <<room, stream>>
     \/ Allocation = 0 /\ stack' = <<>> /\ ret' = Head(stack).len /\ UNCHANGED <<room, stream>>
     \/ /\ Allocation \in 1 .. MemSize - 1       \* what is looked at of memory
        /\ stack' = <<Frame(Head(call.fmts), 0, Allocation, 0, "fill", <<Head(stack).len>>)>>
        /\ room' = Allocation /\ stream' = <<>> /\ UNCHANGED ret
  /\ UNCHANGED <<call, spent, last, faults>>

\* The assertion: printed again, the text is as long as it was measured.
FillEnds ==
  /\ FormatEnds({"fill"})
  /\ stack' = <<>>
  /\ ret' = Head(Head(stack).rest)
  /\ faults' = IF Head(stack).len # ret' THEN faults \cup {"str_l2"} ELSE faults
  /\ UNCHANGED <<room, stream, call, spent, last>>

\* mm_Strcat(): the buffer's own text first, then the format.
Appending(c) ==
  <<[kind |-> "str", text |-> c.dest, prec |-> NoPrec, width |-> 0, left |-> FALSE, zero |-> FALSE],
    [kind |-> "w", id |-> "mm_Strcat", fmt |-> Head(c.fmts)]>>

FirstFrame(c) ==
  CASE c.api = "snprintf" -> Frame(Head(c.fmts), 0, c.size, 0, "client", Tail(c.fmts))
    [] c.api = "Strcat" -> Frame(Appending(c), 0, c.size, 0, "client", <<>>)
    [] c.api \in {"asprintf", "asnprintf"} -> Frame(Head(c.fmts), 0, 0, 0, "measure", <<>>)

\* One call, just made.
Init ==
  /\ call \in Calls
  /\ room = IF call.api \in {"asprintf", "asnprintf"} THEN 0 ELSE call.size
  /\ stack = <<FirstFrame(call)>>
  /\ LET clear == [i \in 0 .. MemSize - 1 |-> Untouched] IN
     mem = IF call.api = "Strcat"
           THEN Written(clear, 0, Len(call.dest) + 1, call.dest \o <<NUL>>) ELSE clear
  /\ stream = <<>> /\ ret = Pending /\ spent = {} /\ last = <<>> /\ faults = {}

\* The client has its answer; the system may stop here.
Done == ret # Pending /\ UNCHANGED vars

Step ==
  \/ Literal \/ Text \/ Numeric \/ Setting \/ Repeat \/ BeginDump \/ DumpLine
  \/ Nest \/ Inject \/ NestedEnds \/ ClientEnds \/ MeasureEnds \/ FillEnds

Next == Step \/ Done

Spec == Init /\ [][Next]_vars

-----------------------------------------------------------------------------
(* What must hold.                                                         *)

\* TypeOK.  The buffer holds characters, and the frames lie one behind the other in it.
TypeOK ==
  /\ \A i \in DOMAIN mem : mem[i] \in Char \cup {NUL, Untouched}
  /\ stream \in Seq(Char)
  /\ room \in 0 .. MemSize
  /\ ret \in Int \cup {Pending}
  /\ \A k \in DOMAIN stack :
       /\ stack[k].len >= 0 /\ stack[k].outpos >= 0 /\ stack[k].base >= 0
       /\ stack[k].base + stack[k].max <= room

\* BufferHoldsText.  Whatever conversions, dumps and nested formats a text is made of,
\* and wherever the buffer ends: the buffer is the beginning of what the callback is
\* told, no cell behind it is ever written, and it is a string when the call returns.
\* The length every nested call counts from is the length of the text so far, and what
\* is returned is the length of all of it, whatever the buffer holds.
BufferHoldsText ==
  /\ TypeOK
  /\ \A i \in DOMAIN mem : i >= room => mem[i] = Untouched
  /\ \A i \in 0 .. Min({Len(stream), room}) - 1 :
       mem[i] = stream[i + 1] \/ (i = room - 1 /\ mem[i] = NUL)
  /\ ret # Pending /\ room > 0 => mem[Min({Len(stream), room - 1})] = NUL
  /\ \A k \in DOMAIN stack :
       stack[k].stock + stack[k].len = IF k = 1 THEN Len(stream) ELSE stack[k - 1].stock
  /\ ret # Pending => ret \in {-1, Len(stream)}

\* FormatNoFault.  No assertion fails, every piece is where the callback is told it is,
\* and nothing is printed that no conversion has written.
FormatNoFault == faults = {}

\* What a number must read as, said the way C99 says it: a sign or 0x, digits (as many
\* as the precision, or as the width when zeros fill it), and blanks to the width.
SignAsked(item) ==
  CASE item.neg -> <<"-">>
    [] ~ item.neg /\ IsSigned(item) /\ item.sign = "plus" -> <<"+">>
    [] ~ item.neg /\ IsSigned(item) /\ item.sign = "space" -> <<" ">>
    [] item.conv \in {"x", "p"} /\ item.alt /\ item.value # 0 -> <<"0", "x">>
    [] OTHER -> <<>>

InWidth(item, s) ==
  LET blanks == Times(" ", Max({0, item.width - Len(s)}))
  IN IF item.left THEN s \o blanks ELSE blanks \o s

ZerosFill(item) == item.zero /\ ~ item.left /\ item.prec = NoPrec
WithZeros(item, s) ==
  LET n == IF ZerosFill(item) THEN item.width - Len(SignAsked(item)) - Len(s) ELSE 0
  IN InWidth(item, SignAsked(item) \o Times("0", Max({0, n})) \o s)

Shortest(v, radix) ==
  LET n == IF v = 0 THEN 0 ELSE DigitCount(v, radix)
  IN [k \in 1 .. n |-> Digit[((v \div Power(radix, n - k)) % radix) + 1]]

IntegerAsked(item) ==
  LET digits == Shortest(item.value, Radix(item))
      prec == IF item.conv = "p" THEN AddrBits \div 4 ELSE Abs(MadeWith(item))
      n == Max({prec - Len(digits), IF item.conv = "o" /\ item.alt THEN 1 ELSE 0})
  IN WithZeros(item, Times("0", Max({0, n})) \o digits)

\* A negative precision hides the zeros at the end of the fraction.
FloatAsked(item) ==
  LET prec == Abs(MadeWith(item))
      frac == SubSeq(item.frac \o Times("0", prec), 1, prec)
      kept == IF MadeWith(item) >= 0 THEN prec
              ELSE CHOOSE n \in 0 .. prec : /\ \A i \in n + 1 .. prec : frac[i] = "0"
                                            /\ n > 0 => frac[n] # "0"
      point == IF prec > 0 THEN <<IF kept = 0 THEN " " ELSE ".">> ELSE <<>>
  IN WithZeros(item, item.whole \o point \o SubSeq(frac, 1, kept) \o Times(" ", prec - kept))

\* Every separator has a multiple of the group's width of digits behind it, and none
\* is missing; the zeros that only fill the width are not in groups.
Digits(s) == SelectSeq(s, LAMBDA c : c \in ToSet(Digit))
GroupedRight(cfg, item, s) ==
  LET sep == Head(Separator(cfg, item))
      w == IF item.conv \in {"D", "U"} THEN 3 ELSE cfg.sepw
      n == Max({DigitCount(item.value, 10),
                IF item.zero /\ item.prec # NoPrec THEN Abs(item.prec) ELSE 0})
      behind == {Len(Digits(SubSeq(s, i, Len(s)))) : i \in {k \in DOMAIN s : s[k] = sep}}
      value == FoldLeft(LAMBDA v, c : v * 10 + (CHOOSE i \in 1 .. 10 : Digit[i] = c) - 1,
                        0, Digits(s))
  IN /\ value = item.value
     /\ behind \ {0} = {k * w : k \in 1 .. (n - 1) \div w}
     /\ Len(s) >= item.width

\* NumberRight.  A number reads as the value it was given, with the sign, the digits and
\* the groups that flags, width, precision and separators ask for together.
NumberRight ==
  last # <<>> /\ last.item.kind = "num" =>
    LET item == last.item IN
    CASE IsFloat(item) -> last.text = FloatAsked(item)
      [] ~ IsFloat(item) /\ Separator(last.cfg, item) = <<>> -> last.text = IntegerAsked(item)
      [] OTHER -> GroupedRight(last.cfg, item, last.text)

\* RowsTrue.  On every line of a dump each byte stands in the column of its address,
\* groups or not, and under its mark of the ruler; the address before the line is that
\* of its first column, and as wide as the ruler left room for.
RowsTrue ==
  last # <<>> /\ last.item.kind = "m" =>
    LET cfg == last.cfg
        d == last.dump
        g == AbsGroup(d)
        from == cfg.indent + (IF d.ruler THEN d.col.width2 + 2 ELSE 0) + Len(cfg.left)
        whole(k) == (k \div g + 1) * g <= d.n
        first(k) == IF whole(k) THEN (k \div g) * g ELSE k
        place(k) == IF ~ whole(k) THEN 0
                    ELSE IF d.group > 0 THEN k % g ELSE g - 1 - (k % g)
        at(k) == from + PerByte(cfg) * (d.skip + first(k) - d.consumed) + 2 * place(k)
    IN /\ \A k \in d.consumed .. d.consumed + Consumes(d) - 1 :
            /\ k < d.n
            /\ SubSeq(last.text, at(k) + 1, at(k) + 2) = Hex(k)
       /\ (d.addr + d.skip) % AddrEnd = (cfg.addr + d.consumed) % AddrEnd
       /\ d.skip + Consumes(d) < d.columns => d.consumed + Consumes(d) = d.n

\* DumpsAdvance.  No dump prints lines for ever, however its groups, its columns and
\* its skipped columns fall: every line takes bytes, or skips fewer columns than the last.
DumpsAdvance ==
  [][LET dumping(s) == s # <<>> /\ Head(s).dump # NoDump
         d(s) == Head(s).dump
     IN dumping(stack) /\ dumping(stack') =>
          \/ d(stack').consumed > d(stack).consumed
          \/ d(stack').consumed = d(stack).consumed /\ d(stack').skip < d(stack).skip]_vars
====
