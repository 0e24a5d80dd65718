------------------------------- MODULE Printf -------------------------------
(***************************************************************************)
(* vsnprintf of the user library (yuserlib/common/vsnprintf.c), on which   *)
(* TtyPrintf and sprintf are built: the machine that reads the format      *)
(* character by character, format_int, and the writing into a buffer of    *)
(* limited size, where the pointer q and the count o of the characters     *)
(* output part once the buffer is full.                                    *)
(*                                                                         *)
(* The formats are made from directives, so that what the machine does     *)
(* with the characters can be compared with what the directives mean.      *)
(* Integer types have a few bits; a width or precision a few digits.       *)
(***************************************************************************)
EXTENDS Numerals

CONSTANTS
  RankBits,     \* the width of char, short, int, long, long long
  PointerBits,
  Characters,   \* of formats and of strings
  Arguments,    \* what va_arg can find: an integer, a character and a string
  Directives,
  Formats,      \* the formats tried: sequences of directives
  Sizes,        \* the buffer sizes tried
  Slack         \* cells looked at behind the buffer

ASSUME PrintfAssumption ==
  /\ RankBits \in [-2 .. 2 -> 1 .. MaxBits] /\ PointerBits \in 1 .. MaxBits
  /\ "%" \in Characters
  /\ \A a \in Arguments : a.int \in Int /\ a.chr \in Characters /\ a.str \in Seq(Characters)
  /\ \A d \in Directives : /\ {d.flags, d.width, d.prec, d.mods} \subseteq Seq(Characters)
                           /\ d.conv \in Characters /\ d.args \in Seq(Arguments)
  /\ Formats \subseteq Seq(Directives)
  /\ Sizes \subseteq Nat /\ Slack \in Nat

\* A directive: flag characters, field width and precision as written, the
\* length modifiers, the conversion, and the arguments it takes.  One whose
\* conversion is "" stands for the plain characters in its flags.
CharsOf(d) ==
  IF d.conv = "" THEN d.flags
  ELSE <<"%">> \o d.flags \o d.width \o d.prec \o d.mods \o <<d.conv>>

\* Characters in the buffer besides printable ones.
NUL   == "nul"
Blank == "untouched"

VARIABLES
  fmt,      \* the directives
  n,        \* size of the buffer
  format,   \* their characters
  p,        \* the next character
  args,     \* the arguments not yet taken
  state,    \* st_normal, st_flags, ...; "done" after the return, "lost" when
            \* a loop runs past the end of a string
  flags, width, prec, rank,
  buffer, q, o,
  stored    \* what %n has stored

spec == <<flags, width, prec, rank>>
out  == <<buffer, q, o>>
fvars == <<fmt, n, format, p, args, state, spec, out, stored>>

FTypeOK ==
  /\ fmt \in Formats /\ n \in Sizes
  /\ p \in 1 .. Len(format) + 1
  /\ state \in {"normal", "flags", "width", "prec", "modifiers", "done", "lost"}
  /\ flags \subseteq {"-", "+", "'", " ", "#", "0"}
  /\ width \in Nat /\ prec \in Int /\ rank \in Int
  /\ DOMAIN buffer = 0 .. n + Slack
  /\ q \in Nat /\ o \in Nat

FInit ==
  /\ fmt \in Formats /\ n \in Sizes
  /\ format = FlattenSeq([i \in DOMAIN fmt |-> CharsOf(fmt[i])])
  /\ args = FlattenSeq([i \in DOMAIN fmt |-> fmt[i].args])
  /\ p = 1 /\ state = "normal"
  /\ flags = {} /\ width = 0 /\ prec = -1 /\ rank = 0
  /\ buffer = [x \in 0 .. n + Slack |-> Blank] /\ q = 0 /\ o = 0
  /\ stored = <<>>

ch == format[p]

\* The next argument.  Behind the last one va_arg finds anything.
va_arg == IF args = <<>> THEN Arguments ELSE {Head(args)}
va_rest == IF args = <<>> THEN <<>> ELSE Tail(args)

\* The machine is in this state with a character to process.
Reading(st) == state = st /\ p <= Len(format)

-----------------------------------------------------------------------------
(* Writing.  s is a triple of buffer, q and o.                             *)

Smaller(a, b) == IF a < b THEN a ELSE b

\* Mutant of Room: the last cell is counted twice.
Room_OneMore(s, size) == IF s.o <= size THEN size - s.o + 1 ELSE 0

\* How many of the next characters are stored: those with o < n.
Room(s, size) == IF s.o < size THEN size - s.o ELSE 0

\* EMIT for one character of text after the other: q stops at the end of
\* the buffer, o does not.
EMIT(s, text, size) ==
  LET k == Smaller(Len(text), Room(s, size))
  IN  [buffer |-> [x \in DOMAIN s.buffer |->
                     IF x \in s.q .. s.q + k - 1 THEN text[x - s.q + 1]
                                                 ELSE s.buffer[x]],
       q |-> s.q + k,
       o |-> s.o + Len(text)]

\* The writing of a number from right to left: q and o are advanced first,
\* and a digit is stored if its own count is below n.
PutNumber(s, text, size) ==
  [buffer |-> [x \in DOMAIN s.buffer |->
                 IF x \in s.q .. s.q + Len(text) - 1 /\ s.o + (x - s.q) < size
                 THEN text[x - s.q + 1] ELSE s.buffer[x]],
   q |-> s.q + Len(text),
   o |-> s.o + Len(text)]

Times(c, k) == [i \in 1 .. k |-> c]

-----------------------------------------------------------------------------
(* format_int.                                                             *)

IsMinus(val, signed) == signed /\ val >= Power(2, MaxBits - 1)

\* val without its sign.
Magnitude(val, signed) == IF IsMinus(val, signed) THEN UMax(-val) ELSE val

\* The number of digits, zero for 0: how often v is divided until nothing is
\* left of it.
CountDigits(v, base) ==
  LET tmpval[i \in 0 .. MaxBits] == IF i = 0 THEN v ELSE tmpval[i - 1] \div base
  IN  CHOOSE k \in 0 .. MaxBits :
        tmpval[k] = 0 /\ \A j \in 0 .. k - 1 : tmpval[j] # 0

\* Mutant of ndigits: the leading zero of # takes the place of a digit.
ndigits_Octal(v, fl, base, pr) ==
  LET k == CountDigits(v, base)
      m == IF "#" \in fl /\ base = 8 /\ pr < k THEN k ELSE pr
  IN  IF k < m THEN m ELSE IF v = 0 THEN 1 ELSE k

\* The digits to write, with the zeros that the precision asks for.
ndigits(v, fl, base, pr) ==
  LET k == CountDigits(v, base)
      m == IF "#" \in fl /\ base = 8 /\ pr < k + 1 THEN k + 1 ELSE pr
  IN  IF k < m THEN m ELSE IF v = 0 THEN 1 ELSE k

\* The digits and tick marks, counted from the right: after every tickskip
\* digits comes a mark.
NumberText(v, upper, base, nd, tickskip) ==
  LET total == nd + (nd - 1) \div tickskip
      Digit(j) == (IF upper THEN ucdigits ELSE lcdigits)[((v \div base^j) % base) + 1]
      Symbol(k) == IF k % (tickskip + 1) = tickskip THEN "_"
                   ELSE Digit(k - k \div (tickskip + 1))
  IN  [i \in 1 .. total |-> Symbol(total - i)]

\* What is written before the digits.
Nondigits(minus, fl, upper, base) ==
  (CASE minus -> <<"-">>
     [] ~minus /\ "+" \in fl -> <<"+">>
     [] ~minus /\ "+" \notin fl /\ " " \in fl -> <<" ">>
     [] OTHER -> <<>>)
  \o (IF "#" \in fl /\ base = 16 THEN <<"0", IF upper THEN "X" ELSE "x">> ELSE <<>>)

format_int(b, at, size, val, fl, signed, upper, base, wd, pr) ==
  LET v    == Magnitude(val, signed)
      nd   == ndigits(v, fl, base, pr)
      skip == IF "'" \in fl THEN (IF base = 16 THEN 4 ELSE 3) ELSE nd
      num  == NumberText(v, upper, base, nd, skip)
      pre  == Nondigits(IsMinus(val, signed), fl, upper, base)
      fill == IF wd > Len(num) + Len(pre) THEN wd - Len(num) - Len(pre) ELSE 0
      early == IF fl \cap {"-", "0"} = {} THEN Times(" ", fill) ELSE <<>>
      zeros == IF fl \cap {"-", "0"} = {"0"} THEN Times("0", fill) ELSE <<>>
      late  == IF "-" \in fl THEN Times(" ", fill) ELSE <<>>
      s1 == EMIT([buffer |-> b, q |-> at, o |-> 0], early \o pre \o zeros, size)
  IN  EMIT(PutNumber(s1, num, size), late, size)

-----------------------------------------------------------------------------
(* The machine.                                                            *)

Normal ==
  /\ Reading("normal")
  /\ p' = p + 1
  /\ \/ /\ ch = "%"
        /\ state' = "flags"
        /\ flags' = {} /\ rank' = 0 /\ width' = 0 /\ prec' = -1
        /\ UNCHANGED out
     \/ /\ ch # "%"
        /\ LET s == EMIT([buffer |-> buffer, q |-> q, o |-> o], <<ch>>, n)
           IN  buffer' = s.buffer /\ q' = s.q /\ o' = s.o
        /\ UNCHANGED <<state, spec>>
  /\ UNCHANGED <<fmt, n, format, args, stored>>

Flags ==
  /\ Reading("flags")
  /\ IF ch \in {"-", "+", "'", " ", "#", "0"}
     THEN flags' = flags \cup {ch} /\ p' = p + 1 /\ UNCHANGED state
     ELSE state' = "width" /\ UNCHANGED <<flags, p>>
  /\ UNCHANGED <<fmt, n, format, args, width, prec, rank, out, stored>>

IsDigit(c) == c \in DigitsOf(10)

\* A field width from the arguments: a negative one means left-justified.
Star(w) ==
  /\ width' = IF w < 0 THEN -w ELSE w
  /\ flags' = IF w < 0 THEN flags \cup {"-"} ELSE flags

Width ==
  /\ Reading("width")
  /\ \/ /\ IsDigit(ch)
        /\ width' = width * 10 + digitval(ch) /\ p' = p + 1
        /\ UNCHANGED <<state, flags, prec, args>>
     \/ /\ ch = "*"
        /\ \E a \in va_arg : Star(a.int)
        /\ args' = va_rest /\ p' = p + 1
        /\ UNCHANGED <<state, prec>>
     \/ /\ ch = "."
        /\ prec' = 0 /\ state' = "prec" /\ p' = p + 1
        /\ UNCHANGED <<width, flags, args>>
     \/ /\ ~IsDigit(ch) /\ ch \notin {"*", "."}
        /\ state' = "modifiers"
        /\ UNCHANGED <<p, width, flags, prec, args>>
  /\ UNCHANGED <<fmt, n, format, rank, out, stored>>

Prec ==
  /\ Reading("prec")
  /\ \/ /\ IsDigit(ch)
        /\ prec' = prec * 10 + digitval(ch) /\ p' = p + 1
        /\ UNCHANGED <<state, args>>
     \/ /\ ch = "*"
        /\ \E a \in va_arg : prec' = IF a.int < 0 THEN -1 ELSE a.int
        /\ args' = va_rest /\ p' = p + 1
        /\ UNCHANGED state
     \/ /\ ~IsDigit(ch) /\ ch # "*"
        /\ state' = "modifiers"
        /\ UNCHANGED <<p, prec, args>>
  /\ UNCHANGED <<fmt, n, format, flags, width, rank, out, stored>>

LengthModifiers == {"h", "l", "j", "z", "t", "L", "q"}

\* The rank after a length modifier.
Modified(r, c) ==
  CASE c = "h" -> r - 1
    [] c = "l" -> r + 1
    [] c = "j" -> 2
    [] c \in {"z", "t"} -> 1
    [] c \in {"L", "q"} -> r + 2

Modifiers ==
  /\ Reading("modifiers")
  /\ ch \in LengthModifiers
  /\ rank' = Modified(rank, ch)
  /\ p' = p + 1
  /\ UNCHANGED <<fmt, n, format, args, state, flags, width, prec, out, stored>>

Canonical(r) == IF r > 2 THEN 2 ELSE IF r < -2 THEN -2 ELSE r

\* An argument converted to a type of this width, as a uintmax_t.
SignedVal(x, bits) ==
  LET u == x % Power(2, bits)
  IN  UMax(IF u >= Power(2, bits - 1) THEN u - Power(2, bits) ELSE u)
UnsignedVal(x, bits) == x % Power(2, bits)

BaseOf(c) == CASE c \in {"d", "i", "u"} -> 10 [] c = "o" -> 8
               [] c \in {"x", "X", "p", "P"} -> 16

\* Mutant of Converted: the conversion is processed again.
Converted_Again == state' = "normal" /\ p' = p

\* Back to st_normal after the conversion.
Converted == state' = "normal" /\ p' = p + 1

IntegerConversions == {"d", "i", "u", "o", "x", "X", "p", "P"}

Integer ==
  /\ Reading("modifiers")
  /\ ch \in IntegerConversions
  /\ \E a \in va_arg :
       LET pointer == ch \in {"p", "P"}
           bits == IF pointer THEN PointerBits ELSE RankBits[Canonical(rank)]
           signed == ch \in {"d", "i"}
           val == IF signed THEN SignedVal(a.int, bits) ELSE UnsignedVal(a.int, bits)
           fl  == IF pointer THEN flags \cup {"#"} ELSE flags
           pr  == IF pointer THEN (PointerBits + 3) \div 4 ELSE prec
           s   == format_int(buffer, q, IF o < n THEN n - o ELSE 0, val, fl, signed,
                             ch \in {"X", "P"}, BaseOf(ch), width, pr)
       IN  buffer' = s.buffer /\ q' = q + s.o /\ o' = o + s.o
  /\ args' = va_rest
  /\ Converted
  /\ UNCHANGED <<fmt, n, format, spec, stored>>

\* %c and %s; a NULL string is printed as (null).
NullText == <<"(", "n", "u", "l", "l", ")">>

String ==
  /\ Reading("modifiers")
  /\ ch \in {"c", "s"} /\ prec >= -1
  /\ \E a \in va_arg :
       LET sarg == IF ch = "c" THEN <<a.chr>>
                   ELSE IF a.str = <<"NULL">> THEN NullText ELSE a.str
           slen == IF prec # -1 /\ Len(sarg) > prec THEN prec ELSE Len(sarg)
           fill == IF width > slen THEN width - slen ELSE 0
           pad  == Times(IF "0" \in flags /\ "-" \notin flags THEN "0" ELSE " ", fill)
           body == SubSeq(sarg, 1, slen)
           s == EMIT([buffer |-> buffer, q |-> q, o |-> o],
                     IF "-" \in flags THEN body \o pad ELSE pad \o body, n)
       IN  buffer' = s.buffer /\ q' = s.q /\ o' = s.o
  /\ args' = va_rest
  /\ Converted
  /\ UNCHANGED <<fmt, n, format, spec, stored>>

\* A precision of * with a negative argument and then digits leaves prec below
\* -1, and with it slen: the loop that counts slen down to 0 fills the buffer
\* from whatever is behind the string.
Runaway ==
  LET s == EMIT([buffer |-> buffer, q |-> q, o |-> o], Times("junk", n), n)
  IN
  /\ Reading("modifiers")
  /\ ch \in {"c", "s"} /\ prec < -1
  /\ buffer' = s.buffer /\ q' = s.q /\ o' = s.o
  /\ state' = "lost" /\ p' = p + 1 /\ args' = va_rest
  /\ UNCHANGED <<fmt, n, format, spec, stored>>

OutputSoFar == o

\* %n stores the number of characters output so far.
Count ==
  /\ Reading("modifiers")
  /\ ch = "n"
  /\ stored' = Append(stored, OutputSoFar % Power(2, RankBits[Canonical(rank)]))
  /\ args' = va_rest    \* the pointer
  /\ Converted
  /\ UNCHANGED <<fmt, n, format, spec, out>>

\* Anything else, including %.
Other ==
  LET s == EMIT([buffer |-> buffer, q |-> q, o |-> o], <<ch>>, n)
  IN
  /\ Reading("modifiers")
  /\ ch \notin LengthModifiers
       \cup IntegerConversions \cup {"c", "s", "n"}
  /\ buffer' = s.buffer /\ q' = s.q /\ o' = s.o
  /\ Converted
  /\ UNCHANGED <<fmt, n, format, args, spec, stored>>

\* The cell that the terminating NUL is stored in, if any.
EndOfText == IF o < n THEN {q} ELSE IF n > 0 THEN {n - 1} ELSE {}

Terminate ==
  /\ state \notin {"done", "lost"} /\ p > Len(format)
  /\ buffer' = [x \in DOMAIN buffer |-> IF x \in EndOfText THEN NUL ELSE buffer[x]]
  /\ state' = "done"
  /\ UNCHANGED <<fmt, n, format, p, args, spec, q, o, stored>>

\* vsnprintf has returned o, or never will.
Returned == state \in {"done", "lost"} /\ UNCHANGED fvars

FNext ==
  \/ Normal \/ Flags \/ Width \/ Prec \/ Modifiers
  \/ Integer \/ String \/ Runaway \/ Count \/ Other \/ Terminate \/ Returned

FSpec == FInit /\ [][FNext]_fvars

-----------------------------------------------------------------------------
(* What the directives mean, without the machine.  Besides its characters  *)
(* a directive has its meaning: w is the field width (negative: left       *)
(* justified), pr the precision (-1: none), bits the width of the type.    *)

Numeral(v, base, upper) ==
  LET D == IF upper THEN ucdigits ELSE lcdigits
      f[x \in 0 .. v] == IF x < base THEN <<D[x + 1]>>
                         ELSE Append(f[x \div base], D[(x % base) + 1])
  IN  f[v]

Grouped(s, k) ==
  FlattenSeq([i \in DOMAIN s |-> IF i > 1 /\ (Len(s) - i + 1) % k = 0
                                 THEN <<"_", s[i]>> ELSE <<s[i]>>])

Has(d, f) == \E i \in DOMAIN d.flags : d.flags[i] = f
Fill(d, s) == LET w == IF d.w < 0 THEN -d.w ELSE d.w
              IN  IF w > Len(s) THEN w - Len(s) ELSE 0
Left(d) == Has(d, "-") \/ d.w < 0

Arg(d) == d.args[Len(d.args)]

\* The number to be printed.
NumberOf(d) == LET u == Arg(d).int % 2^d.bits
               IN  IF d.conv \in {"d", "i"} /\ u >= 2^(d.bits - 1)
                   THEN u - 2^d.bits ELSE u

IntegerText(d) ==
  LET x == NumberOf(d)
      pointer == d.conv \in {"p", "P"}
      hash == Has(d, "#") \/ pointer
      upper == d.conv \in {"X", "P"}
      num == Numeral(IF x < 0 THEN -x ELSE x, BaseOf(d.conv), upper)
      least == IF pointer THEN (PointerBits + 3) \div 4 ELSE d.pr
      padded == Times("0", least - Len(num)) \o num
      octal == IF hash /\ d.conv = "o" /\ Head(padded) # "0"
               THEN <<"0">> \o padded ELSE padded
      digits == IF Has(d, "'") THEN Grouped(octal, IF BaseOf(d.conv) = 16 THEN 4 ELSE 3)
                ELSE octal
      sign == IF x < 0 THEN <<"-">> ELSE IF Has(d, "+") THEN <<"+">>
              ELSE IF Has(d, " ") THEN <<" ">> ELSE <<>>
      head == sign \o (IF hash /\ BaseOf(d.conv) = 16
                       THEN <<"0", IF upper THEN "X" ELSE "x">> ELSE <<>>)
      fill == Fill(d, head \o digits)
  IN  IF Left(d) THEN head \o digits \o Times(" ", fill)
      ELSE IF Has(d, "0") THEN head \o Times("0", fill) \o digits
      ELSE Times(" ", fill) \o head \o digits

StringText(d) ==
  LET s == IF d.conv = "c" THEN <<Arg(d).chr>>
           ELSE IF Arg(d).str = <<"NULL">> THEN NullText ELSE Arg(d).str
      t == IF d.pr >= 0 THEN SubSeq(s, 1, Smaller(d.pr, Len(s))) ELSE s
  IN  IF Left(d) THEN t \o Times(" ", Fill(d, t))
      ELSE Times(IF Has(d, "0") THEN "0" ELSE " ", Fill(d, t)) \o t

Text(d) ==
  CASE d.conv = "" -> d.flags
    [] d.conv \in IntegerConversions -> IntegerText(d)
    [] d.conv \in {"c", "s"} -> StringText(d)
    [] d.conv = "n" -> <<>>
    [] OTHER -> <<d.conv>>

WholeText == FlattenSeq([i \in DOMAIN fmt |-> Text(fmt[i])])

-----------------------------------------------------------------------------
(* Properties.                                                             *)

\* vsnprintf never stores behind the n cells it is given, also where a field
\* begins inside the buffer and ends outside, and where digits are written
\* from right to left.
WithinBuffer ==
  FTypeOK /\ \A x \in DOMAIN buffer : x >= n => buffer[x] = Blank

\* What the directives %n should store.
Counts ==
  LET at == SelectSeq([i \in DOMAIN fmt |-> i], LAMBDA i : fmt[i].conv = "n")
  IN  [j \in DOMAIN at |->
         Len(FlattenSeq([i \in 1 .. at[j] - 1 |-> Text(fmt[i])])) % 2^fmt[at[j]].bits]

\* The result: the return value is the length of the whole text, and the
\* buffer holds as much of it as fits, terminated, however the directives,
\* their fields and the end of the buffer fall together.  Each %n has stored
\* how many characters the directives before it would produce, also when they
\* did not fit.
Rendered ==
  state = "done" =>
    LET text == WholeText
        k == Smaller(Len(text), n - 1)
    IN  /\ o = Len(text)
        /\ stored = Counts
        /\ n > 0 => /\ \A x \in 0 .. k - 1 : buffer[x] = text[x + 1]
                    /\ buffer[k] = NUL

\* What printf writes, strntoumax reads: the number without tick marks gives
\* the value that was printed, and the whole field is consumed.
ReadsBack ==
  state = "done" /\ Len(fmt) = 1 /\ o < n =>
    LET d == fmt[1]
        r == strntoumax([i \in 1 .. o |-> buffer[i - 1]], BaseOf(d.conv))
    IN  d.conv \in IntegerConversions /\ ~Has(d, "'") =>
          r.val = UMax(NumberOf(d)) /\ (~Left(d) => r.end = o + 1)

\* The order in which the machine goes through its states for a directive.
Stage(st) == CASE st = "normal" -> 0 [] st = "flags" -> 1 [] st = "width" -> 2
               [] st = "prec" -> 3 [] st = "modifiers" -> 4 [] st \in {"done", "lost"} -> 5

\* The machine that sometimes processes a character again reaches the end of
\* every format: no step stays at a character without going to a later state.
Advances == [][p' > p \/ (p' = p /\ Stage(state') > Stage(state))]_fvars
=============================================================================
