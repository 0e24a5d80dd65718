------------------------------ MODULE MCPrintf ------------------------------
(* Instances of Printf for TLC.  char has 3 bits, short 4, int and long 5, *)
(* long long 6.                                                            *)
EXTENDS Printf

MCRankBits == [r \in -2 .. 2 |-> IF r = -2 THEN 3 ELSE IF r = -1 THEN 4
                                 ELSE IF r = 2 THEN 6 ELSE 5]

\* The characters of a number below 100.
Written(k) == IF k < 10 THEN <<lcdigits[k + 1]>>
              ELSE <<lcdigits[k \div 10 + 1], lcdigits[(k % 10) + 1]>>

\* Length modifiers and the rank they stand for.
Mods == {<<>>, <<"h">>, <<"h", "h">>, <<"h", "h", "h">>, <<"l">>,
         <<"l", "l">>, <<"j">>, <<"z">>, <<"q">>}
RankOf(m) ==
  CASE m = <<>> -> 0 [] m = <<"h">> -> -1
    [] m \in {<<"h", "h">>, <<"h", "h", "h">>} -> -2
    [] m \in {<<"l">>, <<"z">>} -> 1
    [] OTHER -> 2

\* An argument that is an integer, a character or a string.
AnInt(x)  == [int |-> x, chr |-> "?", str |-> <<>>]
AChar(c)  == [int |-> 0, chr |-> c, str |-> <<>>]
AText(s)  == [int |-> 0, chr |-> "?", str |-> s]

\* A directive with this width and precision, each written in the format or
\* taken from the arguments (0 and -1 in the format: left out).
Directive(fl, wstar, w, pstar, pr, mods, conv, arg) ==
  [flags |-> fl, w |-> w, pr |-> IF pr < 0 THEN -1 ELSE pr, mods |-> mods, conv |-> conv,
   bits |-> IF conv \in {"p", "P"} THEN PointerBits ELSE MCRankBits[RankOf(mods)],
   width |-> IF wstar THEN <<"*">> ELSE IF w > 0 THEN Written(w) ELSE <<>>,
   prec |-> IF pstar THEN <<".", "*">> ELSE IF pr >= 0 THEN <<".">> \o Written(pr) ELSE <<>>,
   args |-> (IF wstar THEN <<AnInt(w)>> ELSE <<>>)
            \o (IF pstar THEN <<AnInt(pr)>> ELSE <<>>) \o arg]

Plain(s) == Directive(s, FALSE, 0, FALSE, -1, <<>>, "", <<>>)
Simple(conv, arg) == Directive(<<>>, FALSE, 0, FALSE, -1, <<>>, conv, arg)

FlagSeqs == {<<>>, <<"-">>, <<"0">>, <<"+">>, <<" ", "0">>, <<"#">>, <<"#", "0">>,
             <<"-", "0", "#">>, <<"'">>, <<"'", "#", "+">>}

\* Every flag, width and precision with every conversion of integers.
Integers1 ==
  { Directive(fl, FALSE, w, FALSE, pr, <<>>, c, <<AnInt(x)>>) :
      fl \in FlagSeqs, w \in {0, 5}, pr \in {-1, 0, 4}, c \in {"d", "u", "o", "x", "X"},
      x \in {0, 9, 31} }

\* Every type, with values that do not fit into the smaller ones.
Integers2 ==
  { Directive(<<>>, FALSE, 0, FALSE, -1, m, c, <<AnInt(x)>>) :
      m \in Mods, c \in {"i", "u", "o"}, x \in {0, 5, 13, 16, 31} }

\* Widths and precisions from the arguments, also negative ones.
Stars ==
  { Directive(fl, TRUE, w, ps, pr, <<>>, c, <<AnInt(x)>>) :
      fl \in {<<>>, <<"0">>}, w \in {-4, 0, 4}, ps \in BOOLEAN, pr \in {-1, 0, 2},
      c \in {"d", "x"}, x \in {7, 30} }

Strings ==
  { Directive(fl, FALSE, w, FALSE, pr, <<>>, "s", <<AText(s)>>) :
      fl \in {<<>>, <<"-">>, <<"0">>}, w \in {0, 12}, pr \in {-1, 0, 2},
      s \in {<<>>, <<"a", "b", "c">>, <<"NULL">>} }

Rest1 == { Simple("c", <<AChar("k")>>), Simple("%", <<>>), Simple("y", <<>>),
           Simple("n", <<AnInt(0)>>), Plain(<<"a", "b">>), Simple("p", <<AnInt(19)>>),
           Simple("P", <<AnInt(31)>>), Directive(<<"'">>, FALSE, 10, FALSE, 7, <<>>, "d", <<AnInt(21)>>) }

\* Digits behind the star of a precision.
StarAndDigits ==
  { [Directive(<<>>, FALSE, 0, TRUE, -1, <<>>, c, <<[AnInt(7) EXCEPT !.str = <<"a", "b">>]>>)
       EXCEPT !.prec = <<".", "*", "3">>] : c \in {"d", "o", "s"} }

Single == StarAndDigits \cup Integers1 \cup Integers2 \cup Stars \cup Strings \cup Rest1

MCFormats1 == { <<d>> : d \in Single }

\* A directive after another, so that each may meet the end of the buffer.
Few == Rest1 \cup
  { Directive(<<>>, FALSE, 4, FALSE, -1, <<>>, "d", <<AnInt(29)>>),
    Directive(<<"-">>, FALSE, 4, FALSE, -1, <<>>, "d", <<AnInt(5)>>),
    Directive(<<"0", "#">>, FALSE, 6, FALSE, -1, <<"h">>, "x", <<AnInt(11)>>),
    Directive(<<>>, TRUE, -3, TRUE, 1, <<>>, "s", <<AText(<<"a", "b">>)>>),
    Directive(<<>>, FALSE, 0, FALSE, -1, <<"h", "h">>, "n", <<AnInt(0)>>) }

MCFormats2 == { <<d, e>> : d \in Few, e \in Few } \cup { <<d, e, d>> : d \in Few, e \in Few }

MCDirectives == Single \cup Few
MCCharacters == STRING
MCArguments == UNION {{d.args[i] : i \in DOMAIN d.args} : d \in MCDirectives}

MCFormats == MCFormats1 \cup MCFormats2
=============================================================================
