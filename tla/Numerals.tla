------------------------------ MODULE Numerals ------------------------------
(***************************************************************************)
(* Reading numbers: strntoumax of the user library (yuserlib/common).      *)
(* Characters are strings of length one, a text is a sequence of them.     *)
(***************************************************************************)
EXTENDS Integers, Sequences, SequencesExt

CONSTANT MaxBits    \* the width of uintmax_t

ASSUME MaxBitsAssumption == MaxBits \in Nat \ {0}

lcdigits == <<"0","1","2","3","4","5","6","7","8","9","a","b","c","d","e","f">>
ucdigits == <<"0","1","2","3","4","5","6","7","8","9","A","B","C","D","E","F">>

\* b to the power of k, for the widths of integer types.
Power(b, k) ==
  LET pow[i \in 0 .. MaxBits] == IF i = 0 THEN 1 ELSE b * pow[i - 1]
  IN  pow[k]

\* Arithmetic of uintmax_t.
UMax(v) == v % Power(2, MaxBits)

\* The value of a digit, or -1.
digitval(ch) ==
  LET d == {i \in 1 .. 16 : lcdigits[i] = ch \/ ucdigits[i] = ch}
  IN  IF d = {} THEN -1 ELSE (CHOOSE i \in d : TRUE) - 1

\* The characters of s from position i on that are all in the set C: the
\* position after them.
SkipIn(s, i, C) ==
  CHOOSE j \in i .. Len(s) + 1 :
    /\ \A k \in i .. j - 1 : s[k] \in C
    /\ j = Len(s) + 1 \/ s[j] \notin C

At(s, i) == IF i \in DOMAIN s THEN s[i] ELSE ""

HexPrefix(s, i) == At(s, i) = "0" /\ At(s, i + 1) \in {"x", "X"}

\* The digits that a number of this base is made of.
DigitsOf(base) == {c \in {lcdigits[i] : i \in 1 .. 16} \cup {ucdigits[i] : i \in 1 .. 16} :
                     digitval(c) < base}

\* Mutant of strntoumax: the sign is skipped and forgotten.
strntoumax_NoSign(s, base) ==
  LET p0 == SkipIn(s, 1, {" "})
      p1 == IF At(s, p0) \in {"-", "+"} THEN p0 + 1 ELSE p0
      b  == CASE base # 0 -> base
              [] base = 0 /\ HexPrefix(s, p1) -> 16
              [] base = 0 /\ ~HexPrefix(s, p1) /\ At(s, p1) = "0" -> 8
              [] OTHER -> 10
      p2 == IF b = 16 /\ HexPrefix(s, p1) THEN p1 + 2
            ELSE IF base = 0 /\ b = 8 THEN p1 + 1 ELSE p1
      p3 == SkipIn(s, p2, DigitsOf(b))
  IN  [val |-> FoldLeft(LAMBDA v, c : UMax(v * b + digitval(c)), 0, SubSeq(s, p2, p3 - 1)),
       end |-> p3]

\* The number at the beginning of s, and the position after it.  The text is
\* cut to the length given before the call.
strntoumax(s, base) ==
  LET p0 == SkipIn(s, 1, {" "})
      minus == At(s, p0) = "-"
      p1 == IF At(s, p0) \in {"-", "+"} THEN p0 + 1 ELSE p0
      b  == CASE base # 0 -> base
              [] base = 0 /\ HexPrefix(s, p1) -> 16
              [] base = 0 /\ ~HexPrefix(s, p1) /\ At(s, p1) = "0" -> 8
              [] OTHER -> 10
      p2 == IF b = 16 /\ HexPrefix(s, p1) THEN p1 + 2
            ELSE IF base = 0 /\ b = 8 THEN p1 + 1 ELSE p1
      p3 == SkipIn(s, p2, DigitsOf(b))
      v  == FoldLeft(LAMBDA x, c : UMax(x * b + digitval(c)), 0, SubSeq(s, p2, p3 - 1))
  IN  [val |-> UMax(IF minus THEN -v ELSE v), end |-> p3]
=============================================================================
