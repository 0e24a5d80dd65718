------------------------------- MODULE MCTty --------------------------------
(* Instances of Tty for TLC: what a user types at a terminal.              *)
EXTENDS Tty

\* Two lines, of two and of three bytes.
TwoLines == {<<"a", "nl">>, <<"b", "c", "nl">>}

=============================================================================
