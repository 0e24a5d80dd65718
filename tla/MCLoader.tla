------------------------------ MODULE MCLoader ------------------------------
(* Instances of Loader for TLC: up to three arguments of up to four        *)
(* characters in a region of eight pages.                                  *)
EXTENDS Loader

MCChars == {<<"char", i, k>> : i \in 1 .. 3, k \in 1 .. 4}

\* A name of n characters; the characters of argument i are told apart.
Name(i, n) == [k \in 1 .. n |-> <<"char", i, k>>]

MCArgLists ==
  UNION {{[i \in 1 .. c |-> Name(i, len[i])] : len \in [1 .. c -> 0 .. 4]}
         : c \in 0 .. 3}

MCFiles == [t_npg : {1}, id_npg : {1}, ud_npg : {0, 2, 4}]
=============================================================================
