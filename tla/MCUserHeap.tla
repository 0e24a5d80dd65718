----------------------------- MODULE MCUserHeap -----------------------------
(* Instances of UserHeap for TLC.  A page has 16 bytes, region 1 starts at *)
(* byte 16, its pages 1 and 2 hold data and the stack starts at page 9.    *)
EXTENDS UserHeap
MCIncrements == {-20, 4, 24}
=============================================================================
