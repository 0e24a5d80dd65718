------------------------------ MODULE MCDelay -------------------------------
(* Instances of DelayTiming for TLC.                                       *)
EXTENDS DelayTiming
=============================================================================
