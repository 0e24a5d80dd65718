---------------------------- MODULE MCProcessTty ----------------------------
(* Instances of ProcessTty for TLC.                                        *)
EXTENDS ProcessTty
=============================================================================
