---------------------------- MODULE MCKernelHeap ----------------------------
(* Instances of KernelHeap for TLC.                                        *)
EXTENDS KernelHeap
=============================================================================
