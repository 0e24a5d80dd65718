------------------------------- MODULE MCTlb --------------------------------
(* Instances of Memory and Tlb for TLC, in which Exec, Brk and the growth  *)
(* of the stack happen MaxCalls times at most: otherwise TLC would         *)
(* enumerate the orders in which pfn_list can hold the same frames.        *)
EXTENDS Tlb

CONSTANT MaxCalls  \* bound: calls of Exec, Brk and TrapMemoryHandler

VARIABLE calls     \* how many there have been

\* A small program and one with a second page of data.
Small == [text |-> 1, data |-> 1, stack |-> 1]
Large == [text |-> 1, data |-> 2, stack |-> 1]
SmallAndLarge == {Small, Large}

MCInit == TInit /\ calls = 0

MCNext ==
  \/ calls < MaxCalls /\ (Exec \/ Resize) /\ calls' = calls + 1
  \/ /\ \/ Fork
        \/ \E i \in Page : Touch(i)
        \/ \E q \in Proc \cup {0} : Switch(q) \/ End(q)
     /\ UNCHANGED calls

MCSpec == MCInit /\ [][MCNext]_<<tvars, calls>>
=============================================================================
