------------------------------ MODULE QueueOps ------------------------------
(***************************************************************************)
(* The kernel's queues of PCBs (queue.c) as sequences, head first.  A      *)
(* queue holds each process at most once in a correct run, so what a loop  *)
(* "pop every element, add some of them back" leaves behind is described   *)
(* by the set of elements that survive it: it keeps their order.           *)
(*                                                                         *)
(* The operators are defined without recursion so that theorems about the  *)
(* modules using them can be proved.                                       *)
(***************************************************************************)
EXTENDS Integers, Sequences, FiniteSets

\* The processes in a queue.
Elems(q) == {q[i] : i \in DOMAIN q}

\* No process is in the queue twice.
NoDup(q) == \A i, j \in DOMAIN q : q[i] = q[j] => i = j

\* queue_pop: the head, or the given default when the queue is empty.
PopOr(q, default) == IF q = <<>> THEN default ELSE Head(q)

\* The same as a sequence, empty when the queue is.
PopSeq(q) == IF q = <<>> THEN <<>> ELSE <<Head(q)>>

\* Mutant of AfterPop: queue_peek in the place of queue_pop.
AfterPop_Peek(q) == q

\* queue_pop: what it leaves.
AfterPop(q) == IF q = <<>> THEN q ELSE Tail(q)

\* The positions of q that hold a member of S.
Kept(q, S) == {i \in DOMAIN q : q[i] \in S}

\* The rank of position i among those positions.
Rank(I, i) == Cardinality({j \in I : j <= i})

\* The subsequence of the members of S: one full rotation of a queue
\* (limit = size; limit times: queue_pop, then queue_add if in S).
Keep(q, S) ==
  LET I == Kept(q, S)
  IN  [k \in 1 .. Cardinality(I) |-> q[CHOOSE i \in I : Rank(I, i) = k]]

\* A rotation that stops after popping position i: the elements before i
\* have been added back behind the ones after it, and q[i] is out.
RotateOut(q, i) == SubSeq(q, i + 1, Len(q)) \o SubSeq(q, 1, i - 1)

\* The first position of q that holds a member of S.
FirstIn(q, S) ==
  CHOOSE i \in Kept(q, S) : \A j \in Kept(q, S) : i <= j

=============================================================================
