----------------------------- MODULE ByteStream -----------------------------
(***************************************************************************)
(* What the terminals' line buffers and the pipes promise: streams of      *)
(* bytes.  Bytes are accepted at one end as long as there is room and      *)
(* delivered at the other, in the same order, none lost and none twice.    *)
(***************************************************************************)
EXTENDS Integers, Sequences

CONSTANTS Streams, Capacity

VARIABLES
  accepted,    \* all bytes that were ever put into each stream
  delivered    \* all bytes that were ever taken out of it

InTransit(s) == Len(accepted[s]) - Len(delivered[s])

Init ==
  /\ accepted = [s \in Streams |-> <<>>]
  /\ delivered = [s \in Streams |-> <<>>]

\* What was accepted before is extended within the capacity.
Accept(s) ==
  /\ accepted' = [accepted EXCEPT ![s] = accepted'[s]]
  /\ Len(accepted'[s]) > Len(accepted[s])
  /\ SubSeq(accepted'[s], 1, Len(accepted[s])) = accepted[s]
  /\ InTransit(s)' <= Capacity
  /\ UNCHANGED delivered

\* The oldest bytes in transit leave.
Deliver(s) ==
  /\ \E n \in 1 .. InTransit(s) :
       delivered' = [delivered EXCEPT ![s] = SubSeq(accepted[s], 1, Len(@) + n)]
  /\ UNCHANGED accepted

Next == \E s \in Streams : Accept(s) \/ Deliver(s)

Spec == Init /\ [][Next]_<<accepted, delivered>>
=============================================================================
