---------------------------- MODULE MemoryProofs ----------------------------
(***************************************************************************)
(* Proofs about page frames (module Memory) and the translation lookaside  *)
(* buffer (module Tlb): no frame has two owners, none is lost, the heap    *)
(* has no hole, and only what Brk gave up can be stale in the buffer.      *)
(* Then about the program loader (module Loader): what LoadProgram writes  *)
(* into the new stack is what main finds there.                            *)
(***************************************************************************)
EXTENDS Loader, Tlb, QueueTheorems

\* The frames in a page table, and all that belong to a process.
TableFrames(t) == {t[i] : i \in {j \in Page : t[j] # INVALID_FRAME}}
Parts(k, t) == Elems(k) \cup TableFrames(t)
Held(p) == Parts(kernel_stack[p], page_table[p])

\* No frame is in a page table twice.
OnceIn(t) == \A i, j \in Page : t[i] # INVALID_FRAME /\ t[i] = t[j] => i = j

\* Tables without the entries that a failing LoadProgram leaves.
Tables == [Page -> {INVALID_FRAME} \cup Frame]

\* A kernel stack, a page table and the list l have no frame in common, and
\* none of the first two holds a frame twice.
Apart(k, t, l) ==
  /\ t \in Tables /\ OnceIn(t) /\ NoDup(k)
  /\ Elems(k) \cap TableFrames(t) = {}
  /\ Parts(k, t) \cap Elems(l) = {}

\* A live process: where its segments are, and that they are mapped.
Segment(p) ==
  /\ 1 <= data_index[p] /\ data_index[p] < heap_index[p]
  /\ heap_index[p] < stack_index[p] /\ stack_index[p] <= NumPages
  /\ data_index[p] .. heap_index[p] - 1 \subseteq Valid(p)
  /\ stack_index[p] .. NumPages \subseteq Valid(p)

Segments == \A p \in Proc : state[p] = "live" => Segment(p)

\* Every frame has one owner at most.
Owners ==
  "exec" \notin mishaps =>
    /\ pfn_list \in Seq(Frame) /\ NoDup(pfn_list)
    /\ \A p \in Holders : Apart(kernel_stack[p], page_table[p], pfn_list)
    /\ \A p, q \in Holders : p # q => Held(p) \cap Held(q) = {}

\* Every frame has an owner.
Owned ==
  mishaps \subseteq {"brk", "stack"} =>
    /\ \A f \in Frame : f \in Elems(pfn_list) \/ \E p \in Holders : f \in Held(p)
    /\ \A p \in Holders : state[p] = "live"

\* A process that has not been made has an empty page table.
Blank == \A p \in Proc : state[p] = "none" => page_table[p] = EmptyTable

MemoryInv == TypeOK /\ Segments /\ Owners /\ Owned /\ Blank

-----------------------------------------------------------------------------
(* Taking frames from the list.                                            *)

LEMMA Sizes ==
  /\ NumFrames \in Nat /\ NumPages \in Nat /\ MaxProc \in Nat
  /\ NumFrames >= 1 /\ NumPages >= 1 /\ MaxProc >= 1
  /\ KStackSize \in Nat /\ KernelPages \in Nat /\ KStackSize >= 1
  BY SizeAssumption

\* The frames that AllocatePFN returns are at the end of the list, behind
\* the last 0.
LEMMA UsableSuffix ==
  ASSUME NEW l \in Seq({0} \cup Frame)
  PROVE  /\ Usable(l) \in Nat /\ Usable(l) <= Len(l)
         /\ \A k \in 1 .. Usable(l) : Got(l, k) \in Frame
         /\ l \in Seq(Frame) => Usable(l) = Len(l)
<1> DEFINE zeros == {i \in DOMAIN l : l[i] = 0}
           I == {i \in DOMAIN l : \A z \in zeros : z < i}
<1>1. Len(l) \in Nat /\ DOMAIN l = 1 .. Len(l) /\ \A i \in 1 .. Len(l) : l[i] \in {0} \cup Frame
  OBVIOUS
<1>2. PICK z \in zeros \cup {0} : \A j \in zeros \cup {0} : j <= z
  <2>1. zeros \cup {0} \in SUBSET (0 .. Len(l))
    BY <1>1
  <2> HIDE DEF zeros
  <2> QED
    BY <1>1, <2>1, GreatestExists
<1>3. z \in 0 .. Len(l)
  BY <1>1
<1>4. I = z + 1 .. Len(l)
  <2>1. ASSUME NEW i \in I
        PROVE  i \in z + 1 .. Len(l)
    <3>1. i \in 1 .. Len(l) /\ (z \in zeros => z < i)
      BY <1>1
    <3>2. z \in zeros \/ z = 0
      BY <1>2
    <3> QED
      BY <1>1, <1>3, <3>1, <3>2
  <2>2. ASSUME NEW i \in z + 1 .. Len(l)
        PROVE  i \in I
    <3>1. i \in DOMAIN l
      BY <1>1, <1>3
    <3>2. ASSUME NEW y \in zeros
          PROVE  y < i
      <4>1. y \in Int /\ y <= z
        BY <1>1, <1>2
      <4> QED
        BY <1>3, <4>1
    <3> QED
      BY <3>1, <3>2
  <2> QED
    BY <2>1, <2>2
<1>5. Usable(l) = Cardinality(I)
  BY DEF Usable
<1>6. Cardinality(I) = Len(l) - z
  <2>0. z + 1 \in Int /\ Len(l) \in Int
    BY <1>1, <1>3
  <2>1. Cardinality(z + 1 .. Len(l)) = IF z + 1 > Len(l) THEN 0 ELSE Len(l) - (z + 1) + 1
    BY <2>0, FS_Interval
  <2> HIDE DEF I
  <2> QED
    BY <1>1, <1>3, <1>4, <2>1
<1>7. ASSUME NEW k \in 1 .. Usable(l)
      PROVE  Got(l, k) \in Frame
  <2>1. Len(l) + 1 - k \in z + 1 .. Len(l)
    <3> HIDE DEF I
    <3> QED
      BY <1>1, <1>3, <1>5, <1>6
  <2>2. Len(l) + 1 - k \in 1 .. Len(l)
    BY <1>1, <1>3, <2>1
  <2>3. ~(Len(l) + 1 - k <= z)
    BY <1>1, <1>3, <2>1
  <2>4. Len(l) + 1 - k \notin zeros
    BY <1>2, <2>3
  <2> QED
    BY <1>1, <2>2, <2>4 DEF Got
<1>8. ASSUME l \in Seq(Frame)
      PROVE  z = 0
  <2>1. \A i \in DOMAIN l : l[i] \in Frame
    BY <1>8
  <2>2. \A i \in DOMAIN l : l[i] # 0
    BY <2>1 DEF Frame
  <2> QED
    BY <1>2, <2>2
<1> HIDE DEF I
<1>9. Usable(l) \in Nat /\ Usable(l) <= Len(l)
  BY <1>1, <1>3, <1>5, <1>6
<1> QED
  BY <1>1, <1>5, <1>6, <1>7, <1>8, <1>9

\* A loop that wants n frames leaves a prefix of the list.
LEMMA DrawnPrefix ==
  ASSUME NEW T, NEW l \in Seq(T), NEW n \in Nat, T \subseteq {0} \cup Frame
  PROVE  /\ Drawn(l, n) \in Seq(T)
         /\ Len(Drawn(l, n)) <= Len(l)
         /\ \A i \in 1 .. Len(Drawn(l, n)) : Drawn(l, n)[i] = l[i]
         /\ n <= Usable(l) => Len(Drawn(l, n)) = Len(l) - n
         /\ T = Frame /\ n > Usable(l) => Len(Drawn(l, n)) = 0
<1> DEFINE m == IF n <= Usable(l) THEN Len(l) - n ELSE Len(l) - Usable(l) - 1
           d == SubSeq(l, 1, m)
<1>1. l \in Seq({0} \cup Frame) /\ Len(l) \in Nat /\ \A i \in 1 .. Len(l) : l[i] \in T
  <2>1. Len(l) \in Nat /\ l \in [1 .. Len(l) -> T]
    OBVIOUS
  <2>2. l \in [1 .. Len(l) -> {0} \cup Frame]
    BY <2>1
  <2> QED
    BY <2>1, <2>2
<1>2. Usable(l) \in Nat /\ Usable(l) <= Len(l) /\ (T = Frame => Usable(l) = Len(l))
  BY <1>1, UsableSuffix
<1>3. m \in Int /\ m <= Len(l)
  BY <1>1, <1>2
<1>4. Drawn(l, n) = d
  BY DEF Drawn
<1>5. n <= Usable(l) => m = Len(l) - n /\ m >= 0
  BY <1>1, <1>2
<1>6. T = Frame /\ n > Usable(l) => m < 1
  BY <1>1, <1>2
<1> HIDE DEF m
<1>7. /\ d \in Seq(T) /\ Len(d) = IF 1 <= m THEN m - 1 + 1 ELSE 0
      /\ \A i \in 1 .. m - 1 + 1 : d[i] = l[1 + i - 1]
  <2>1. \A i \in 1 .. m : l[i] \in T
    BY <1>1, <1>3
  <2> QED
    BY <1>3, <2>1, SubSeqProperties
<1> HIDE DEF d
<1>8. Len(d) <= Len(l) /\ (m >= 0 => Len(d) = m) /\ (m < 1 => Len(d) = 0)
  BY <1>1, <1>3, <1>7
<1>9. \A i \in 1 .. Len(d) : i \in 1 .. m - 1 + 1 /\ 1 + i - 1 = i
  BY <1>3, <1>7
<1>10. \A i \in 1 .. Len(d) : d[i] = l[i]
  BY <1>7, <1>9
<1> QED
  BY <1>4, <1>5, <1>6, <1>7, <1>8, <1>10

\* What it takes and what it leaves make up the list.
LEMMA DrawFrames ==
  ASSUME NEW l \in Seq(Frame), NoDup(l), NEW n \in Nat, NEW c \in Nat,
         c = IF n <= Usable(l) THEN n ELSE Usable(l)
  PROVE  /\ Drawn(l, n) \in Seq(Frame) /\ NoDup(Drawn(l, n))
         /\ Elems(Drawn(l, n)) \subseteq Elems(l)
         /\ \A k \in 1 .. c : Got(l, k) \in Elems(l) \ Elems(Drawn(l, n))
         /\ \A j, k \in 1 .. c : Got(l, j) = Got(l, k) => j = k
         /\ \A f \in Elems(l) : f \in Elems(Drawn(l, n)) \/ \E k \in 1 .. c : f = Got(l, k)
<1> DEFINE d == Drawn(l, n)
           N == Len(l)
           m == Len(d)
<1>1. N \in Nat /\ DOMAIN l = 1 .. N /\ l \in Seq({0} \cup Frame)
  OBVIOUS
<1>2. Usable(l) = N
  BY <1>1, UsableSuffix
<1>3. /\ d \in Seq(Frame) /\ m <= N /\ \A i \in 1 .. m : d[i] = l[i]
      /\ n <= N => m = N - n
      /\ n > N => m = 0
  BY <1>2, DrawnPrefix
<1>4. m \in Nat /\ DOMAIN d = 1 .. m
  BY <1>3
<1> HIDE DEF d, N, m
<1>5. c = N - m
  BY <1>1, <1>2, <1>3
<1>6. \A i \in 1 .. m : i \in 1 .. N
  BY <1>1, <1>3, <1>4
<1>7. NoDup(d) /\ Elems(d) \subseteq Elems(l)
  BY <1>1, <1>3, <1>4, <1>6 DEF NoDup, Elems
<1>8. \A k \in 1 .. c : /\ N + 1 - k \in 1 .. N /\ N + 1 - k \notin 1 .. m
                        /\ Got(l, k) = l[N + 1 - k]
  <2>1. \A k \in 1 .. c : N + 1 - k \in 1 .. N /\ N + 1 - k \notin 1 .. m
    BY <1>1, <1>3, <1>4, <1>5
  <2>2. \A k \in 1 .. c : Got(l, k) = l[N + 1 - k]
    BY DEF Got, N
  <2> QED
    BY <2>1, <2>2
<1>9. ASSUME NEW k \in 1 .. c
      PROVE  Got(l, k) \in Elems(l) \ Elems(d)
  <2>1. \A i \in 1 .. m : l[i] # l[N + 1 - k]
    BY <1>1, <1>6, <1>8 DEF NoDup
  <2>2. l[N + 1 - k] \in Elems(l)
    BY <1>1, <1>8 DEF Elems
  <2>3. l[N + 1 - k] \notin Elems(d)
    BY <1>3, <1>4, <2>1 DEF Elems
  <2> QED
    BY <1>8, <2>2, <2>3
<1>10. ASSUME NEW j \in 1 .. c, NEW k \in 1 .. c, Got(l, j) = Got(l, k)
       PROVE  j = k
  <2>1. N + 1 - j = N + 1 - k
    BY <1>1, <1>8, <1>10 DEF NoDup
  <2> QED
    BY <1>1, <2>1
<1>11. ASSUME NEW f \in Elems(l), f \notin Elems(d)
       PROVE  \E k \in 1 .. c : f = Got(l, k)
  <2>1. PICK i \in 1 .. N : f = l[i]
    BY <1>1 DEF Elems
  <2>2. i \notin 1 .. m
    BY <1>3, <1>4, <1>11, <2>1 DEF Elems
  <2>3. N + 1 - i \in 1 .. c /\ N + 1 - (N + 1 - i) = i
    BY <1>1, <1>3, <1>4, <1>5, <2>2
  <2>4. Got(l, N + 1 - i) = l[i]
    BY <1>8, <2>3
  <2> QED
    BY <2>1, <2>3, <2>4
<1> QED
  BY <1>3, <1>7, <1>9, <1>10, <1>11 DEF d

\* The pages that such a loop goes over, by rank.
LEMMA PageRanks ==
  ASSUME NEW S \in SUBSET Page
  PROVE  /\ Cardinality(S) \in Nat
         /\ \A i \in S : Rank(S, i) \in 1 .. Cardinality(S)
         /\ \A i, j \in S : Rank(S, i) = Rank(S, j) => i = j
         /\ \A k \in 1 .. Cardinality(S) : \E i \in S : Rank(S, i) = k
<1>1. NumPages \in Nat /\ S \in SUBSET (1 .. NumPages)
  BY Sizes DEF Page
<1> QED
  BY <1>1, RankBijection

\* Mapping pages puts no 0 into a table, leaves the other pages as they are,
\* and leaves no page out if there are enough frames.
LEMMA MappedPages ==
  ASSUME NEW l \in Seq({0} \cup Frame), NEW S \in SUBSET Page,
         NEW t \in [Page -> Entries]
  PROVE  /\ Mapped(t, S, l) \in [Page -> Entries]
         /\ t \in Tables => Mapped(t, S, l) \in Tables
         /\ \A i \in Page \ S : Mapped(t, S, l)[i] = t[i]
         /\ Cardinality(S) <= Usable(l) =>
              \A i \in S : Mapped(t, S, l)[i] # INVALID_FRAME
<1>1. Usable(l) \in Nat /\ \A k \in 1 .. Usable(l) : Got(l, k) \in Frame
  BY UsableSuffix
<1>2. Cardinality(S) \in Nat /\ \A i \in S : Rank(S, i) \in 1 .. Cardinality(S)
  BY PageRanks
<1>3. ASSUME NEW i \in S, Rank(S, i) <= Usable(l)
      PROVE  Got(l, Rank(S, i)) \in Frame
  <2>1. Rank(S, i) \in 1 .. Usable(l)
    BY <1>1, <1>2, <1>3
  <2> QED
    BY <1>1, <2>1
<1>4. /\ Mapped(t, S, l) \in [Page -> Entries]
      /\ t \in Tables => Mapped(t, S, l) \in Tables
  BY <1>3 DEF Mapped, Tables, Entries
<1>5. \A i \in Page \ S : Mapped(t, S, l)[i] = t[i]
  BY DEF Mapped
<1>6. ASSUME Cardinality(S) <= Usable(l), NEW i \in S
      PROVE  Mapped(t, S, l)[i] # INVALID_FRAME
  <2>1. Rank(S, i) <= Usable(l)
    BY <1>1, <1>2, <1>6
  <2>2. Mapped(t, S, l)[i] \in Frame
    BY <1>3, <2>1 DEF Mapped
  <2> QED
    BY <2>2, Sizes DEF Frame, INVALID_FRAME
<1> QED
  BY <1>4, <1>5, <1>6

\* Mapping the invalid pages S of a table moves frames from the list into
\* the table and loses none, also when they run out.
LEMMA MapStep ==
  ASSUME NEW t \in Tables, OnceIn(t), NEW l \in Seq(Frame), NoDup(l),
         NEW S \in SUBSET Page, \A i \in S : t[i] = INVALID_FRAME,
         TableFrames(t) \cap Elems(l) = {}
  PROVE  LET m == Mapped(t, S, l)
             d == Drawn(l, Cardinality(S))
         IN  /\ m \in Tables /\ OnceIn(m)
             /\ d \in Seq(Frame) /\ NoDup(d)
             /\ TableFrames(m) \cap Elems(d) = {}
             /\ TableFrames(m) \cup Elems(d) = TableFrames(t) \cup Elems(l)
<1> DEFINE n == Cardinality(S)
           m == Mapped(t, S, l)
           d == Drawn(l, n)
           c == IF n <= Usable(l) THEN n ELSE Usable(l)
<1>1. l \in Seq({0} \cup Frame)
  OBVIOUS
<1>2. Usable(l) \in Nat
  BY <1>1, UsableSuffix
<1>3. /\ n \in Nat /\ \A i \in S : Rank(S, i) \in 1 .. n
      /\ \A i, j \in S : Rank(S, i) = Rank(S, j) => i = j
      /\ \A k \in 1 .. n : \E i \in S : Rank(S, i) = k
  BY PageRanks
<1>4. c \in Nat /\ c <= n /\ c <= Usable(l)
  BY <1>2, <1>3
<1>5. \A i \in S : Rank(S, i) <= Usable(l) <=> Rank(S, i) \in 1 .. c
  BY <1>2, <1>3
<1>6. \A k \in 1 .. c : k \in 1 .. n
  BY <1>3, <1>4
<1>7. /\ d \in Seq(Frame) /\ NoDup(d) /\ Elems(d) \subseteq Elems(l)
      /\ \A k \in 1 .. c : Got(l, k) \in Elems(l) \ Elems(d)
      /\ \A j, k \in 1 .. c : Got(l, j) = Got(l, k) => j = k
      /\ \A f \in Elems(l) : f \in Elems(d) \/ \E k \in 1 .. c : f = Got(l, k)
  <2> HIDE DEF n
  <2> QED
    BY <1>3, <1>4, DrawFrames
<1> HIDE DEF n, c, d
<1>9. m \in Tables
  <2>1. t \in [Page -> Entries]
    BY DEF Tables, Entries
  <2> QED
    BY <1>1, <2>1, MappedPages
<1>10. \A i \in Page : m[i] = IF i \in S /\ Rank(S, i) \in 1 .. c
                              THEN Got(l, Rank(S, i)) ELSE t[i]
  BY <1>5 DEF Mapped
<1> HIDE DEF m
<1>11. \A f \in Elems(l) : f # INVALID_FRAME
  <2>1. \A f \in Elems(l) : f \in Frame
    BY DEF Elems
  <2> QED
    BY <2>1, Sizes DEF Frame, INVALID_FRAME
<1>12. \A i \in Page : \/ i \in S /\ Rank(S, i) \in 1 .. c /\ m[i] = Got(l, Rank(S, i))
                       \/ m[i] = t[i]
  BY <1>10
<1>13. \A i \in Page : t[i] # INVALID_FRAME => t[i] \notin Elems(l)
  BY DEF TableFrames
<1>14. OnceIn(m)
  <2> SUFFICES ASSUME NEW i \in Page, NEW j \in Page,
                      m[i] # INVALID_FRAME, m[i] = m[j]
               PROVE  i = j
    BY DEF OnceIn
  <2>1. CASE /\ i \in S /\ Rank(S, i) \in 1 .. c /\ m[i] = Got(l, Rank(S, i))
             /\ j \in S /\ Rank(S, j) \in 1 .. c /\ m[j] = Got(l, Rank(S, j))
    BY <1>3, <1>7, <2>1
  <2>2. CASE m[i] = t[i] /\ m[j] = t[j]
    BY <2>2 DEF OnceIn
  <2>3. CASE /\ i \in S /\ Rank(S, i) \in 1 .. c /\ m[i] = Got(l, Rank(S, i))
             /\ m[j] = t[j]
    BY <1>7, <1>13, <2>3, ZenonT(60)
  <2>4. CASE /\ j \in S /\ Rank(S, j) \in 1 .. c /\ m[j] = Got(l, Rank(S, j))
             /\ m[i] = t[i]
    BY <1>7, <1>13, <2>4
  <2> QED
    BY <1>12, <2>1, <2>2, <2>3, <2>4
<1>15. \A i \in Page : m[i] # INVALID_FRAME =>
         m[i] \notin Elems(d) /\ (m[i] \in TableFrames(t) \/ m[i] \in Elems(l))
  BY <1>7, <1>12, <1>13 DEF TableFrames
<1>16. \A i \in Page : t[i] # INVALID_FRAME => m[i] = t[i]
  BY <1>10
<1>17. \A f \in Elems(l) : f \in Elems(d) \/ f \in TableFrames(m)
  <2> SUFFICES ASSUME NEW f \in Elems(l), f \notin Elems(d)
               PROVE  f \in TableFrames(m)
    OBVIOUS
  <2>1. PICK k \in 1 .. c : f = Got(l, k)
    BY <1>7
  <2>2. PICK i \in S : Rank(S, i) = k
    BY <1>3, <1>6
  <2>3. i \in Page /\ m[i] = f
    BY <1>10, <2>1, <2>2
  <2> QED
    BY <1>11, <2>3 DEF TableFrames
<1>18. TableFrames(t) \subseteq TableFrames(m)
  BY <1>16 DEF TableFrames
<1>19. TableFrames(m) \cap Elems(d) = {}
  BY <1>15 DEF TableFrames
<1>20. TableFrames(m) \subseteq TableFrames(t) \cup Elems(l)
  <2> SUFFICES ASSUME NEW i \in Page, m[i] # INVALID_FRAME
               PROVE  m[i] \in TableFrames(t) \cup Elems(l)
    BY DEF TableFrames
  <2> QED
    BY <1>15
<1>22. TableFrames(m) \cup Elems(d) = TableFrames(t) \cup Elems(l)
  BY <1>7, <1>17, <1>18, <1>20
<1> QED
  BY <1>7, <1>9, <1>14, <1>19, <1>22 DEF m, d, n

\* The frames that free_addr_space and LoadProgram give back for a table.
LEMMA FreeTable ==
  ASSUME NEW t \in [Page -> Entries]
  PROVE  /\ FramesIn(t) \in Seq({0} \cup Frame)
         /\ Elems(FramesIn(t)) = TableFrames(t)
         /\ t \in Tables => FramesIn(t) \in Seq(Frame)
         /\ OnceIn(t) => NoDup(FramesIn(t))
<1> DEFINE V == Entries \ {INVALID_FRAME}
           q == FramesIn(t)
<1>1. t \in Seq(Entries) /\ DOMAIN t = Page
  <2>1. NumPages \in Nat /\ t \in [1 .. NumPages -> Entries]
    BY Sizes DEF Page
  <2> QED
    BY <2>1
<1>2. q = Keep(t, V)
  BY DEF FramesIn
<1>3. INVALID_FRAME \notin {0} \cup Frame
  BY Sizes DEF INVALID_FRAME, Frame
<1>4. V = {0} \cup Frame
  BY <1>3 DEF Entries
<1>5. \A i \in Page : t[i] \in V <=> t[i] # INVALID_FRAME
  OBVIOUS
<1>6. q \in Seq(Entries) /\ Elems(q) = Elems(t) \cap V
  <2> HIDE DEF V
  <2> QED
    BY <1>1, <1>2, KeepType, KeepElems
<1>7. Elems(q) = TableFrames(t)
  <2>1. Elems(t) \cap V = TableFrames(t)
    BY <1>1, <1>5 DEF Elems, TableFrames
  <2> QED
    BY <1>6, <2>1
<1>8. \A W : Elems(q) \subseteq W => q \in Seq(W)
  <2> TAKE W
  <2> HAVE Elems(q) \subseteq W
  <2>1. Len(q) \in Nat /\ DOMAIN q = 1 .. Len(q) /\ q \in [1 .. Len(q) -> Entries]
    BY <1>6
  <2>2. \A i \in 1 .. Len(q) : q[i] \in W
    BY <2>1 DEF Elems
  <2>3. q \in [1 .. Len(q) -> W]
    BY <2>1, <2>2
  <2> QED
    BY <2>1, <2>3
<1>9. q \in Seq({0} \cup Frame)
  BY <1>4, <1>6, <1>8
<1>10. ASSUME t \in Tables
       PROVE  q \in Seq(Frame)
  <2>1. TableFrames(t) \subseteq Frame
    BY <1>10 DEF TableFrames, Tables
  <2> QED
    BY <1>7, <1>8, <2>1
<1>11. ASSUME OnceIn(t)
       PROVE  NoDup(q)
  <2>1. \A i, j \in DOMAIN t : t[i] \in V /\ t[i] = t[j] => i = j
    BY <1>1, <1>5, <1>11 DEF OnceIn
  <2> HIDE DEF V
  <2> QED
    BY <1>1, <1>2, <2>1, KeepDistinct
<1> QED
  BY <1>7, <1>9, <1>10, <1>11

-----------------------------------------------------------------------------
(* A step changes one process p and the list.                              *)

Others(p) ==
  \A q \in Proc \ {p} :
    /\ page_table'[q] = page_table[q] /\ kernel_stack'[q] = kernel_stack[q]
    /\ state'[q] = state[q] /\ data_index'[q] = data_index[q]
    /\ heap_index'[q] = heap_index[q] /\ stack_index'[q] = stack_index[q]

HeldBy(p) == IF p \in Holders THEN Held(p) ELSE {}

\* Frames pass between p and the list, and none is lost or doubled.
Handover(p) ==
  /\ Others(p)
  /\ mishaps \subseteq mishaps'
  /\ "exec" \notin mishaps' =>
       /\ pfn_list' \in Seq(Frame) /\ NoDup(pfn_list')
       /\ p \in Holders' => Apart(kernel_stack'[p], page_table'[p], pfn_list')
       /\ Elems(pfn_list') \cup HeldBy(p)' = Elems(pfn_list) \cup HeldBy(p)
  /\ mishaps' \subseteq {"brk", "stack"} /\ p \in Holders' => state'[p] = "live"

\* Such a step keeps the ownership of frames.
LEMMA HandoverKeeps ==
  ASSUME Owners, Owned, NEW p \in Proc, Handover(p)
  PROVE  Owners' /\ Owned'
<1>1. \A q \in Proc \ {p} : /\ q \in Holders' <=> q \in Holders
                            /\ Held(q)' = Held(q)
  BY DEF Handover, Others, Holders, Held
<1>2. ASSUME "exec" \notin mishaps'
      PROVE  /\ pfn_list \in Seq(Frame) /\ NoDup(pfn_list)
             /\ \A q \in Holders : Apart(kernel_stack[q], page_table[q], pfn_list)
             /\ \A q, r \in Holders : q # r => Held(q) \cap Held(r) = {}
             /\ pfn_list' \in Seq(Frame) /\ NoDup(pfn_list')
             /\ p \in Holders' => Apart(kernel_stack'[p], page_table'[p], pfn_list')
             /\ Elems(pfn_list') \cup HeldBy(p)' = Elems(pfn_list) \cup HeldBy(p)
  BY <1>2 DEF Handover, Owners
<1>3. ASSUME "exec" \notin mishaps'
      PROVE  \A q \in Holders \ {p} : Held(q) \cap (Elems(pfn_list) \cup HeldBy(p)) = {}
  <2> SUFFICES ASSUME NEW q \in Holders \ {p}
               PROVE  Held(q) \cap Elems(pfn_list) = {} /\ Held(q) \cap HeldBy(p) = {}
    OBVIOUS
  <2>1. Held(q) \cap Elems(pfn_list) = {}
    BY <1>2, <1>3 DEF Apart, Held
  <2>2. Held(q) \cap HeldBy(p) = {}
    BY <1>2, <1>3 DEF HeldBy
  <2> QED
    BY <2>1, <2>2
<1>4. ASSUME "exec" \notin mishaps'
      PROVE  \A q \in Holders' \ {p} : /\ Held(q)' \cap Elems(pfn_list') = {}
                                       /\ Held(q)' \cap HeldBy(p)' = {}
  <2> TAKE q \in Holders' \ {p}
  <2>1. q \in Holders \ {p} /\ Held(q)' = Held(q)
    BY <1>1 DEF Holders
  <2>2. Held(q) \cap (Elems(pfn_list) \cup HeldBy(p)) = {}
    BY <1>3, <1>4, <2>1
  <2>3. Elems(pfn_list') \cup HeldBy(p)' = Elems(pfn_list) \cup HeldBy(p)
    BY <1>2, <1>4
  <2> QED
    BY <2>1, <2>2, <2>3
<1>5. Owners'
  <2> SUFFICES ASSUME "exec" \notin mishaps'
               PROVE  /\ pfn_list' \in Seq(Frame) /\ NoDup(pfn_list')
                      /\ \A q \in Holders' : Apart(kernel_stack'[q], page_table'[q], pfn_list')
                      /\ \A q, r \in Holders' : q # r => Held(q)' \cap Held(r)' = {}
    BY DEF Owners
  <2>1. ASSUME NEW q \in Holders'
        PROVE  Apart(kernel_stack'[q], page_table'[q], pfn_list')
    <3>1. CASE q = p
      BY <1>2, <2>1, <3>1
    <3>2. CASE q # p
      <4>1. q \in Proc \ {p} /\ q \in Holders
        BY <1>1, <2>1, <3>2 DEF Holders
      <4>2. kernel_stack'[q] = kernel_stack[q] /\ page_table'[q] = page_table[q]
        BY <4>1 DEF Handover, Others
      <4>3. Parts(kernel_stack'[q], page_table'[q]) \cap Elems(pfn_list') = {}
        BY <1>4, <2>1, <3>2 DEF Held
      <4> QED
        BY <1>2, <4>1, <4>2, <4>3 DEF Apart
    <3> QED
      BY <3>1, <3>2
  <2>2. ASSUME NEW q \in Holders', NEW r \in Holders', q # r
        PROVE  Held(q)' \cap Held(r)' = {}
    <3>1. CASE q = p
      <4>1. HeldBy(p)' = Held(q)'
        BY <2>2, <3>1 DEF HeldBy
      <4> QED
        BY <1>4, <2>2, <3>1, <4>1
    <3>2. CASE r = p
      <4>1. HeldBy(p)' = Held(r)'
        BY <2>2, <3>2 DEF HeldBy
      <4> QED
        BY <1>4, <2>2, <3>2, <4>1
    <3>3. CASE q # p /\ r # p
      <4>1. q \in Proc \ {p} /\ r \in Proc \ {p}
        BY <2>2, <3>3 DEF Holders
      <4>2. q \in Holders /\ r \in Holders /\ Held(q)' = Held(q) /\ Held(r)' = Held(r)
        BY <1>1, <2>2, <4>1
      <4> QED
        BY <1>2, <2>2, <4>2
    <3> QED
      BY <3>1, <3>2, <3>3
  <2> QED
    BY <1>2, <2>1, <2>2
<1>6. Owned'
  <2> SUFFICES ASSUME mishaps' \subseteq {"brk", "stack"}
               PROVE  /\ \A f \in Frame : \/ f \in Elems(pfn_list')
                                          \/ \E q \in Holders' : f \in Held(q)'
                      /\ \A q \in Holders' : state'[q] = "live"
    BY DEF Owned
  <2>1. /\ \A f \in Frame : f \in Elems(pfn_list) \/ \E q \in Holders : f \in Held(q)
        /\ \A q \in Holders : state[q] = "live"
    BY DEF Owned, Handover
  <2>2. Elems(pfn_list') \cup HeldBy(p)' = Elems(pfn_list) \cup HeldBy(p)
    BY <1>2
  <2>3. ASSUME NEW q \in Holders'
        PROVE  state'[q] = "live"
    <3>1. CASE q = p
      BY <2>3, <3>1 DEF Handover
    <3>2. CASE q # p
      <4>1. q \in Proc \ {p} /\ q \in Holders
        BY <1>1, <2>3, <3>2 DEF Holders
      <4> QED
        BY <2>1, <4>1 DEF Handover, Others
    <3> QED
      BY <3>1, <3>2
  <2>4. ASSUME NEW f \in Frame, f \notin Elems(pfn_list')
        PROVE  \E q \in Holders' : f \in Held(q)'
    <3>1. HeldBy(p)' = IF p \in Holders' THEN Held(p)' ELSE {}
      BY DEF HeldBy
    <3>2. CASE f \in Elems(pfn_list) \cup HeldBy(p)
      <4>1. f \in HeldBy(p)'
        BY <2>2, <2>4, <3>2
      <4> QED
        BY <3>1, <4>1
    <3>3. CASE f \notin Elems(pfn_list) \cup HeldBy(p)
      <4>1. PICK q \in Holders : f \in Held(q)
        BY <2>1, <3>3
      <4>2. q # p
        BY <3>3, <4>1 DEF HeldBy
      <4>3. q \in Holders' /\ Held(q)' = Held(q)
        BY <1>1, <4>1, <4>2 DEF Holders
      <4> QED
        BY <4>1, <4>3
    <3> QED
      BY <3>2, <3>3
  <2> QED
    BY <2>3, <2>4
<1> QED
  BY <1>5, <1>6

\* It keeps the layout of the other processes.
LEMMA OthersKept ==
  ASSUME Segments, Blank, NEW p \in Proc, Others(p),
         state'[p] = "live" => Segment(p)',
         state'[p] = "none" => page_table'[p] = EmptyTable
  PROVE  Segments' /\ Blank'
<1>1. ASSUME NEW q \in Proc, state'[q] = "live"
      PROVE  Segment(q)'
  <2>1. CASE q = p
    BY <1>1, <2>1
  <2>2. CASE q # p
    BY <1>1, <2>2 DEF Segments, Segment, Others, Valid
  <2> QED
    BY <2>1, <2>2
<1>2. ASSUME NEW q \in Proc, state'[q] = "none"
      PROVE  page_table'[q] = EmptyTable
  BY <1>2 DEF Others, Blank
<1>3. Segments'
  BY <1>1 DEF Segments
<1>4. Blank'
  BY <1>2 DEF Blank, EmptyTable
<1> QED
  BY <1>3, <1>4

\* With both, it keeps the invariant.
LEMMA StepKeeps ==
  ASSUME MemoryInv, TypeOK', NEW p \in Proc, Handover(p),
         state'[p] = "live" => Segment(p)',
         state'[p] = "none" => page_table'[p] = EmptyTable
  PROVE  MemoryInv'
<1>1. Owners' /\ Owned'
  BY HandoverKeeps DEF MemoryInv
<1>2. Segments' /\ Blank'
  BY OthersKept DEF MemoryInv, Handover
<1> QED
  BY <1>1, <1>2 DEF MemoryInv

-----------------------------------------------------------------------------
(* The operations.                                                         *)

LEMMA Widen ==
  ASSUME NEW l \in Seq(Frame)
  PROVE  l \in Seq({0} \cup Frame)
<1>1. Len(l) \in Nat /\ l \in [1 .. Len(l) -> Frame]
  OBVIOUS
<1>2. l \in [1 .. Len(l) -> {0} \cup Frame]
  BY <1>1
<1> QED
  BY <1>1, <1>2

\* What a live process owns, before anything has gone wrong in Exec.
LEMMA LiveOwner ==
  ASSUME MemoryInv, NEW p \in Proc, state[p] = "live"
  PROVE  /\ p \in Holders
         /\ "exec" \notin mishaps =>
              /\ pfn_list \in Seq(Frame) /\ NoDup(pfn_list)
              /\ Apart(kernel_stack[p], page_table[p], pfn_list)
              /\ HeldBy(p) = Parts(kernel_stack[p], page_table[p])
<1>1. p \in Holders
  BY DEF Holders
<1> QED
  BY <1>1 DEF MemoryInv, Owners, HeldBy, Held

\* free_addr_space gives back all that a process holds.
LEMMA FreeSpace ==
  ASSUME NEW l \in Seq({0} \cup Frame), NEW k \in Seq(Frame), NEW t \in [Page -> Entries]
  PROVE  /\ free_addr_space(l, t, k) \in Seq({0} \cup Frame)
         /\ l \in Seq(Frame) /\ NoDup(l) /\ Apart(k, t, l) =>
              /\ free_addr_space(l, t, k) \in Seq(Frame)
              /\ NoDup(free_addr_space(l, t, k))
              /\ Elems(free_addr_space(l, t, k)) = Elems(l) \cup Parts(k, t)
<1> DEFINE r == FramesIn(t)
           c == k \o r
<1>1. /\ r \in Seq({0} \cup Frame) /\ Elems(r) = TableFrames(t)
      /\ t \in Tables => r \in Seq(Frame)
      /\ OnceIn(t) => NoDup(r)
  BY FreeTable
<1>2. k \in Seq({0} \cup Frame)
  BY Widen
<1>3. free_addr_space(l, t, k) = l \o c
  BY DEF free_addr_space, DeallocateAll
<1> HIDE DEF r
<1>4. c \in Seq({0} \cup Frame)
  BY <1>1, <1>2, ConcatQueue
<1>5. ASSUME t \in Tables, OnceIn(t), NoDup(k), Elems(k) \cap TableFrames(t) = {}
      PROVE  c \in Seq(Frame) /\ NoDup(c) /\ Elems(c) = Parts(k, t)
  BY <1>1, <1>5, ConcatQueue DEF Parts
<1> HIDE DEF c
<1>6. l \o c \in Seq({0} \cup Frame)
  BY <1>4, ConcatQueue
<1>7. ASSUME l \in Seq(Frame), NoDup(l), Apart(k, t, l)
      PROVE  l \o c \in Seq(Frame) /\ NoDup(l \o c) /\ Elems(l \o c) = Elems(l) \cup Parts(k, t)
  <2>1. c \in Seq(Frame) /\ NoDup(c) /\ Elems(c) = Parts(k, t)
    BY <1>5, <1>7 DEF Apart
  <2>2. Elems(l) \cap Elems(c) = {}
    BY <1>7, <2>1 DEF Apart
  <2> QED
    BY <1>7, <2>1, <2>2, ConcatQueue
<1> QED
  BY <1>3, <1>6, <1>7

LEMMA ExitStep ==
  ASSUME MemoryInv, NEW p \in Proc, KernelExit(p)
  PROVE  MemoryInv'
<1>1. /\ pfn_list \in Seq({0} \cup Frame) /\ kernel_stack[p] \in Seq(Frame)
      /\ page_table[p] \in [Page -> Entries] /\ state \in [Proc -> States]
  BY DEF MemoryInv, TypeOK
<1>2. /\ pfn_list' = free_addr_space(pfn_list, page_table[p], kernel_stack[p])
      /\ state' = [state EXCEPT ![p] = "dead"] /\ mishaps' = mishaps
      /\ state[p] = "live"
      /\ UNCHANGED <<page_table, kernel_stack, layout, reserved, crashed, mishaps>>
  BY DEF KernelExit, Runs
<1>3. /\ pfn_list' \in Seq({0} \cup Frame)
      /\ pfn_list \in Seq(Frame) /\ NoDup(pfn_list)
           /\ Apart(kernel_stack[p], page_table[p], pfn_list) =>
           /\ pfn_list' \in Seq(Frame) /\ NoDup(pfn_list')
           /\ Elems(pfn_list') = Elems(pfn_list) \cup Parts(kernel_stack[p], page_table[p])
  BY <1>1, <1>2, FreeSpace
<1>4. state' \in [Proc -> States] /\ state'[p] = "dead" /\ p \notin Holders'
  BY <1>1, <1>2 DEF States, Holders
<1>5. TypeOK'
  BY <1>2, <1>3, <1>4 DEF MemoryInv, TypeOK, layout
<1>6. Others(p)
  BY <1>1, <1>2 DEF Others, layout
<1>7. HeldBy(p)' = {}
  BY <1>4 DEF HeldBy
<1>8. Handover(p)
  <2>1. "exec" \notin mishaps =>
          /\ pfn_list' \in Seq(Frame) /\ NoDup(pfn_list')
          /\ Elems(pfn_list') = Elems(pfn_list) \cup HeldBy(p)
    BY <1>2, <1>3, LiveOwner
  <2> QED
    BY <1>2, <1>4, <1>6, <1>7, <2>1 DEF Handover
<1> QED
  BY <1>4, <1>5, <1>8, StepKeeps

LEMMA FaultStep ==
  ASSUME MemoryInv, NEW p \in Proc, TrapFault(p)
  PROVE  MemoryInv'
<1>1. state \in [Proc -> States] /\ state[p] = "live"
  BY DEF MemoryInv, TypeOK, TrapFault, Runs
<1>2. /\ state' = [state EXCEPT ![p] = "faulted"] /\ mishaps' = mishaps \cup {"fault"}
      /\ UNCHANGED <<pfn_list, page_table, kernel_stack, layout, reserved, crashed>>
  BY DEF TrapFault, Blame
<1>3. state' \in [Proc -> States] /\ state'[p] = "faulted" /\ p \in Holders'
  BY <1>1, <1>2 DEF States, Holders
<1>4. TypeOK'
  BY <1>2, <1>3 DEF MemoryInv, TypeOK, layout, Mishaps
<1>5. Others(p)
  BY <1>1, <1>2 DEF Others, layout
<1>6. HeldBy(p)' = Parts(kernel_stack[p], page_table[p])
  BY <1>2, <1>3 DEF HeldBy, Held
<1>7. Handover(p)
  BY <1>1, <1>2, <1>5, <1>6, LiveOwner DEF Handover
<1> QED
  BY <1>3, <1>4, <1>7, StepKeeps

\* A new page table.
LEMMA EmptyTableFacts ==
  /\ EmptyTable \in Tables /\ EmptyTable \in [Page -> Entries]
  /\ OnceIn(EmptyTable) /\ TableFrames(EmptyTable) = {}
  /\ \A i \in Page : EmptyTable[i] = INVALID_FRAME
  BY DEF EmptyTable, Tables, OnceIn, TableFrames, Entries

\* The pages of a program that fits are pages of region 1.
LEMMA ProgramPages ==
  ASSUME NEW prog \in Programs, Fits(prog)
  PROVE  /\ prog.text \in Nat /\ prog.data \in Nat /\ prog.stack \in Nat
         /\ prog.text >= 1 /\ prog.data >= 1 /\ prog.stack >= 1
         /\ prog.stack + prog.text + prog.data < NumPages
         /\ Pages(prog) \in SUBSET Page
<1>1. /\ prog.text \in Nat /\ prog.data \in Nat /\ prog.stack \in Nat
      /\ prog.text >= 1 /\ prog.data >= 1 /\ prog.stack >= 1
  BY SizeAssumption
<1>2. prog.stack + prog.text + prog.data < NumPages
  BY DEF Fits
<1>3. Text(prog) \subseteq Page /\ Data(prog) \subseteq Page /\ Stack(prog) \subseteq Page
  BY <1>1, <1>2, Sizes DEF Text, Data, Stack, Page
<1> QED
  BY <1>1, <1>2, <1>3 DEF Pages

\* The list when Exec has thrown the old address space of p away.
LEMMA ClearedList ==
  ASSUME MemoryInv, NEW p \in Proc, state[p] = "live"
  PROVE  /\ Cleared(p) \in Seq({0} \cup Frame)
         /\ "exec" \notin mishaps =>
              /\ Cleared(p) \in Seq(Frame) /\ NoDup(Cleared(p))
              /\ Elems(Cleared(p)) = Elems(pfn_list) \cup TableFrames(page_table[p])
<1> DEFINE r == FramesIn(page_table[p])
           t == page_table[p]
<1>1. pfn_list \in Seq({0} \cup Frame) /\ t \in [Page -> Entries]
  BY DEF MemoryInv, TypeOK
<1>2. /\ r \in Seq({0} \cup Frame) /\ Elems(r) = TableFrames(t)
      /\ t \in Tables => r \in Seq(Frame)
      /\ OnceIn(t) => NoDup(r)
  BY <1>1, FreeTable
<1>3. Cleared(p) = pfn_list \o r
  BY DEF Cleared, DeallocateAll
<1> HIDE DEF r, t
<1>4. pfn_list \o r \in Seq({0} \cup Frame)
  BY <1>1, <1>2, ConcatQueue
<1>5. ASSUME "exec" \notin mishaps
      PROVE  /\ pfn_list \o r \in Seq(Frame) /\ NoDup(pfn_list \o r)
             /\ Elems(pfn_list \o r) = Elems(pfn_list) \cup TableFrames(t)
  <2>1. /\ pfn_list \in Seq(Frame) /\ NoDup(pfn_list)
        /\ t \in Tables /\ OnceIn(t) /\ TableFrames(t) \cap Elems(pfn_list) = {}
    BY <1>5, LiveOwner DEF Apart, Parts, t
  <2> QED
    BY <1>2, <2>1, ConcatQueue
<1> QED
  BY <1>3, <1>4, <1>5 DEF t

LEMMA ExecStep ==
  ASSUME MemoryInv, NEW p \in Proc, NEW prog \in Programs, KernelExec(p, prog)
  PROVE  MemoryInv'
<1> DEFINE l == Cleared(p)
           S == Pages(prog)
           n == Cardinality(S)
           m == Mapped(EmptyTable, S, l)
<1>1. /\ state[p] = "live" /\ Fits(prog) /\ n <= Usable(l) /\ pfn_list' = Drawn(l, n)
      /\ page_table' = [page_table EXCEPT ![p] = m]
      /\ data_index' = [data_index EXCEPT ![p] = prog.text + 1]
      /\ heap_index' = [heap_index EXCEPT ![p] = prog.text + prog.data + 1]
      /\ stack_index' = [stack_index EXCEPT ![p] = NumPages - prog.stack + 1]
      /\ UNCHANGED <<kernel_stack, state, reserved, crashed, mishaps>>
  BY DEF KernelExec, SetLayout, Runs
<1>2. TypeOK
  BY DEF MemoryInv
<1>3. S \in SUBSET Page /\ n \in Nat
  BY <1>1, ProgramPages, PageRanks
<1>4. /\ l \in Seq({0} \cup Frame)
      /\ "exec" \notin mishaps =>
              /\ l \in Seq(Frame) /\ NoDup(l)
              /\ Elems(l) = Elems(pfn_list) \cup TableFrames(page_table[p])
  BY <1>1, ClearedList
<1> HIDE DEF l, S
<1>5. /\ m \in [Page -> Entries]
      /\ \A i \in S : m[i] # INVALID_FRAME
  <2>1. EmptyTable \in [Page -> Entries]
    BY EmptyTableFacts
  <2>2. /\ m \in [Page -> Entries]
        /\ Cardinality(S) <= Usable(l) => \A i \in S : m[i] # INVALID_FRAME
    BY <1>3, <1>4, <2>1, MappedPages
  <2> HIDE DEF m
  <2> QED
    BY <1>1, <2>2
<1>6. Drawn(l, n) \in Seq({0} \cup Frame)
  BY <1>3, <1>4, DrawnPrefix
<1>7. ASSUME "exec" \notin mishaps
      PROVE  /\ m \in Tables /\ OnceIn(m)
             /\ Drawn(l, n) \in Seq(Frame) /\ NoDup(Drawn(l, n))
             /\ TableFrames(m) \cap Elems(Drawn(l, n)) = {}
             /\ TableFrames(m) \cup Elems(Drawn(l, n)) = {} \cup Elems(l)
  BY <1>3, <1>4, <1>7, MapStep, EmptyTableFacts
<1> HIDE DEF m, n
<1>8. page_table'[p] = m /\ kernel_stack'[p] = kernel_stack[p] /\ p \in Holders'
  BY <1>1, <1>2 DEF TypeOK, Holders
<1>9. TypeOK'
  <2>1. page_table' \in [Proc -> [Page -> Entries]]
    BY <1>1, <1>2, <1>5 DEF TypeOK
  <2>2. prog.text + 1 \in Nat /\ prog.text + prog.data + 1 \in Nat /\ NumPages - prog.stack + 1 \in Nat
    BY <1>1, ProgramPages, Sizes
  <2>3. data_index' \in [Proc -> Nat] /\ heap_index' \in [Proc -> Nat] /\ stack_index' \in [Proc -> Nat]
    BY <1>1, <1>2, <2>2 DEF TypeOK
  <2>4. pfn_list' \in Seq({0} \cup Frame)
    BY <1>1, <1>6
  <2> QED
    BY <1>1, <1>2, <2>1, <2>3, <2>4 DEF TypeOK
<1>10. Others(p)
  BY <1>1, <1>2 DEF Others, TypeOK
<1>11. HeldBy(p)' = Parts(kernel_stack[p], m)
  BY <1>8 DEF HeldBy, Held
<1>12. Handover(p)
  <2>1. ASSUME "exec" \notin mishaps
        PROVE  /\ pfn_list' \in Seq(Frame) /\ NoDup(pfn_list')
               /\ Apart(kernel_stack[p], m, pfn_list')
               /\ Elems(pfn_list') \cup HeldBy(p)' = Elems(pfn_list) \cup HeldBy(p)
    <3>1. /\ Apart(kernel_stack[p], page_table[p], pfn_list)
          /\ HeldBy(p) = Parts(kernel_stack[p], page_table[p])
      BY <1>1, <2>1, LiveOwner
    <3>2. TableFrames(m) \cup Elems(pfn_list') = Elems(pfn_list) \cup TableFrames(page_table[p])
      BY <1>1, <1>4, <1>7, <2>1
    <3>3. Elems(kernel_stack[p]) \cap (TableFrames(m) \cup Elems(pfn_list')) = {}
      BY <3>1, <3>2 DEF Apart, Parts
    <3>4. Apart(kernel_stack[p], m, pfn_list')
      BY <1>1, <1>7, <2>1, <3>1, <3>3 DEF Apart, Parts
    <3>5. Elems(pfn_list') \cup HeldBy(p)' = Elems(pfn_list) \cup HeldBy(p)
      BY <1>11, <3>1, <3>2 DEF Parts
    <3> QED
      BY <1>1, <1>7, <2>1, <3>4, <3>5
  <2> QED
    BY <1>1, <1>8, <1>10, <2>1 DEF Handover
<1>13. Segment(p)'
  <2>1. /\ data_index'[p] = prog.text + 1 /\ heap_index'[p] = prog.text + prog.data + 1
        /\ stack_index'[p] = NumPages - prog.stack + 1
    BY <1>1, <1>2 DEF TypeOK
  <2>2. \A i \in S : i \in Valid(p)'
    BY <1>3, <1>5, <1>8 DEF Valid
  <2>3. /\ data_index'[p] .. heap_index'[p] - 1 \subseteq S
        /\ stack_index'[p] .. NumPages \subseteq S
    <3>1. heap_index'[p] - 1 = prog.text + prog.data
      BY <1>1, <2>1, ProgramPages
    <3> QED
      BY <2>1, <3>1 DEF S, Pages, Data, Stack
  <2>4. /\ 1 <= data_index'[p] /\ data_index'[p] < heap_index'[p]
        /\ heap_index'[p] < stack_index'[p] /\ stack_index'[p] <= NumPages
    BY <1>1, <2>1, ProgramPages, Sizes
  <2> QED
    BY <2>2, <2>3, <2>4 DEF Segment
<1>14. state'[p] # "none"
  BY <1>1
<1> QED
  BY <1>9, <1>12, <1>13, <1>14, StepKeeps

LEMMA ExecErrorStep ==
  ASSUME MemoryInv, NEW p \in Proc, NEW prog \in Programs, KernelExecError(p, prog)
  PROVE  MemoryInv'
<1> DEFINE l == Cleared(p)
           S == Pages(prog)
           m == Mapped(EmptyTable, S, l)
           t == [i \in Page |-> IF i \in S /\ Rank(S, i) = Usable(l) + 1 THEN 0 ELSE m[i]]
           d == Drawn(l, Cardinality(S))
           freed == free_addr_space(d, t, kernel_stack[p])
<1>1. /\ state[p] = "live" /\ Fits(prog)
      /\ pfn_list' = free_addr_space(freed, t, kernel_stack[p])
      /\ page_table' = [page_table EXCEPT ![p] = t]
      /\ state' = [state EXCEPT ![p] = "dead"]
      /\ mishaps' = mishaps \cup {"exec"}
      /\ UNCHANGED <<kernel_stack, layout, reserved, crashed>>
  BY DEF KernelExecError, Runs, Blame
<1>2. TypeOK
  BY DEF MemoryInv
<1>3. S \in SUBSET Page /\ Cardinality(S) \in Nat
  BY <1>1, ProgramPages, PageRanks
<1>4. l \in Seq({0} \cup Frame)
  BY <1>1, ClearedList
<1> HIDE DEF l, S
<1>5. m \in [Page -> Entries]
  BY <1>3, <1>4, MappedPages, EmptyTableFacts
<1>6. d \in Seq({0} \cup Frame)
  BY <1>3, <1>4, DrawnPrefix
<1> HIDE DEF m, d
<1>7. t \in [Page -> Entries]
  BY <1>5 DEF Entries
<1>8. kernel_stack[p] \in Seq(Frame)
  BY <1>2 DEF TypeOK
<1> HIDE DEF t
<1>9. freed \in Seq({0} \cup Frame)
  BY <1>6, <1>7, <1>8, FreeSpace
<1> HIDE DEF freed
<1>10. pfn_list' \in Seq({0} \cup Frame)
  BY <1>1, <1>7, <1>8, <1>9, FreeSpace
<1>11. page_table' \in [Proc -> [Page -> Entries]]
  BY <1>1, <1>2, <1>7 DEF TypeOK
<1>12. state' \in [Proc -> States] /\ state'[p] = "dead" /\ p \notin Holders'
  BY <1>1, <1>2 DEF TypeOK, States, Holders
<1>13. TypeOK'
  BY <1>1, <1>2, <1>10, <1>11, <1>12 DEF TypeOK, layout, Mishaps
<1>14. Others(p)
  BY <1>1, <1>2 DEF Others, TypeOK, layout
<1>15. Handover(p)
  BY <1>1, <1>12, <1>14 DEF Handover
<1> QED
  BY <1>12, <1>13, <1>15, StepKeeps

\* init_process takes the kernel stack of a new process from the list.
LEMMA StackStep ==
  ASSUME NEW l \in Seq({0} \cup Frame), NEW n \in Nat, NEW c \in Nat,
         c = IF n <= Usable(l) THEN n ELSE Usable(l)
  PROVE  LET k == [j \in 1 .. c |-> Got(l, j)]
             d == Drawn(l, n)
         IN  /\ k \in Seq(Frame) /\ d \in Seq({0} \cup Frame)
             /\ l \in Seq(Frame) /\ NoDup(l) =>
                  /\ NoDup(k) /\ d \in Seq(Frame) /\ NoDup(d)
                  /\ Elems(k) \cap Elems(d) = {}
                  /\ Elems(k) \cup Elems(d) = Elems(l)
<1> DEFINE k == [j \in 1 .. c |-> Got(l, j)]
           d == Drawn(l, n)
<1>1. Usable(l) \in Nat /\ \A j \in 1 .. Usable(l) : Got(l, j) \in Frame
  BY UsableSuffix
<1>2. \A j \in 1 .. c : j \in 1 .. Usable(l)
  BY <1>1
<1>3. k \in Seq(Frame)
  BY <1>1, <1>2
<1>4. d \in Seq({0} \cup Frame)
  BY DrawnPrefix
<1>5. ASSUME l \in Seq(Frame), NoDup(l)
      PROVE  /\ NoDup(k) /\ d \in Seq(Frame) /\ NoDup(d)
             /\ Elems(k) \cap Elems(d) = {}
             /\ Elems(k) \cup Elems(d) = Elems(l)
  <2>1. /\ d \in Seq(Frame) /\ NoDup(d) /\ Elems(d) \subseteq Elems(l)
        /\ \A j \in 1 .. c : Got(l, j) \in Elems(l) \ Elems(d)
        /\ \A i, j \in 1 .. c : Got(l, i) = Got(l, j) => i = j
        /\ \A f \in Elems(l) : f \in Elems(d) \/ \E j \in 1 .. c : f = Got(l, j)
    BY <1>5, DrawFrames
  <2>2. NoDup(k)
    BY <2>1 DEF NoDup
  <2>3. Elems(k) = {Got(l, j) : j \in 1 .. c}
    BY DEF Elems
  <2> HIDE DEF k, d
  <2> QED
    BY <2>1, <2>2, <2>3
<1> QED
  BY <1>3, <1>4, <1>5

\* A new process c with kernel stack k and table t that took its frames from
\* the list and has nothing else.
LEMMA ChildStep ==
  ASSUME MemoryInv, NEW c \in Proc, state[c] = "none", TypeOK', Others(c),
         state'[c] \in {"live", "stillborn"},
         mishaps' = IF state'[c] = "live" THEN mishaps ELSE mishaps \cup {"fork"},
         "exec" \notin mishaps =>
            /\ pfn_list' \in Seq(Frame) /\ NoDup(pfn_list')
            /\ Apart(kernel_stack'[c], page_table'[c], pfn_list')
            /\ Elems(pfn_list') \cup Parts(kernel_stack'[c], page_table'[c]) = Elems(pfn_list),
         state'[c] = "live" => Segment(c)'
  PROVE  MemoryInv'
<1>1. HeldBy(c) = {}
  BY DEF HeldBy, Holders
<1>2. c \in Holders' /\ HeldBy(c)' = Parts(kernel_stack'[c], page_table'[c])
  BY DEF HeldBy, Holders, Held
<1>3. "fork" \notin mishaps' => state'[c] = "live"
  OBVIOUS
<1>4. mishaps \subseteq mishaps' /\ ("exec" \notin mishaps' => "exec" \notin mishaps)
  OBVIOUS
<1>5. "exec" \notin mishaps' =>
            /\ pfn_list' \in Seq(Frame) /\ NoDup(pfn_list')
            /\ Apart(kernel_stack'[c], page_table'[c], pfn_list')
            /\ Elems(pfn_list') \cup HeldBy(c)' = Elems(pfn_list) \cup HeldBy(c)
  BY <1>1, <1>2, <1>4
<1>6. Handover(c)
  BY <1>2, <1>3, <1>4, <1>5 DEF Handover
<1>7. state'[c] # "none"
  OBVIOUS
<1> QED
  BY <1>6, <1>7, StepKeeps

\* The table of the child when CopyUPT has gone over the pages of p, and
\* what is left of the list.
LEMMA CopyUPT ==
  ASSUME MemoryInv, NEW p \in Proc, KStackSize <= Usable(pfn_list)
  PROVE  LET S == Valid(p)
             d == Drawn(AfterStack, Cardinality(S))
             m == Mapped(EmptyTable, S, AfterStack)
         IN  /\ d \in Seq({0} \cup Frame) /\ ChildStack \in Seq(Frame)
             /\ AfterStack \in Seq({0} \cup Frame)
             /\ m \in [Page -> Entries]
             /\ Cardinality(S) <= Usable(AfterStack) =>
                  \A i \in S : m[i] # INVALID_FRAME
             /\ "exec" \notin mishaps =>
                  /\ d \in Seq(Frame) /\ NoDup(d)
                  /\ Apart(ChildStack, m, d)
                  /\ Elems(d) \cup Parts(ChildStack, m) = Elems(pfn_list)
                  /\ AfterStack \in Seq(Frame) /\ NoDup(AfterStack)
                  /\ Apart(ChildStack, EmptyTable, AfterStack)
                  /\ Elems(AfterStack) \cup Parts(ChildStack, EmptyTable) = Elems(pfn_list)
<1> DEFINE S == Valid(p)
           a == AfterStack
           k == ChildStack
           d == Drawn(a, Cardinality(S))
           m == Mapped(EmptyTable, S, a)
<1>1. pfn_list \in Seq({0} \cup Frame)
  BY DEF MemoryInv, TypeOK
<1>2. /\ k \in Seq(Frame) /\ a \in Seq({0} \cup Frame)
      /\ pfn_list \in Seq(Frame) /\ NoDup(pfn_list) =>
           /\ NoDup(k) /\ a \in Seq(Frame) /\ NoDup(a)
           /\ Elems(k) \cap Elems(a) = {}
           /\ Elems(k) \cup Elems(a) = Elems(pfn_list)
  BY <1>1, StackStep, Sizes DEF ChildStack, AfterStack
<1>3. S \in SUBSET Page /\ Cardinality(S) \in Nat
  BY PageRanks DEF Valid
<1> HIDE DEF S, a, k
<1>4. d \in Seq({0} \cup Frame)
  BY <1>2, <1>3, DrawnPrefix
<1>5. /\ m \in [Page -> Entries]
      /\ Cardinality(S) <= Usable(a) => \A i \in S : m[i] # INVALID_FRAME
  <2>1. EmptyTable \in [Page -> Entries]
    BY EmptyTableFacts
  <2> QED
    BY <1>2, <1>3, <2>1, MappedPages, ZenonT(60)
<1>6. ASSUME "exec" \notin mishaps
      PROVE  /\ d \in Seq(Frame) /\ NoDup(d)
             /\ Apart(k, m, d)
             /\ Elems(d) \cup Parts(k, m) = Elems(pfn_list)
             /\ a \in Seq(Frame) /\ NoDup(a)
             /\ Apart(k, EmptyTable, a)
             /\ Elems(a) \cup Parts(k, EmptyTable) = Elems(pfn_list)
  <2>1. pfn_list \in Seq(Frame) /\ NoDup(pfn_list)
    BY <1>6 DEF MemoryInv, Owners
  <2>2. /\ NoDup(k) /\ a \in Seq(Frame) /\ NoDup(a)
        /\ Elems(k) \cap Elems(a) = {}
        /\ Elems(k) \cup Elems(a) = Elems(pfn_list)
    BY <1>2, <2>1
  <2>3. /\ m \in Tables /\ OnceIn(m)
        /\ d \in Seq(Frame) /\ NoDup(d)
        /\ TableFrames(m) \cap Elems(d) = {}
        /\ TableFrames(m) \cup Elems(d) = {} \cup Elems(a)
    BY <1>3, <2>2, MapStep, EmptyTableFacts
  <2> HIDE DEF m, d
  <2>4. Elems(k) \cap TableFrames(m) = {} /\ Elems(k) \cap Elems(d) = {}
    BY <2>2, <2>3
  <2>5. Apart(k, m, d)
    BY <2>2, <2>3, <2>4 DEF Apart, Parts
  <2>6. Elems(d) \cup Parts(k, m) = Elems(pfn_list)
    BY <2>2, <2>3 DEF Parts
  <2>7. Apart(k, EmptyTable, a) /\ Parts(k, EmptyTable) = Elems(k)
    BY <2>2, EmptyTableFacts DEF Apart, Parts
  <2> QED
    BY <2>2, <2>3, <2>5, <2>6, <2>7
<1> QED
  BY <1>2, <1>4, <1>5, <1>6 DEF S, a, k, m, d

LEMMA ForkStep ==
  ASSUME MemoryInv, NEW p \in Proc, NEW c \in Proc,
         KernelFork(p, c) \/ KernelForkCopyError(p, c)
  PROVE  MemoryInv'
<1> DEFINE S == Valid(p)
           n == Cardinality(S)
           d == Drawn(AfterStack, n)
           m == Mapped(EmptyTable, S, AfterStack)
<1>0. TypeOK
  BY DEF MemoryInv
<1>1. /\ state[p] = "live" /\ state[c] = "none" /\ KStackSize <= Usable(pfn_list)
      /\ pfn_list' = d
      /\ page_table' = [page_table EXCEPT ![c] = m]
      /\ kernel_stack' = [kernel_stack EXCEPT ![c] = ChildStack]
      /\ data_index' = [data_index EXCEPT ![c] = data_index[p]]
      /\ heap_index' = [heap_index EXCEPT ![c] = heap_index[p]]
      /\ stack_index' = [stack_index EXCEPT ![c] = stack_index[p]]
      /\ crashed' = crashed
  BY DEF KernelFork, KernelForkCopyError, Runs, Unmade, Inherit
<1>2. \/ /\ n <= Usable(AfterStack) /\ state' = [state EXCEPT ![c] = "live"]
         /\ reserved' = reserved /\ mishaps' = mishaps
      \/ /\ state' = [state EXCEPT ![c] = "stillborn"] /\ reserved > 0
         /\ reserved' = reserved - 1 /\ mishaps' = mishaps \cup {"fork"}
  BY DEF KernelFork, KernelForkCopyError, Blame
<1>3. /\ d \in Seq({0} \cup Frame) /\ ChildStack \in Seq(Frame)
      /\ m \in [Page -> Entries]
      /\ n <= Usable(AfterStack) => \A i \in S : m[i] # INVALID_FRAME
      /\ "exec" \notin mishaps =>
           /\ d \in Seq(Frame) /\ NoDup(d)
           /\ Apart(ChildStack, m, d)
           /\ Elems(d) \cup Parts(ChildStack, m) = Elems(pfn_list)
  BY <1>1, CopyUPT
<1>4. S \subseteq Page
  BY DEF Valid
<1> HIDE DEF S, n, d, m
<1>5. /\ page_table'[c] = m /\ kernel_stack'[c] = ChildStack
      /\ data_index'[c] = data_index[p] /\ heap_index'[c] = heap_index[p]
      /\ stack_index'[c] = stack_index[p]
  BY <1>0, <1>1 DEF TypeOK
<1>6. /\ state' \in [Proc -> States] /\ state'[c] \in {"live", "stillborn"}
      /\ mishaps' = IF state'[c] = "live" THEN mishaps ELSE mishaps \cup {"fork"}
      /\ state'[c] = "live" => n <= Usable(AfterStack)
      /\ \A q \in Proc \ {c} : state'[q] = state[q]
  BY <1>0, <1>2 DEF TypeOK, States
<1>7. reserved' \in 0 .. KernelPages
  <2>1. reserved \in 0 .. KernelPages
    BY <1>0 DEF TypeOK
  <2> QED
    BY <1>2, <2>1, Sizes
<1>8. TypeOK'
  <2>1. page_table' \in [Proc -> [Page -> Entries]] /\ kernel_stack' \in [Proc -> Seq(Frame)]
    BY <1>0, <1>1, <1>3 DEF TypeOK
  <2>2. data_index' \in [Proc -> Nat] /\ heap_index' \in [Proc -> Nat] /\ stack_index' \in [Proc -> Nat]
    BY <1>0, <1>1 DEF TypeOK
  <2>3. mishaps' \subseteq Mishaps
    BY <1>0, <1>6 DEF TypeOK, Mishaps
  <2>4. pfn_list' \in Seq({0} \cup Frame) /\ crashed' \in BOOLEAN
    BY <1>0, <1>1, <1>3 DEF TypeOK
  <2> QED
    BY <1>6, <1>7, <2>1, <2>2, <2>3, <2>4 DEF TypeOK
<1>9. Others(c)
  BY <1>0, <1>1, <1>6 DEF Others, TypeOK
<1>10. ASSUME state'[c] = "live"
       PROVE  Segment(c)'
  <2>1. Segment(p)
    BY <1>1 DEF MemoryInv, Segments
  <2>2. \A i \in Valid(p) : i \in Valid(c)'
    BY <1>3, <1>4, <1>5, <1>6, <1>10 DEF Valid, S
  <2> QED
    BY <1>5, <2>1, <2>2 DEF Segment
<1> QED
  BY <1>1, <1>3, <1>5, <1>6, <1>8, <1>9, <1>10, ChildStep

LEMMA ForkNoPageStep ==
  ASSUME MemoryInv, NEW p \in Proc, NEW c \in Proc, KernelForkNoPage(p, c)
  PROVE  MemoryInv'
<1>0. TypeOK
  BY DEF MemoryInv
<1>1. /\ state[c] = "none" /\ KStackSize <= Usable(pfn_list) /\ pfn_list' = AfterStack
      /\ kernel_stack' = [kernel_stack EXCEPT ![c] = ChildStack]
      /\ data_index' = [data_index EXCEPT ![c] = data_index[p]]
      /\ heap_index' = [heap_index EXCEPT ![c] = heap_index[p]]
      /\ stack_index' = [stack_index EXCEPT ![c] = stack_index[p]]
      /\ state' = [state EXCEPT ![c] = "stillborn"]
      /\ mishaps' = mishaps \cup {"fork"}
      /\ UNCHANGED <<page_table, reserved, crashed>>
  BY DEF KernelForkNoPage, Unmade, Inherit, Blame
<1>2. page_table[c] = EmptyTable
  BY <1>1 DEF MemoryInv, Blank
<1>3. /\ AfterStack \in Seq({0} \cup Frame) /\ ChildStack \in Seq(Frame)
      /\ "exec" \notin mishaps =>
           /\ AfterStack \in Seq(Frame) /\ NoDup(AfterStack)
           /\ Apart(ChildStack, EmptyTable, AfterStack)
           /\ Elems(AfterStack) \cup Parts(ChildStack, EmptyTable) = Elems(pfn_list)
  BY <1>1, CopyUPT
<1>4. page_table'[c] = EmptyTable /\ kernel_stack'[c] = ChildStack
  BY <1>0, <1>1, <1>2 DEF TypeOK
<1>5. state' \in [Proc -> States] /\ state'[c] = "stillborn"
  BY <1>0, <1>1 DEF TypeOK, States
<1>6. TypeOK'
  <2>1. kernel_stack' \in [Proc -> Seq(Frame)]
    BY <1>0, <1>1, <1>3 DEF TypeOK
  <2>2. data_index' \in [Proc -> Nat] /\ heap_index' \in [Proc -> Nat] /\ stack_index' \in [Proc -> Nat]
    BY <1>0, <1>1 DEF TypeOK
  <2> QED
    BY <1>0, <1>1, <1>3, <1>5, <2>1, <2>2 DEF TypeOK, Mishaps
<1>7. Others(c)
  BY <1>0, <1>1 DEF Others, TypeOK
<1> QED
  BY <1>1, <1>3, <1>4, <1>5, <1>6, <1>7, ChildStep

LEMMA ForkNullStep ==
  ASSUME MemoryInv, NEW p \in Proc, NEW c \in Proc, KernelForkNull(p, c)
  PROVE  MemoryInv'
<1> DEFINE n == Usable(pfn_list)
           k == [j \in 1 .. n |-> Got(pfn_list, j)]
<1>0. TypeOK
  BY DEF MemoryInv
<1>1. /\ state[c] = "none" /\ KStackSize > n /\ pfn_list' = Drawn(pfn_list, KStackSize)
      /\ kernel_stack' = [kernel_stack EXCEPT ![c] = k]
      /\ state' = [state EXCEPT ![c] = "stillborn"]
      /\ mishaps' = mishaps \cup {"fork"} /\ crashed' = TRUE
      /\ UNCHANGED <<page_table, layout, reserved>>
  BY DEF KernelForkNull, Unmade, Blame, AfterStack
<1>2. page_table[c] = EmptyTable
  BY <1>1 DEF MemoryInv, Blank
<1>3. pfn_list \in Seq({0} \cup Frame)
  BY <1>0 DEF TypeOK
<1>4. n \in Nat /\ n = IF KStackSize <= Usable(pfn_list) THEN KStackSize ELSE Usable(pfn_list)
  BY <1>1, <1>3, UsableSuffix, Sizes
<1>5. /\ k \in Seq(Frame) /\ pfn_list' \in Seq({0} \cup Frame)
      /\ pfn_list \in Seq(Frame) /\ NoDup(pfn_list) =>
           /\ NoDup(k) /\ pfn_list' \in Seq(Frame) /\ NoDup(pfn_list')
           /\ Elems(k) \cap Elems(pfn_list') = {}
           /\ Elems(k) \cup Elems(pfn_list') = Elems(pfn_list)
  <2> HIDE DEF n
  <2> QED
    BY <1>1, <1>3, <1>4, StackStep, Sizes
<1> HIDE DEF k, n
<1>6. ASSUME "exec" \notin mishaps
      PROVE  /\ pfn_list' \in Seq(Frame) /\ NoDup(pfn_list')
             /\ Apart(k, EmptyTable, pfn_list')
             /\ Elems(pfn_list') \cup Parts(k, EmptyTable) = Elems(pfn_list)
  <2>1. pfn_list \in Seq(Frame) /\ NoDup(pfn_list)
    BY <1>6 DEF MemoryInv, Owners
  <2>2. Apart(k, EmptyTable, pfn_list') /\ Parts(k, EmptyTable) = Elems(k)
    BY <1>5, <2>1, EmptyTableFacts DEF Apart, Parts
  <2> QED
    BY <1>5, <2>1, <2>2
<1>7. page_table'[c] = EmptyTable /\ kernel_stack'[c] = k
  BY <1>0, <1>1, <1>2 DEF TypeOK
<1>8. state' \in [Proc -> States] /\ state'[c] = "stillborn"
  BY <1>0, <1>1 DEF TypeOK, States
<1>9. TypeOK'
  <2>1. kernel_stack' \in [Proc -> Seq(Frame)]
    BY <1>0, <1>1, <1>5 DEF TypeOK
  <2> QED
    BY <1>0, <1>1, <1>5, <1>8, <2>1 DEF TypeOK, Mishaps, layout
<1>10. Others(c)
  BY <1>0, <1>1 DEF Others, TypeOK, layout
<1> QED
  BY <1>1, <1>6, <1>7, <1>8, <1>9, <1>10, ChildStep

\* Brk or the growth of the stack maps the invalid pages S of p.
LEMMA GrowStep ==
  ASSUME MemoryInv, NEW p \in Proc, state[p] = "live", NEW S \in SUBSET Page,
         S \cap Valid(p) = {}, TypeOK',
         pfn_list' = Drawn(pfn_list, Cardinality(S)),
         page_table' = [page_table EXCEPT ![p] = Mapped(page_table[p], S, pfn_list)],
         UNCHANGED <<kernel_stack, data_index, stack_index, state>>,
         \A q \in Proc \ {p} : heap_index'[q] = heap_index[q],
         mishaps' \in {mishaps, mishaps \cup {"brk"}, mishaps \cup {"stack"}},
         Segment(p)'
  PROVE  MemoryInv'
<1> DEFINE m == Mapped(page_table[p], S, pfn_list)
<1>0. TypeOK
  BY DEF MemoryInv
<1>1. page_table'[p] = m /\ kernel_stack'[p] = kernel_stack[p] /\ state'[p] = "live"
  BY <1>0 DEF TypeOK
<1>2. p \in Holders'
  BY <1>1 DEF Holders
<1>3. \A i \in S : page_table[p][i] = INVALID_FRAME
  BY DEF Valid
<1>4. Others(p)
  BY <1>0 DEF Others, TypeOK
<1>5. HeldBy(p)' = Parts(kernel_stack[p], m)
  BY <1>1, <1>2 DEF HeldBy, Held
<1>6. ASSUME "exec" \notin mishaps
      PROVE  /\ pfn_list' \in Seq(Frame) /\ NoDup(pfn_list')
             /\ Apart(kernel_stack[p], m, pfn_list')
             /\ Elems(pfn_list') \cup HeldBy(p)' = Elems(pfn_list) \cup HeldBy(p)
  <2>1. /\ pfn_list \in Seq(Frame) /\ NoDup(pfn_list)
        /\ Apart(kernel_stack[p], page_table[p], pfn_list)
        /\ HeldBy(p) = Parts(kernel_stack[p], page_table[p])
    BY <1>6, LiveOwner
  <2>2. /\ page_table[p] \in Tables /\ OnceIn(page_table[p])
        /\ TableFrames(page_table[p]) \cap Elems(pfn_list) = {}
    BY <2>1 DEF Apart, Parts
  <2>3. /\ m \in Tables /\ OnceIn(m)
        /\ pfn_list' \in Seq(Frame) /\ NoDup(pfn_list')
        /\ TableFrames(m) \cap Elems(pfn_list') = {}
        /\ TableFrames(m) \cup Elems(pfn_list') = TableFrames(page_table[p]) \cup Elems(pfn_list)
    BY <1>3, <2>1, <2>2, MapStep
  <2> HIDE DEF m
  <2>4. Elems(kernel_stack[p]) \cap (TableFrames(m) \cup Elems(pfn_list')) = {}
    BY <2>1, <2>3 DEF Apart, Parts
  <2>5. Apart(kernel_stack[p], m, pfn_list')
    BY <2>1, <2>3, <2>4 DEF Apart, Parts
  <2>6. Elems(pfn_list') \cup HeldBy(p)' = Elems(pfn_list) \cup HeldBy(p)
    BY <1>5, <2>1, <2>3 DEF Parts
  <2> QED
    BY <2>3, <2>5, <2>6
<1>7. mishaps \subseteq mishaps' /\ ("exec" \notin mishaps' => "exec" \notin mishaps)
  OBVIOUS
<1>8. Handover(p)
  <2> HIDE DEF m
  <2> QED
    BY <1>1, <1>4, <1>6, <1>7 DEF Handover
<1> QED
  BY <1>1, <1>8, StepKeeps

\* The list and the table after it have their types.
LEMMA GrowTypes ==
  ASSUME TypeOK, NEW p \in Proc, NEW S \in SUBSET Page
  PROVE  LET m == Mapped(page_table[p], S, pfn_list)
         IN  /\ Drawn(pfn_list, Cardinality(S)) \in Seq({0} \cup Frame)
             /\ [page_table EXCEPT ![p] = m] \in [Proc -> [Page -> Entries]]
             /\ m \in [Page -> Entries]
             /\ \A i \in Page \ S : m[i] = page_table[p][i]
             /\ Cardinality(S) <= Usable(pfn_list) =>
                  \A i \in S : m[i] # INVALID_FRAME
<1> DEFINE m == Mapped(page_table[p], S, pfn_list)
<1>1. pfn_list \in Seq({0} \cup Frame) /\ page_table[p] \in [Page -> Entries] /\ Cardinality(S) \in Nat
  BY PageRanks DEF TypeOK
<1>2. Drawn(pfn_list, Cardinality(S)) \in Seq({0} \cup Frame)
  BY <1>1, DrawnPrefix
<1>3. /\ m \in [Page -> Entries]
      /\ \A i \in Page \ S : m[i] = page_table[p][i]
      /\ Cardinality(S) <= Usable(pfn_list) => \A i \in S : m[i] # INVALID_FRAME
  BY <1>1, MappedPages
<1> HIDE DEF m
<1>4. [page_table EXCEPT ![p] = m] \in [Proc -> [Page -> Entries]]
  BY <1>3 DEF TypeOK
<1> QED
  BY <1>2, <1>3, <1>4 DEF m

LEMMA BrkGrowStep ==
  ASSUME MemoryInv, NEW p \in Proc, NEW target \in Page, BrkGrow(p, target)
  PROVE  MemoryInv'
<1> DEFINE S == heap_index[p] .. target - 1
           m == Mapped(page_table[p], S, pfn_list)
<1>0. TypeOK
  BY DEF MemoryInv
<1>1. /\ state[p] = "live" /\ data_index[p] < target /\ target < stack_index[p]
      /\ heap_index[p] < target /\ S \cap Valid(p) = {}
      /\ pfn_list' = Drawn(pfn_list, Cardinality(S))
      /\ page_table' = [page_table EXCEPT ![p] = m]
      /\ UNCHANGED <<kernel_stack, data_index, stack_index, state, reserved, crashed>>
  BY DEF BrkGrow, Runs
<1>2. \/ /\ Cardinality(S) <= Usable(pfn_list)
         /\ heap_index' = [heap_index EXCEPT ![p] = target] /\ mishaps' = mishaps
      \/ heap_index' = heap_index /\ mishaps' = mishaps \cup {"brk"}
  BY DEF BrkGrow, Blame
<1>3. Segment(p) /\ heap_index[p] \in Nat /\ data_index[p] \in Nat /\ stack_index[p] \in Nat
  BY <1>0, <1>1 DEF MemoryInv, Segments, TypeOK
<1>4. target \in Nat /\ target <= NumPages /\ NumPages \in Nat
  BY Sizes DEF Page
<1>5. S \in SUBSET Page
  BY <1>1, <1>3, <1>4 DEF Segment, Page
<1> HIDE DEF S
<1>6. /\ pfn_list' \in Seq({0} \cup Frame) /\ page_table' \in [Proc -> [Page -> Entries]]
      /\ m \in [Page -> Entries]
      /\ \A i \in Page \ S : m[i] = page_table[p][i]
      /\ Cardinality(S) <= Usable(pfn_list) => \A i \in S : m[i] # INVALID_FRAME
  BY <1>0, <1>1, <1>5, GrowTypes
<1> HIDE DEF m
<1>7. page_table'[p] = m
  BY <1>0, <1>1 DEF TypeOK
<1>8. /\ heap_index' \in [Proc -> Nat] /\ \A q \in Proc \ {p} : heap_index'[q] = heap_index[q]
      /\ mishaps' \in {mishaps, mishaps \cup {"brk"}, mishaps \cup {"stack"}}
  BY <1>0, <1>2, <1>4 DEF TypeOK
<1>9. TypeOK'
  <2>1. mishaps' \subseteq Mishaps
    BY <1>0, <1>2 DEF TypeOK, Mishaps
  <2> QED
    BY <1>0, <1>1, <1>6, <1>8, <2>1 DEF TypeOK
<1>10. Valid(p) \subseteq Valid(p)'
  BY <1>1, <1>6, <1>7 DEF Valid
<1>11. Segment(p)'
  <2>1. CASE heap_index' = heap_index
    BY <1>1, <1>3, <1>10, <2>1 DEF Segment
  <2>2. CASE Cardinality(S) <= Usable(pfn_list) /\ heap_index' = [heap_index EXCEPT ![p] = target]
    <3>1. heap_index'[p] = target
      BY <1>0, <2>2 DEF TypeOK
    <3>2. S \subseteq Valid(p)'
      BY <1>5, <1>6, <1>7, <2>2 DEF Valid
    <3>3. \A i \in data_index[p] .. target - 1 : i \in data_index[p] .. heap_index[p] - 1 \/ i \in S
      BY <1>1, <1>3, <1>4 DEF S
    <3>4. data_index[p] .. target - 1 \subseteq Valid(p)'
      BY <1>3, <1>10, <3>2, <3>3 DEF Segment
    <3>5. data_index[p] .. heap_index[p] - 1 \subseteq Valid(p) /\ stack_index[p] .. NumPages \subseteq Valid(p)'
      BY <1>3, <1>10 DEF Segment
    <3>6. /\ 1 <= data_index[p] /\ data_index[p] < target /\ target < stack_index[p]
          /\ stack_index[p] <= NumPages
      BY <1>1, <1>3 DEF Segment
    <3> QED
      BY <1>1, <3>1, <3>4, <3>5, <3>6 DEF Segment
  <2> QED
    BY <1>2, <2>1, <2>2
<1> QED
  BY <1>1, <1>5, <1>8, <1>9, <1>11, GrowStep DEF m

LEMMA GrowStackStep ==
  ASSUME MemoryInv, NEW p \in Proc, NEW target \in Page, GrowStack(p, target)
  PROVE  MemoryInv'
<1> DEFINE S == {i \in target .. stack_index[p] - 1 : i \notin Valid(p)}
           m == Mapped(page_table[p], S, pfn_list)
<1>0. TypeOK
  BY DEF MemoryInv
<1>1. /\ state[p] = "live"
      /\ pfn_list' = Drawn(pfn_list, Cardinality(S))
      /\ page_table' = [page_table EXCEPT ![p] = m]
      /\ mishaps' \in {mishaps, mishaps \cup {"stack"}}
      /\ UNCHANGED <<kernel_stack, layout, state, reserved, crashed>>
  BY DEF GrowStack, Runs
<1>2. Segment(p) /\ stack_index[p] \in Nat
  BY <1>0, <1>1 DEF MemoryInv, Segments, TypeOK
<1>3. S \in SUBSET Page /\ S \cap Valid(p) = {}
  BY <1>2, Sizes DEF Segment, Page
<1> HIDE DEF S
<1>4. /\ pfn_list' \in Seq({0} \cup Frame) /\ page_table' \in [Proc -> [Page -> Entries]]
      /\ \A i \in Page \ S : m[i] = page_table[p][i]
  BY <1>0, <1>1, <1>3, GrowTypes
<1> HIDE DEF m
<1>5. page_table'[p] = m
  BY <1>0, <1>1 DEF TypeOK
<1>6. Valid(p) \subseteq Valid(p)'
  BY <1>3, <1>4, <1>5 DEF Valid
<1>7. Segment(p)'
  BY <1>1, <1>2, <1>6 DEF Segment, layout
<1>8. TypeOK'
  <2>1. mishaps' \subseteq Mishaps
    BY <1>0, <1>1 DEF TypeOK, Mishaps
  <2> QED
    BY <1>0, <1>1, <1>4, <2>1 DEF TypeOK, layout
<1>9. /\ UNCHANGED <<kernel_stack, data_index, stack_index, state>>
      /\ \A q \in Proc \ {p} : heap_index'[q] = heap_index[q]
      /\ mishaps' \in {mishaps, mishaps \cup {"brk"}, mishaps \cup {"stack"}}
  BY <1>1 DEF layout
<1> QED
  BY <1>1, <1>3, <1>7, <1>8, <1>9, GrowStep DEF m

\* Taking pages a .. b - 1 out of table t: r are their frames and u is what
\* is left.
LEMMA Unmap ==
  ASSUME NEW t \in [Page -> Entries], NEW a \in Nat, NEW b \in Nat, a < b,
         \A i \in a .. b - 1 : i \in Page /\ t[i] # INVALID_FRAME
  PROVE  LET r == [k \in 1 .. b - a |-> t[a + k - 1]]
             u == [i \in Page |-> IF i \in a .. b - 1 THEN INVALID_FRAME ELSE t[i]]
         IN  /\ r \in Seq({0} \cup Frame) /\ u \in [Page -> Entries]
             /\ t \in Tables => u \in Tables /\ r \in Seq(Frame)
             /\ OnceIn(t) => /\ OnceIn(u) /\ NoDup(r)
                             /\ TableFrames(u) \cap Elems(r) = {}
             /\ TableFrames(u) \cup Elems(r) = TableFrames(t)
<1> DEFINE r == [k \in 1 .. b - a |-> t[a + k - 1]]
           u == [i \in Page |-> IF i \in a .. b - 1 THEN INVALID_FRAME ELSE t[i]]
<1>1. \A k \in 1 .. b - a : a + k - 1 \in a .. b - 1
  OBVIOUS
<1>2. \A i \in a .. b - 1 : i - a + 1 \in 1 .. b - a /\ a + (i - a + 1) - 1 = i
  OBVIOUS
<1>3. \A j, k \in 1 .. b - a : a + j - 1 = a + k - 1 => j = k
  OBVIOUS
<1>4. \A i \in a .. b - 1 : t[i] \in {0} \cup Frame
  BY DEF Entries
<1>5. b - a \in Nat /\ DOMAIN r = 1 .. b - a
  OBVIOUS
<1>6. \A k \in 1 .. b - a : r[k] = t[a + k - 1]
  OBVIOUS
<1>7. r \in Seq({0} \cup Frame)
  <2>1. r \in [1 .. b - a -> {0} \cup Frame]
    BY <1>1, <1>4
  <2> QED
    BY <1>5, <2>1
<1>8. u \in [Page -> Entries] /\ (t \in Tables => u \in Tables)
  BY DEF Entries, Tables
<1>9. ASSUME t \in Tables
      PROVE  r \in Seq(Frame)
  <2>1. \A i \in a .. b - 1 : t[i] \in Frame
    BY <1>9 DEF Tables
  <2>2. r \in [1 .. b - a -> Frame]
    BY <1>1, <2>1
  <2> QED
    BY <1>5, <2>2
<1>10. \A i \in Page : /\ i \in a .. b - 1 => u[i] = INVALID_FRAME
                       /\ i \notin a .. b - 1 => u[i] = t[i]
  OBVIOUS
<1> HIDE DEF r, u
<1>11. Elems(r) = {t[i] : i \in a .. b - 1}
  <2>1. ASSUME NEW k \in 1 .. b - a
        PROVE  r[k] \in {t[i] : i \in a .. b - 1}
    BY <1>1, <1>6
  <2>2. ASSUME NEW i \in a .. b - 1
        PROVE  t[i] \in Elems(r)
    <3>1. i - a + 1 \in DOMAIN r /\ r[i - a + 1] = t[i]
      BY <1>2, <1>5, <1>6
    <3> QED
      BY <3>1 DEF Elems
  <2> QED
    BY <1>5, <2>1, <2>2 DEF Elems
<1>12. TableFrames(u) = {t[i] : i \in {j \in Page \ (a .. b - 1) : t[j] # INVALID_FRAME}}
  BY <1>10 DEF TableFrames
<1>13. TableFrames(u) \cup Elems(r) = TableFrames(t)
  <2>1. TableFrames(u) \subseteq TableFrames(t) /\ Elems(r) \subseteq TableFrames(t)
    BY <1>11, <1>12 DEF TableFrames
  <2>2. ASSUME NEW i \in Page, t[i] # INVALID_FRAME
        PROVE  t[i] \in TableFrames(u) \cup Elems(r)
    BY <1>11, <1>12, <2>2
  <2>3. TableFrames(t) \subseteq TableFrames(u) \cup Elems(r)
    BY <2>2 DEF TableFrames
  <2> QED
    BY <2>1, <2>3
<1>14. ASSUME OnceIn(t)
       PROVE  /\ OnceIn(u) /\ NoDup(r)
              /\ TableFrames(u) \cap Elems(r) = {}
  <2>1. OnceIn(u)
    BY <1>10, <1>14 DEF OnceIn
  <2>2. ASSUME NEW j \in 1 .. b - a, NEW k \in 1 .. b - a, r[j] = r[k]
        PROVE  j = k
    <3>1. /\ a + j - 1 \in a .. b - 1 /\ a + k - 1 \in a .. b - 1
          /\ t[a + j - 1] = t[a + k - 1]
      BY <1>1, <1>6, <2>2
    <3>2. a + j - 1 = a + k - 1
      BY <1>14, <3>1 DEF OnceIn
    <3> QED
      BY <1>3, <3>2
  <2>3. NoDup(r)
    BY <1>5, <2>2 DEF NoDup
  <2>4. TableFrames(u) \cap Elems(r) = {}
    BY <1>11, <1>12, <1>14 DEF OnceIn
  <2> QED
    BY <2>1, <2>3, <2>4
<1> QED
  BY <1>7, <1>8, <1>9, <1>13, <1>14 DEF r, u

LEMMA BrkShrinkStep ==
  ASSUME MemoryInv, NEW p \in Proc, NEW target \in Page, BrkShrink(p, target)
  PROVE  MemoryInv'
<1> DEFINE S == target .. heap_index[p] - 1
           t == page_table[p]
           r == [k \in 1 .. heap_index[p] - target |-> t[target + k - 1]]
           u == [i \in Page |-> IF i \in S THEN INVALID_FRAME ELSE t[i]]
<1>0. TypeOK
  BY DEF MemoryInv
<1>1. /\ state[p] = "live" /\ data_index[p] < target /\ target < stack_index[p]
      /\ target < heap_index[p] /\ S \subseteq Valid(p)
      /\ pfn_list' = pfn_list \o r
      /\ page_table' = [page_table EXCEPT ![p] = u]
      /\ heap_index' = [heap_index EXCEPT ![p] = target]
      /\ UNCHANGED <<kernel_stack, data_index, stack_index, state, reserved,
                     crashed, mishaps>>
  BY DEF BrkShrink, Runs, DeallocateAll
<1>2. Segment(p) /\ heap_index[p] \in Nat /\ data_index[p] \in Nat /\ stack_index[p] \in Nat
  BY <1>0, <1>1 DEF MemoryInv, Segments, TypeOK
<1>3. target \in Nat /\ NumPages \in Nat
  BY Sizes DEF Page
<1>4. t \in [Page -> Entries] /\ pfn_list \in Seq({0} \cup Frame)
  BY <1>0 DEF TypeOK
<1>5. \A i \in S : i \in Page /\ t[i] # INVALID_FRAME
  BY <1>1 DEF Valid
<1> HIDE DEF t
<1>6. /\ r \in Seq({0} \cup Frame) /\ u \in [Page -> Entries]
      /\ t \in Tables => u \in Tables /\ r \in Seq(Frame)
      /\ OnceIn(t) => /\ OnceIn(u) /\ NoDup(r)
                      /\ TableFrames(u) \cap Elems(r) = {}
      /\ TableFrames(u) \cup Elems(r) = TableFrames(t)
  BY <1>1, <1>2, <1>3, <1>4, <1>5, Unmap
<1>7. \A i \in Page \ S : u[i] = t[i]
  OBVIOUS
<1> HIDE DEF r, u, S
<1>8. pfn_list' \in Seq({0} \cup Frame)
  BY <1>1, <1>4, <1>6, ConcatQueue
<1>9. page_table'[p] = u /\ heap_index'[p] = target
  BY <1>0, <1>1 DEF TypeOK
<1>10. TypeOK'
  <2>1. page_table' \in [Proc -> [Page -> Entries]]
    BY <1>0, <1>1, <1>6 DEF TypeOK
  <2>2. heap_index' \in [Proc -> Nat]
    BY <1>0, <1>1, <1>3 DEF TypeOK
  <2> QED
    BY <1>0, <1>1, <1>8, <2>1, <2>2 DEF TypeOK
<1>11. Others(p)
  BY <1>0, <1>1 DEF Others, TypeOK
<1>12. p \in Holders' /\ HeldBy(p)' = Parts(kernel_stack[p], u)
  BY <1>1, <1>9 DEF HeldBy, Held, Holders
<1>13. ASSUME "exec" \notin mishaps
       PROVE  /\ pfn_list' \in Seq(Frame) /\ NoDup(pfn_list')
              /\ Apart(kernel_stack[p], u, pfn_list')
              /\ Elems(pfn_list') \cup HeldBy(p)' = Elems(pfn_list) \cup HeldBy(p)
  <2>1. /\ pfn_list \in Seq(Frame) /\ NoDup(pfn_list)
        /\ Apart(kernel_stack[p], t, pfn_list)
        /\ HeldBy(p) = Parts(kernel_stack[p], t)
    BY <1>1, <1>13, LiveOwner DEF t
  <2>2. /\ t \in Tables /\ OnceIn(t) /\ NoDup(kernel_stack[p])
        /\ Elems(kernel_stack[p]) \cap TableFrames(t) = {}
        /\ Elems(kernel_stack[p]) \cap Elems(pfn_list) = {}
        /\ TableFrames(t) \cap Elems(pfn_list) = {}
    BY <2>1 DEF Apart, Parts
  <2>3. /\ r \in Seq(Frame) /\ NoDup(r) /\ Elems(pfn_list) \cap Elems(r) = {}
        /\ u \in Tables /\ OnceIn(u) /\ TableFrames(u) \cap Elems(r) = {}
        /\ TableFrames(u) \cup Elems(r) = TableFrames(t)
    BY <1>6, <2>2
  <2>4. /\ pfn_list' \in Seq(Frame) /\ NoDup(pfn_list')
        /\ Elems(pfn_list') = Elems(pfn_list) \cup Elems(r)
    BY <1>1, <2>1, <2>3, ConcatQueue
  <2>5. Apart(kernel_stack[p], u, pfn_list')
    BY <2>2, <2>3, <2>4 DEF Apart, Parts
  <2>6. Elems(pfn_list') \cup HeldBy(p)' = Elems(pfn_list) \cup HeldBy(p)
    BY <1>12, <2>1, <2>3, <2>4 DEF Parts
  <2> QED
    BY <2>4, <2>5, <2>6
<1>14. Handover(p)
  BY <1>1, <1>9, <1>11, <1>13 DEF Handover
<1>15. Segment(p)'
  <2>1. \A i \in Valid(p) \ S : i \in Valid(p)'
    BY <1>7, <1>9 DEF Valid, t
  <2>2. \A i \in data_index[p] .. target - 1 : i \in data_index[p] .. heap_index[p] - 1 /\ i \notin S
    BY <1>1, <1>2, <1>3 DEF S
  <2>3. \A i \in stack_index[p] .. NumPages : i \notin S
    BY <1>2, <1>3 DEF S, Segment
  <2>4. data_index[p] .. target - 1 \subseteq Valid(p)'
    BY <1>2, <2>1, <2>2 DEF Segment
  <2>5. stack_index[p] .. NumPages \subseteq Valid(p)'
    BY <1>2, <2>1, <2>3 DEF Segment
  <2>6. /\ 1 <= data_index[p] /\ data_index[p] < target /\ target < stack_index[p]
        /\ stack_index[p] <= NumPages
    BY <1>1, <1>2 DEF Segment
  <2> QED
    BY <1>1, <1>9, <2>4, <2>5, <2>6 DEF Segment
<1> QED
  BY <1>1, <1>10, <1>14, <1>15, StepKeeps

-----------------------------------------------------------------------------
(* The invariant.                                                          *)

\* The list that the kernel starts with has every frame once.
LEMMA BootList ==
  /\ BootFrames \in Seq(Frame) /\ NoDup(BootFrames) /\ Elems(BootFrames) = Frame
  /\ Len(BootFrames) = NumFrames
  /\ \A k \in Frame : Got(BootFrames, k) = k
<1> DEFINE N == NumFrames
<1>0. N \in Nat
  BY Sizes
<1>1. \A i \in 1 .. N : N + 1 - i \in 1 .. N /\ N + 1 - (N + 1 - i) = i
  BY <1>0
<1>2. /\ BootFrames \in [1 .. N -> 1 .. N] /\ DOMAIN BootFrames = 1 .. N
      /\ \A i \in 1 .. N : BootFrames[i] = N + 1 - i
  BY <1>1 DEF BootFrames
<1>3. BootFrames \in Seq(Frame) /\ Len(BootFrames) = N
  BY <1>0, <1>2 DEF Frame
<1>4. NoDup(BootFrames)
  BY <1>1, <1>2 DEF NoDup
<1>5. Elems(BootFrames) = Frame
  <2>1. Elems(BootFrames) \subseteq 1 .. N
    BY <1>1, <1>2 DEF Elems
  <2>2. ASSUME NEW f \in 1 .. N
        PROVE  f \in Elems(BootFrames)
    <3>1. N + 1 - f \in DOMAIN BootFrames /\ BootFrames[N + 1 - f] = f
      BY <1>1, <1>2
    <3> QED
      BY <3>1 DEF Elems
  <2> QED
    BY <2>1, <2>2 DEF Frame
<1>6. \A k \in 1 .. N : Got(BootFrames, k) = k
  BY <1>1, <1>2, <1>3 DEF Got
<1> QED
  BY <1>3, <1>4, <1>5, <1>6 DEF Frame

LEMMA InitInv == Init => MemoryInv
<1> SUFFICES ASSUME Init
             PROVE  MemoryInv
  OBVIOUS
<1> DEFINE l == Drawn(BootFrames, KStackSize)
           k == [j \in 1 .. KStackSize |-> j]
<1>1. PICK prog \in Programs :
       /\ Fits(prog) /\ Cardinality(Pages(prog)) <= Usable(l)
       /\ pfn_list = Drawn(l, Cardinality(Pages(prog)))
       /\ page_table = [p \in Proc |-> IF p = 1 THEN Mapped(EmptyTable, Pages(prog), l)
                                                ELSE EmptyTable]
       /\ data_index = [p \in Proc |-> IF p = 1 THEN prog.text + 1 ELSE 0]
       /\ heap_index = [p \in Proc |-> IF p = 1 THEN prog.text + prog.data + 1 ELSE 0]
       /\ stack_index = [p \in Proc |-> IF p = 1 THEN NumPages - prog.stack + 1 ELSE 0]
  BY DEF Init
<1> DEFINE S == Pages(prog)
           m == Mapped(EmptyTable, S, l)
<1>2. /\ KStackSize <= NumFrames
      /\ kernel_stack = [p \in Proc |-> IF p = 1 THEN k ELSE <<>>]
      /\ state = [p \in Proc |-> IF p = 1 THEN "live" ELSE "none"]
      /\ reserved = KernelPages /\ crashed = FALSE /\ mishaps = {}
  BY DEF Init
<1>3. 1 \in Proc
  BY Sizes DEF Proc
<1>4. S \in SUBSET Page /\ Cardinality(S) \in Nat
  BY <1>1, ProgramPages, PageRanks
<1>5. /\ k \in Seq(Frame) /\ NoDup(k) /\ l \in Seq(Frame) /\ NoDup(l)
      /\ Elems(k) \cap Elems(l) = {} /\ Elems(k) \cup Elems(l) = Frame
  <2>1. BootFrames \in Seq({0} \cup Frame)
    BY BootList, Widen
  <2>2. KStackSize <= Usable(BootFrames) /\ KStackSize \in Nat
    BY <1>2, <2>1, BootList, UsableSuffix, Sizes
  <2>3. \A j \in 1 .. KStackSize : j \in Frame
    BY <1>2, Sizes DEF Frame
  <2>4. k = [j \in 1 .. KStackSize |-> Got(BootFrames, j)]
    BY <2>3, BootList
  <2> HIDE DEF k, l
  <2>5. LET g == [j \in 1 .. KStackSize |-> Got(BootFrames, j)]
        IN  /\ g \in Seq(Frame) /\ NoDup(g)
            /\ l \in Seq(Frame) /\ NoDup(l)
            /\ Elems(g) \cap Elems(l) = {}
            /\ Elems(g) \cup Elems(l) = Elems(BootFrames)
    BY <2>1, <2>2, BootList, StackStep DEF l
  <2> QED
    BY <2>4, <2>5, BootList
<1>6. l \in Seq({0} \cup Frame)
  BY <1>5, Widen
<1> HIDE DEF S, l, k
<1>7. /\ m \in [Page -> Entries] /\ \A i \in S : m[i] # INVALID_FRAME
  <2>1. EmptyTable \in [Page -> Entries]
    BY EmptyTableFacts
  <2>2. /\ m \in [Page -> Entries]
        /\ Cardinality(S) <= Usable(l) => \A i \in S : m[i] # INVALID_FRAME
    BY <1>4, <1>6, <2>1, MappedPages
  <2> HIDE DEF m
  <2> QED
    BY <1>1, <2>2 DEF S
<1>8. /\ m \in Tables /\ OnceIn(m)
      /\ pfn_list \in Seq(Frame) /\ NoDup(pfn_list)
      /\ TableFrames(m) \cap Elems(pfn_list) = {}
      /\ TableFrames(m) \cup Elems(pfn_list) = {} \cup Elems(l)
  <2>1. pfn_list = Drawn(l, Cardinality(S))
    BY <1>1 DEF S
  <2> QED
    BY <1>4, <1>5, <2>1, MapStep, EmptyTableFacts
<1>9. page_table = [p \in Proc |-> IF p = 1 THEN m ELSE EmptyTable]
  BY <1>1 DEF S
<1> HIDE DEF m
<1>10. /\ page_table[1] = m /\ kernel_stack[1] = k /\ state[1] = "live"
       /\ Holders = {1}
  BY <1>2, <1>3, <1>9 DEF Holders
<1>11. TypeOK
  <2>1. page_table \in [Proc -> [Page -> Entries]]
    BY <1>7, <1>9, EmptyTableFacts
  <2>2. kernel_stack \in [Proc -> Seq(Frame)]
    BY <1>2, <1>5
  <2>3. prog.text + 1 \in Nat /\ prog.text + prog.data + 1 \in Nat /\ NumPages - prog.stack + 1 \in Nat
    BY <1>1, ProgramPages, Sizes
  <2>4. data_index \in [Proc -> Nat] /\ heap_index \in [Proc -> Nat] /\ stack_index \in [Proc -> Nat]
    BY <1>1, <2>3
  <2>5. pfn_list \in Seq({0} \cup Frame)
    BY <1>8, Widen
  <2>6. state \in [Proc -> States]
    BY <1>2 DEF States
  <2>7. reserved \in 0 .. KernelPages
    BY <1>2, Sizes
  <2> QED
    BY <1>2, <2>1, <2>2, <2>4, <2>5, <2>6, <2>7 DEF TypeOK
<1>12. Segment(1)
  <2>1. /\ data_index[1] = prog.text + 1 /\ heap_index[1] = prog.text + prog.data + 1
        /\ stack_index[1] = NumPages - prog.stack + 1
    BY <1>1, <1>3
  <2>2. \A i \in S : i \in Valid(1)
    BY <1>4, <1>7, <1>10 DEF Valid
  <2>3. /\ data_index[1] .. heap_index[1] - 1 \subseteq S
        /\ stack_index[1] .. NumPages \subseteq S
    <3>1. heap_index[1] - 1 = prog.text + prog.data
      BY <1>1, <2>1, ProgramPages
    <3> QED
      BY <2>1, <3>1 DEF S, Pages, Data, Stack
  <2>4. /\ 1 <= data_index[1] /\ data_index[1] < heap_index[1]
        /\ heap_index[1] < stack_index[1] /\ stack_index[1] <= NumPages
    BY <1>1, <2>1, ProgramPages, Sizes
  <2> QED
    BY <2>2, <2>3, <2>4 DEF Segment
<1>13. Segments /\ Blank
  BY <1>2, <1>9, <1>12 DEF Segments, Blank
<1>14. Parts(k, m) = Elems(k) \cup TableFrames(m)
  BY DEF Parts
<1>15. Apart(k, m, pfn_list)
  BY <1>5, <1>8, <1>14 DEF Apart
<1>16. Held(1) = Parts(k, m)
  BY <1>10 DEF Held
<1>17. Owners
  BY <1>8, <1>10, <1>15 DEF Owners
<1>18. Owned
  BY <1>5, <1>8, <1>10, <1>14, <1>16 DEF Owned
<1> QED
  BY <1>11, <1>13, <1>17, <1>18 DEF MemoryInv

\* Every step keeps the invariant.
LEMMA NextInv == MemoryInv /\ [Next]_vars => MemoryInv'
<1> SUFFICES ASSUME MemoryInv, [Next]_vars
             PROVE  MemoryInv'
  OBVIOUS
<1>1. ASSUME NEW p \in Proc, KernelExit(p) \/ KernelExecRefused(p)
      PROVE  MemoryInv'
  BY <1>1, ExitStep DEF KernelExecRefused
<1>2. ASSUME NEW p \in Proc, TrapFault(p)
      PROVE  MemoryInv'
  BY <1>2, FaultStep
<1>3. ASSUME NEW p \in Proc, NEW c \in Proc,
             \/ KernelFork(p, c) \/ KernelForkCopyError(p, c)
             \/ KernelForkNoPage(p, c) \/ KernelForkNull(p, c)
      PROVE  MemoryInv'
  BY <1>3, ForkStep, ForkNoPageStep, ForkNullStep
<1>4. ASSUME NEW p \in Proc, NEW prog \in Programs,
             KernelExec(p, prog) \/ KernelExecError(p, prog)
      PROVE  MemoryInv'
  BY <1>4, ExecStep, ExecErrorStep
<1>5. ASSUME NEW p \in Proc, NEW target \in Page,
             BrkGrow(p, target) \/ BrkShrink(p, target) \/ GrowStack(p, target)
      PROVE  MemoryInv'
  BY <1>5, BrkGrowStep, BrkShrinkStep, GrowStackStep
<1>6. CASE UNCHANGED vars
  BY <1>6 DEF MemoryInv, vars, layout, TypeOK, Segments, Segment, Valid, Owners,
              Holders, Held, Owned, Blank
<1>7. CASE Lifecycle
  BY <1>1, <1>2, <1>3, <1>7 DEF Lifecycle
<1>8. CASE Reshape
  BY <1>4, <1>5, <1>8 DEF Reshape
<1> QED
  BY <1>6, <1>7, <1>8 DEF Next

\* MemoryInv holds in every reachable state.
THEOREM MemoryInvariant == Spec => []MemoryInv
  BY InitInv, NextInv, PTL DEF Spec

\* The places of a frame, one kind after the other.
LEMMA PlacesParts ==
  ASSUME NEW f
  PROVE  \A x : x \in Places(f) <=>
                \/ x \in ListPlaces(f)
                \/ \E p \in Holders : x \in PagePlaces(p, f) \cup StackPlaces(p, f)
  BY Zenon DEF Places

\* A frame that has at most one owner is in at most one place.
LEMMA OnePlaceEach ==
  ASSUME MemoryInv, "exec" \notin mishaps, NEW f \in Frame
  PROVE  Cardinality(Places(f)) <= 1
<1> DEFINE InList(j) == j \in DOMAIN pfn_list /\ pfn_list[j] = f
           InPage(p, j) == p \in Holders /\ j \in Page /\ page_table[p][j] = f
           InStack(p, j) == p \in Holders /\ j \in DOMAIN kernel_stack[p] /\ kernel_stack[p][j] = f
<1>1. /\ NoDup(pfn_list)
      /\ \A p \in Holders : Apart(kernel_stack[p], page_table[p], pfn_list)
      /\ \A p, q \in Holders : p # q => Held(p) \cap Held(q) = {}
  BY DEF MemoryInv, Owners
<1>2. f # INVALID_FRAME
  BY Sizes DEF Frame, INVALID_FRAME
<1>3. \A x \in Places(f) : \/ \E j : InList(j) /\ x = <<"free", j>>
                           \/ \E p, j : InPage(p, j) /\ x = <<"page", p, j>>
                           \/ \E p, j : InStack(p, j) /\ x = <<"stack", p, j>>
  <2> TAKE x \in Places(f)
  <2>1. x \in ListPlaces(f) \/ \E p \in Holders : x \in PagePlaces(p, f) \cup StackPlaces(p, f)
    BY PlacesParts
  <2>2. CASE x \in ListPlaces(f)
    BY <2>2 DEF ListPlaces
  <2>3. ASSUME NEW p \in Holders, x \in PagePlaces(p, f)
        PROVE  \E j : InPage(p, j) /\ x = <<"page", p, j>>
    BY <2>3 DEF PagePlaces
  <2>4. ASSUME NEW p \in Holders, x \in StackPlaces(p, f)
        PROVE  \E j : InStack(p, j) /\ x = <<"stack", p, j>>
    BY <2>4 DEF StackPlaces
  <2> HIDE DEF InList, InPage, InStack
  <2> QED
    BY <2>1, <2>2, <2>3, <2>4
<1>4. \A j : InList(j) => f \in Elems(pfn_list)
  BY DEF Elems
<1>5. \A p, j : InPage(p, j) => p \in Holders /\ f \in TableFrames(page_table[p]) /\ f \in Held(p)
  BY <1>2 DEF TableFrames, Held, Parts
<1>6. \A p, j : InStack(p, j) => p \in Holders /\ f \in Elems(kernel_stack[p]) /\ f \in Held(p)
  BY DEF Elems, Held, Parts
<1>7. \A p \in Holders : /\ f \in Held(p) => f \notin Elems(pfn_list)
                         /\ ~(f \in Elems(kernel_stack[p]) /\ f \in TableFrames(page_table[p]))
  BY <1>1 DEF Apart, Held
<1>8. \A p, q \in Holders : f \in Held(p) /\ f \in Held(q) => p = q
  BY <1>1
<1>9. \A i, j : InList(i) /\ InList(j) => i = j
  BY <1>1 DEF NoDup
<1>10. \A p, i, j : InPage(p, i) /\ InPage(p, j) => i = j
  BY <1>1, <1>2 DEF Apart, OnceIn
<1>11. \A p, i, j : InStack(p, i) /\ InStack(p, j) => i = j
  BY <1>1 DEF Apart, NoDup
<1> HIDE DEF InList, InPage, InStack
<1>12. ASSUME NEW x \in Places(f), NEW y \in Places(f)
       PROVE  x = y
  <2>1. CASE \E j : InList(j) /\ x = <<"free", j>>
    <3>1. f \in Elems(pfn_list)
      BY <1>4, <2>1
    <3>2. \E j : InList(j) /\ y = <<"free", j>>
      BY <1>3, <1>5, <1>6, <1>7, <3>1
    <3> QED
      BY <1>9, <2>1, <3>2
  <2>2. CASE \E p, j : InPage(p, j) /\ x = <<"page", p, j>>
    <3>1. PICK p, j : InPage(p, j) /\ x = <<"page", p, j>>
      BY <2>2
    <3>2. p \in Holders /\ f \in TableFrames(page_table[p]) /\ f \in Held(p)
      BY <1>5, <3>1
    <3>3. PICK q, i : InPage(q, i) /\ y = <<"page", q, i>>
      <4>1. ~ \E i : InList(i)
        BY <1>4, <1>7, <3>2
      <4>2. ~ \E q, i : InStack(q, i)
        BY <1>6, <1>7, <1>8, <3>2
      <4> QED
        BY <1>3, <4>1, <4>2
    <3>4. q = p
      BY <1>5, <1>8, <3>2, <3>3
    <3> QED
      BY <1>10, <3>1, <3>3, <3>4
  <2>3. CASE \E p, j : InStack(p, j) /\ x = <<"stack", p, j>>
    <3>1. PICK p, j : InStack(p, j) /\ x = <<"stack", p, j>>
      BY <2>3
    <3>2. p \in Holders /\ f \in Elems(kernel_stack[p]) /\ f \in Held(p)
      BY <1>6, <3>1
    <3>3. PICK q, i : InStack(q, i) /\ y = <<"stack", q, i>>
      <4>1. ~ \E i : InList(i)
        BY <1>4, <1>7, <3>2
      <4>2. ~ \E q, i : InPage(q, i)
        BY <1>5, <1>7, <1>8, <3>2
      <4> QED
        BY <1>3, <4>1, <4>2
    <3>4. q = p
      BY <1>6, <1>8, <3>2, <3>3
    <3> QED
      BY <1>11, <3>1, <3>3, <3>4
  <2> QED
    BY <1>3, <2>1, <2>2, <2>3
<1>13. CASE Places(f) = {}
  BY <1>13, FS_EmptySet
<1>14. CASE Places(f) # {}
  <2>1. PICK x : x \in Places(f)
    BY <1>14
  <2>2. Places(f) = {x}
    BY <1>12, <2>1
  <2>3. Cardinality({x}) = 1
    BY FS_Singleton
  <2> QED
    BY <2>2, <2>3
<1> QED
  BY <1>13, <1>14

\* No frame has two owners: whatever Fork, Exec, Brk, the growth of the stack
\* and Exit do, and also when frames run out, a frame is in one place as long
\* as no Exec has run out of them.
THEOREM FramesNotSharedCorrect == Spec => []FramesNotShared
<1>1. MemoryInv => FramesNotShared
  BY OnePlaceEach DEF FramesNotShared, MemoryInv
<1> QED
  BY <1>1, MemoryInvariant, PTL

\* A frame that has an owner is in a place.
LEMMA SomePlace ==
  ASSUME NEW f \in Frame,
         f \in Elems(pfn_list) \/ \E p \in Holders : f \in Held(p)
  PROVE  Places(f) # {}
<1>1. CASE f \in Elems(pfn_list)
  <2>1. PICK j \in DOMAIN pfn_list : pfn_list[j] = f
    BY <1>1 DEF Elems
  <2>2. <<"free", j>> \in ListPlaces(f)
    BY <2>1 DEF ListPlaces
  <2> QED
    BY <2>2, PlacesParts
<1>2. ASSUME NEW p \in Holders, f \in Elems(kernel_stack[p])
      PROVE  Places(f) # {}
  <2>1. PICK j \in DOMAIN kernel_stack[p] : kernel_stack[p][j] = f
    BY <1>2 DEF Elems
  <2>2. <<"stack", p, j>> \in StackPlaces(p, f)
    BY <2>1 DEF StackPlaces
  <2> QED
    BY <2>2, PlacesParts
<1>3. ASSUME NEW p \in Holders, f \in TableFrames(page_table[p])
      PROVE  Places(f) # {}
  <2>1. PICK j \in Page : page_table[p][j] = f
    BY <1>3 DEF TableFrames
  <2>2. <<"page", p, j>> \in PagePlaces(p, f)
    BY <2>1 DEF PagePlaces
  <2> QED
    BY <2>2, PlacesParts
<1> QED
  BY <1>1, <1>2, <1>3 DEF Held, Parts

\* No frame is lost while programs end by Exit and neither Fork nor Exec runs
\* out of frames, however often Brk and the growth of the stack do.
THEOREM FramesConservedCorrect == Spec => []FramesConserved
<1>1. MemoryInv => FramesConserved
  <2> SUFFICES ASSUME MemoryInv, mishaps \subseteq {"brk", "stack"}
               PROVE  /\ \A f \in Frame : Places(f) # {}
                      /\ \A p \in Holders : state[p] = "live"
    BY DEF FramesConserved
  <2>1. /\ \A f \in Frame : f \in Elems(pfn_list) \/ \E p \in Holders : f \in Held(p)
        /\ \A p \in Holders : state[p] = "live"
    BY DEF MemoryInv, Owned
  <2> QED
    BY <2>1, SomePlace
<1> QED
  BY <1>1, MemoryInvariant, PTL

\* The heap and the initial stack of a live process have no hole, and a page
\* is left between them, whatever Brk, the growth of the stack and Exec do.
THEOREM HeapMappedCorrect == Spec => []HeapMapped
<1>1. MemoryInv => HeapMapped
  BY DEF MemoryInv, Segments, Segment, HeapMapped
<1> QED
  BY <1>1, MemoryInvariant, PTL

-----------------------------------------------------------------------------
(* The translation lookaside buffer.                                       *)

\* The running process is one, or idle.
ActiveOK == active \in Proc \cup {0}

LEMMA ActiveInvariant == TSpec => []ActiveOK
<1>1. TInit => ActiveOK
  BY DEF TInit, ActiveOK
<1>2. ActiveOK /\ [TNext]_tvars => ActiveOK'
  <2> SUFFICES ASSUME ActiveOK, [TNext]_tvars
               PROVE  ActiveOK'
    OBVIOUS
  <2>1. Live \subseteq Proc
    BY DEF Live
  <2>2. ASSUME NEW q, q \in (Live \cup {0}) \ {active}, Switched(q)
        PROVE  ActiveOK'
    BY <2>1, <2>2 DEF Switched, ActiveOK
  <2>3. ASSUME active' = active
        PROVE  ActiveOK'
    BY <2>3 DEF ActiveOK
  <2>4. CASE TNext
    <3>1. \/ active' = active
          \/ \E q : q \in (Live \cup {0}) \ {active} /\ Switched(q)
      BY <2>4 DEF TNext, Touch, Switch, End, Fork, Exec, Resize
    <3> QED
      BY <2>2, <2>3, <3>1
  <2>5. CASE UNCHANGED tvars
    BY <2>3, <2>5 DEF tvars
  <2> QED
    BY <2>4, <2>5
<1> QED
  BY <1>1, <1>2, PTL DEF TSpec

\* With the buffer, the address spaces behave as module Memory says: what the
\* buffer adds to a handler changes nothing else.
LEMMA TlbImplementsMemory == TSpec => Spec
<1>1. TInit => Init
  BY DEF TInit
<1>2. ActiveOK /\ [TNext]_tvars => [Next]_vars
  <2> SUFFICES ASSUME ActiveOK, [TNext]_tvars
               PROVE  [Next]_vars
    OBVIOUS
  <2>1. active # 0 => active \in Proc
    BY DEF ActiveOK
  <2>2. CASE \E i \in Page : Touch(i)
    BY <2>2 DEF Touch
  <2>3. CASE \E q \in Proc \cup {0} : Switch(q)
    BY <2>3 DEF Switch
  <2>4. CASE \E q \in Proc \cup {0} : End(q)
    BY <2>1, <2>4 DEF End, Next, Lifecycle, Reshape
  <2>5. CASE Fork
    BY <2>1, <2>5 DEF Fork, Next, Lifecycle
  <2>6. CASE Exec
    BY <2>1, <2>6 DEF Exec, Next, Reshape
  <2>7. CASE Resize
    BY <2>1, <2>7 DEF Resize, Next, Reshape
  <2>8. CASE UNCHANGED tvars
    BY <2>8 DEF tvars
  <2> QED
    BY <2>2, <2>3, <2>4, <2>5, <2>6, <2>7, <2>8 DEF TNext
<1> QED
  BY <1>1, <1>2, ActiveInvariant, PTL DEF TSpec, Spec

\* Brk and the growth of the stack give a valid page no other frame.
LEMMA ResizeKeeps ==
  ASSUME MemoryInv, NEW p \in Proc, NEW target \in Page,
         BrkGrow(p, target) \/ BrkShrink(p, target) \/ GrowStack(p, target)
  PROVE  \A i \in Valid(p) : page_table'[p][i] \in {INVALID_FRAME, page_table[p][i]}
<1>0. TypeOK /\ target \in Nat /\ target <= NumPages /\ target >= 1
  BY Sizes DEF MemoryInv, Page
<1>1. state[p] = "live"
  BY DEF BrkGrow, BrkShrink, GrowStack, Runs
<1>2. Segment(p) /\ heap_index[p] \in Nat /\ data_index[p] \in Nat /\ stack_index[p] \in Nat
  BY <1>0, <1>1 DEF MemoryInv, Segments, TypeOK
<1>3. ASSUME NEW S \in SUBSET Page, S \cap Valid(p) = {},
             page_table' = [page_table EXCEPT ![p] = Mapped(page_table[p], S, pfn_list)]
      PROVE  \A i \in Valid(p) : page_table'[p][i] = page_table[p][i]
  <2> DEFINE m == Mapped(page_table[p], S, pfn_list)
  <2>1. \A i \in Page \ S : m[i] = page_table[p][i]
    BY <1>0, GrowTypes
  <2>2. page_table'[p] = m
    BY <1>0, <1>3 DEF TypeOK
  <2>3. \A i \in Valid(p) : i \in Page \ S
    BY <1>3 DEF Valid
  <2> HIDE DEF m
  <2> QED
    BY <2>1, <2>2, <2>3
<1>4. CASE BrkGrow(p, target)
  <2> DEFINE S == heap_index[p] .. target - 1
  <2>1. S \in SUBSET Page
    BY <1>0, <1>2, Sizes DEF Segment, Page
  <2>2. /\ S \cap Valid(p) = {}
        /\ page_table' = [page_table EXCEPT ![p] = Mapped(page_table[p], S, pfn_list)]
    BY <1>4 DEF BrkGrow
  <2> HIDE DEF S
  <2> QED
    BY <1>3, <2>1, <2>2
<1>5. CASE GrowStack(p, target)
  <2> DEFINE S == {i \in target .. stack_index[p] - 1 : i \notin Valid(p)}
  <2>1. S \in SUBSET Page /\ S \cap Valid(p) = {}
    BY <1>0, <1>2, Sizes DEF Segment, Page
  <2>2. page_table' = [page_table EXCEPT ![p] = Mapped(page_table[p], S, pfn_list)]
    BY <1>5 DEF GrowStack
  <2> HIDE DEF S
  <2> QED
    BY <1>3, <2>1, <2>2
<1>6. CASE BrkShrink(p, target)
  <2> DEFINE S == target .. heap_index[p] - 1
             u == [i \in Page |-> IF i \in S THEN INVALID_FRAME ELSE page_table[p][i]]
  <2>1. page_table' = [page_table EXCEPT ![p] = u]
    BY <1>6 DEF BrkShrink
  <2>2. page_table'[p] = u
    BY <1>0, <2>1 DEF TypeOK
  <2> HIDE DEF S
  <2> QED
    BY <2>2 DEF Valid
<1> QED
  BY <1>4, <1>5, <1>6

\* Fork changes the page table of the child only.
LEMMA ForkKeeps ==
  ASSUME MemoryInv, NEW p \in Proc, NEW c \in Proc,
         \/ KernelFork(p, c) \/ KernelForkCopyError(p, c)
         \/ KernelForkNoPage(p, c) \/ KernelForkNull(p, c)
  PROVE  page_table'[p] = page_table[p]
<1>1. state[p] = "live" /\ state[c] = "none"
  BY DEF KernelFork, KernelForkCopyError, KernelForkNoPage, KernelForkNull, Runs, Unmade
<1>2. p # c
  BY <1>1
<1>3. \/ page_table' = page_table
      \/ page_table' = [page_table EXCEPT ![c] = Mapped(EmptyTable, Valid(p), AfterStack)]
  BY DEF KernelFork, KernelForkCopyError, KernelForkNoPage, KernelForkNull
<1> QED
  BY <1>2, <1>3 DEF MemoryInv, TypeOK

\* The buffer and the page table agree, but for what Brk took away.
TlbInv == tlb \in [Page -> Entries] /\ StaleOnlyGiven

\* The running program reaches another frame than its page table says only
\* for pages that Brk took away, and only until the next switch or Exec: the
\* growth of the heap and of the stack, which flush nothing, never make an
\* entry stale.
THEOREM StaleOnlyGivenCorrect == TSpec => []StaleOnlyGiven
<1>1. TInit => TlbInv
  BY EmptyTableFacts DEF TInit, TlbInv, NoEntry, EmptyTable, StaleOnlyGiven
<1>2. MemoryInv /\ ActiveOK /\ TlbInv /\ [TNext]_tvars => TlbInv'
  <2> SUFFICES ASSUME MemoryInv, ActiveOK, TlbInv, [TNext]_tvars
               PROVE  TlbInv'
    OBVIOUS
  <2>0. /\ tlb \in [Page -> Entries] /\ active \in Proc \cup {0}
        /\ page_table \in [Proc -> [Page -> Entries]]
        /\ active # 0 => Stale \subseteq given
    BY DEF TlbInv, ActiveOK, MemoryInv, TypeOK, StaleOnlyGiven
  <2>1. ASSUME tlb' = NoEntry
        PROVE  TlbInv'
    <3>1. NoEntry \in [Page -> Entries] /\ \A i \in Page : NoEntry[i] = INVALID_FRAME
      BY DEF NoEntry, Entries
    <3>2. Stale' = {}
      BY <2>1, <3>1 DEF Stale
    <3> QED
      BY <2>1, <3>1, <3>2 DEF TlbInv, StaleOnlyGiven
  <2>2. ASSUME NEW i \in Page, Touch(i)
        PROVE  TlbInv'
    <3>1. /\ active \in Proc /\ tlb' = [tlb EXCEPT ![i] = page_table[active][i]]
          /\ page_table' = page_table /\ active' = active /\ given' = given
      BY <2>0, <2>2 DEF Touch, vars
    <3>2. page_table[active] \in [Page -> Entries]
      BY <2>0, <3>1
    <3>3. tlb' \in [Page -> Entries] /\ tlb'[i] = page_table[active][i]
      BY <2>0, <3>1, <3>2
    <3>4. \A j \in Page \ {i} : tlb'[j] = tlb[j]
      BY <2>0, <3>1
    <3>5. Stale' \subseteq Stale
      BY <3>1, <3>3, <3>4 DEF Stale
    <3> QED
      BY <2>0, <3>1, <3>3, <3>5 DEF TlbInv, StaleOnlyGiven
  <2>3. ASSUME active' = active, tlb' = tlb, given' = given,
               active # 0 => page_table'[active] = page_table[active]
        PROVE  TlbInv'
    <3>1. active # 0 => Stale' = Stale
      BY <2>3 DEF Stale
    <3> QED
      BY <2>0, <2>3, <3>1 DEF TlbInv, StaleOnlyGiven
  <2>4. CASE Fork
    <3>1. /\ active \in Proc /\ active' = active /\ tlb' = tlb /\ given' = given
      BY <2>0, <2>4 DEF Fork
    <3>2. page_table'[active] = page_table[active]
      BY <2>4, <3>1, ForkKeeps DEF Fork
    <3> QED
      BY <2>3, <3>1, <3>2
  <2>5. CASE Resize
    <3>1. /\ active \in Proc /\ active # 0 /\ active' = active /\ tlb' = tlb
          /\ given' = given \cup {i \in Valid(active) : page_table'[active][i] = INVALID_FRAME}
      BY <2>0, <2>5 DEF Resize
    <3>2. \A i \in Valid(active) : page_table'[active][i] \in {INVALID_FRAME, page_table[active][i]}
      BY <2>5, <3>1, ResizeKeeps DEF Resize
    <3>3. ASSUME NEW i \in Page, tlb[i] \notin {INVALID_FRAME, page_table'[active][i]}
          PROVE  i \in given'
      <4>1. CASE i \in Stale
        BY <2>0, <3>1, <4>1
      <4>2. CASE i \notin Stale
        <5>1. tlb[i] = page_table[active][i] /\ tlb[i] # INVALID_FRAME
          BY <3>3, <4>2 DEF Stale
        <5>2. i \in Valid(active)
          BY <5>1 DEF Valid
        <5> QED
          BY <3>1, <3>2, <3>3, <5>1, <5>2
      <4> QED
        BY <4>1, <4>2
    <3>4. Stale' = {i \in Page : tlb[i] \notin {INVALID_FRAME, page_table'[active][i]}}
      BY <3>1 DEF Stale
    <3> QED
      BY <2>0, <3>1, <3>3, <3>4 DEF TlbInv, StaleOnlyGiven
  <2>6. CASE Exec
    BY <2>1, <2>6 DEF Exec
  <2>7. CASE \E q \in Proc \cup {0} : Switch(q) \/ End(q)
    BY <2>1, <2>7 DEF Switch, End, Switched
  <2>8. CASE UNCHANGED tvars
    BY <2>3, <2>8 DEF tvars, vars
  <2> QED
    BY <2>2, <2>4, <2>5, <2>6, <2>7, <2>8 DEF TNext
<1>3. TlbInv => StaleOnlyGiven
  BY DEF TlbInv
<1> QED
  BY <1>1, <1>2, <1>3, ActiveInvariant, TlbImplementsMemory, MemoryInvariant, PTL DEF TSpec

-----------------------------------------------------------------------------
(* The program loader.                                                     *)

\* What is assumed of the constants.
LEMMA LoaderConstants ==
  /\ PAGESIZE \in Nat \ {0} /\ MAX_PT_LEN \in Nat /\ LIMIT \in Nat
  /\ POST_ARGV_NULL_SPACE \in Nat /\ INITIAL_STACK_FRAME_SIZE \in Nat
  /\ ArgLists \subseteq Seq(Seq(Chars))
  /\ \A f \in Files : f.t_npg + f.id_npg + f.ud_npg \in Nat
<1>1. PAGESIZE \in Nat \ {0}
  BY LoaderAssumption
<1>2. LIMIT \in Nat
  BY <1>1, LoaderAssumption DEF LIMIT
<1> QED
  BY <1>1, <1>2, LoaderAssumption

\* Rounding down to a multiple.
LEMMA DownMultiple ==
  ASSUME NEW x \in Int, NEW m \in Nat \ {0}
  PROVE  /\ x \div m \in Int /\ Down(x, m) = (x \div m) * m
         /\ Down(x, m) <= x /\ Down(x, m) \in Int
  BY DEF Down

\* The sum of sizes has a run.
LEMMA SumRuns ==
  ASSUME NEW a \in Seq(Seq(Chars))
  PROVE  /\ SizeUpTo(a, 0) = 0
         /\ \A i \in 0 .. Len(a) : SizeUpTo(a, i) \in Nat
         /\ \A i \in 1 .. Len(a) : SizeUpTo(a, i) = SizeUpTo(a, i - 1) + Bytes(a[i])
<1> DEFINE n == Len(a)
           g == [i \in 1 .. n |-> [s \in Nat |-> s + Bytes(a[i])]]
           Run(f) == f = [i \in 0 .. n |-> IF i = 0 THEN 0 ELSE f[i - 1] + Bytes(a[i])]
<1>1. n \in Nat /\ \A i \in 1 .. n : a[i] \in Seq(Chars)
  OBVIOUS
<1>2. \A i \in 1 .. n : Bytes(a[i]) \in Nat
  BY <1>1 DEF Bytes
<1>3. g \in [1 .. n -> [Nat -> Nat]]
  BY <1>2
<1>4. \A i \in 1 .. n : \A s \in Nat : g[i][s] = s + Bytes(a[i])
  OBVIOUS
<1> HIDE DEF g, n
<1>5. \E f \in [0 .. n -> Nat] : f = [i \in 0 .. n |-> IF i = 0 THEN 0 ELSE g[i][f[i - 1]]]
  <2> DEFINE Loop(T, k, t, e) == \E f \in [0 .. k -> T] :
               f = [i \in 0 .. k |-> IF i = 0 THEN t ELSE e[i][f[i - 1]]]
  <2>1. \A T : \A k \in Nat : \A t \in T : \A e \in [1 .. k -> [T -> T]] : Loop(T, k, t, e)
    BY LoopExists
  <2> HIDE DEF Loop
  <2>2. Loop(Nat, n, 0, g)
    BY <1>1, <1>3, <2>1
  <2> QED
    BY <2>2 DEF Loop
<1>6. PICK f \in [0 .. n -> Nat] : f = [i \in 0 .. n |-> IF i = 0 THEN 0 ELSE g[i][f[i - 1]]]
  BY <1>5
<1>7. \A i \in 0 .. n : i # 0 => i \in 1 .. n /\ i - 1 \in 0 .. n
  BY <1>1
<1>8. Run(f)
  <2>1. \A i \in 0 .. n : f[i] = IF i = 0 THEN 0 ELSE f[i - 1] + Bytes(a[i])
    BY <1>4, <1>6, <1>7
  <2> QED
    BY <2>1
<1> DEFINE h == CHOOSE r : Run(r)
<1>9. Run(h)
  <2> HIDE DEF Run
  <2> QED
    BY <1>8
<1>10. \A i : SizeUpTo(a, i) = h[i]
  BY Zenon DEF SizeUpTo, n
<1> HIDE DEF h
<1>11. h[0] = 0 /\ \A i \in 1 .. n : h[i] = h[i - 1] + Bytes(a[i])
  <2>1. \A i \in 0 .. n : h[i] = IF i = 0 THEN 0 ELSE h[i - 1] + Bytes(a[i])
    BY <1>9
  <2>2. 0 \in 0 .. n /\ \A i \in 1 .. n : i \in 0 .. n /\ i # 0
    BY <1>1
  <2> QED
    BY <2>1, <2>2
<1>12. \A i \in 0 .. n : h[i] \in Nat
  <2> DEFINE I == {i \in 0 .. n : h[i] \in Nat}
  <2>1. 0 \in I /\ I \in SUBSET (0 .. n)
    BY <1>1, <1>11
  <2>2. \A i \in 1 .. n : i - 1 \in I => i \in I
    BY <1>1, <1>2, <1>11
  <2> HIDE DEF I
  <2>3. I = 0 .. n
    BY <1>1, <2>1, <2>2, UpTo
  <2> QED
    BY <2>3 DEF I
<1> QED
  BY <1>10, <1>11, <1>12 DEF n

\* The sums grow with the number of strings.
LEMMA SumGrows ==
  ASSUME NEW a \in Seq(Seq(Chars)), NEW n \in 0 .. Len(a), NEW i \in 0 .. n
  PROVE  SizeUpTo(a, i) <= SizeUpTo(a, n)
<1> DEFINE S(j) == SizeUpTo(a, j)
           I == {k \in 0 .. n : S(n - k) <= S(n)}
<1>0. Len(a) \in Nat
  OBVIOUS
<1>1. n \in Nat /\ \A j \in 1 .. n : j \in 1 .. Len(a) /\ Bytes(a[j]) \in Nat
  BY <1>0 DEF Bytes
<1>2. /\ \A j \in 0 .. n : S(j) \in Nat
      /\ \A j \in 1 .. n : S(j) = S(j - 1) + Bytes(a[j])
  <2>1. \A j \in 0 .. n : j \in 0 .. Len(a)
    BY <1>0
  <2> QED
    BY <1>1, <2>1, SumRuns
<1> HIDE DEF S
<1>3. I \in SUBSET (0 .. n) /\ 0 \in I
  <2>1. n - 0 = n /\ S(n) \in Nat /\ 0 \in 0 .. n
    BY <1>1, <1>2
  <2> QED
    BY <2>1
<1>4. \A k \in 1 .. n : k - 1 \in I => k \in I
  <2> TAKE k \in 1 .. n
  <2> HAVE k - 1 \in I
  <2> DEFINE j == n - (k - 1)
  <2>1. /\ j \in 1 .. n /\ j - 1 = n - k /\ j \in 0 .. n /\ j - 1 \in 0 .. n
        /\ k \in 0 .. n /\ n \in 0 .. n
    BY <1>1
  <2>2. S(j) <= S(n)
    OBVIOUS
  <2> HIDE DEF j
  <2>3. S(j - 1) <= S(n)
    <3>1. S(j) = S(j - 1) + Bytes(a[j]) /\ Bytes(a[j]) \in Nat
      BY <1>1, <1>2, <2>1
    <3>2. S(j) \in Nat /\ S(j - 1) \in Nat /\ S(n) \in Nat
      BY <1>2, <2>1
    <3> QED
      BY <2>2, <3>1, <3>2
  <2> QED
    BY <2>1, <2>3
<1> HIDE DEF I
<1>5. I = 0 .. n
  BY <1>1, <1>3, <1>4, UpTo
<1>6. n - i \in 0 .. n /\ n - (n - i) = i
  BY <1>1
<1> QED
  BY <1>5, <1>6 DEF I, S

-----------------------------------------------------------------------------
(* Where the argument block is.                                            *)

\* The lowest address of the new stack's pages.
StackLow == (MAX_PT_LEN - stack_npg) * PAGESIZE

\* The pointers are below the strings, the strings end where region 1 ends,
\* and the whole block is in the pages of the stack, which are above the data.
LEMMA Addresses ==
  ASSUME li \in Files, args \in ArgLists, StackFits
  PROVE  /\ argcount \in Nat /\ size \in Nat /\ cp \in Int /\ cpp \in Int /\ cp2 \in Int
         /\ StackLow \in Int /\ data_end \in Nat
         /\ cp + size = LIMIT
         /\ cpp + (argcount + 3) * WordSize <= cp
         /\ cp2 + INITIAL_STACK_FRAME_SIZE = cpp
         /\ (data_end + 1) * PAGESIZE <= StackLow /\ StackLow <= cp2 /\ StackLow <= cpp
         /\ cp2 \in data_end * PAGESIZE .. LIMIT - 1
<1>1. /\ PAGESIZE \in Nat \ {0} /\ MAX_PT_LEN \in Nat /\ LIMIT \in Nat
      /\ POST_ARGV_NULL_SPACE \in Nat /\ INITIAL_STACK_FRAME_SIZE \in Nat
      /\ args \in Seq(Seq(Chars)) /\ data_end \in Nat
  BY LoaderConstants DEF data_end
<1>2. argcount \in Nat /\ argcount \in 0 .. Len(args)
  BY <1>1 DEF argcount
<1>3. size \in Nat
  BY <1>1, <1>2, SumRuns DEF size
<1>4. cp \in Int /\ cp + size = LIMIT /\ cp <= LIMIT
  BY <1>1, <1>3 DEF cp
<1> DEFINE top == cp - (argcount + 3 + POST_ARGV_NULL_SPACE) * WordSize
<1>5. top \in Int /\ top + (argcount + 3) * WordSize <= cp
  BY <1>1, <1>2, <1>4 DEF WordSize
<1>6. cpp \in Int /\ cpp <= top
  <2>1. cpp = Down(top, 8)
    BY DEF cpp
  <2>2. 8 \in Nat \ {0}
    OBVIOUS
  <2> HIDE DEF top
  <2> QED
    BY <1>5, <2>1, <2>2, DownMultiple
<1> HIDE DEF top
<1>7. cpp + (argcount + 3) * WordSize <= cp
  BY <1>2, <1>4, <1>5, <1>6 DEF WordSize
<1>8. cp2 \in Int /\ cp2 + INITIAL_STACK_FRAME_SIZE = cpp /\ cp2 <= cpp
  BY <1>1, <1>6 DEF cp2
<1> DEFINE q == cp2 \div PAGESIZE
<1>9. q \in Int /\ Down(cp2, PAGESIZE) = q * PAGESIZE /\ Down(cp2, PAGESIZE) <= cp2
  BY <1>1, <1>8, DownMultiple
<1> HIDE DEF q
<1>10. stack_npg = MAX_PT_LEN - q
  <2>1. stack_npg = (PAGESIZE * MAX_PT_LEN - q * PAGESIZE) \div PAGESIZE
    BY <1>9 DEF stack_npg, LIMIT
  <2>2. PAGESIZE * MAX_PT_LEN - q * PAGESIZE = (MAX_PT_LEN - q) * PAGESIZE
    BY <1>1, <1>9
  <2>3. \A z \in Int : (z * PAGESIZE) \div PAGESIZE = z
    BY <1>1
  <2> QED
    <3>1. MAX_PT_LEN - q \in Int
      BY <1>1, <1>9
    <3>2. ((MAX_PT_LEN - q) * PAGESIZE) \div PAGESIZE = MAX_PT_LEN - q
      BY <2>3, <3>1
    <3> QED
      BY <2>1, <2>2, <3>2
<1>11. StackLow = q * PAGESIZE /\ StackLow \in Int /\ StackLow <= cp2
  BY <1>1, <1>9, <1>10 DEF StackLow
<1>12. data_end + 1 <= q
  BY <1>1, <1>9, <1>10 DEF StackFits
<1>13. (data_end + 1) * PAGESIZE <= StackLow /\ data_end * PAGESIZE <= StackLow
       /\ data_end * PAGESIZE \in Int
  BY <1>1, <1>9, <1>11, <1>12
<1>14. cp2 < LIMIT
  BY <1>1, <1>2, <1>4, <1>7, <1>8 DEF WordSize
<1> QED
  BY <1>1, <1>2, <1>3, <1>4, <1>6, <1>7, <1>8, <1>11, <1>13, <1>14

\* Where the string of an argument begins and ends.
LEMMA StringPlaces ==
  ASSUME li \in Files, args \in ArgLists, StackFits, NEW i \in 1 .. argcount
  PROVE  /\ args[i] \in Seq(Chars) /\ Len(args[i]) \in Nat
         /\ StringAddr(i) \in Int /\ cp <= StringAddr(i)
         /\ StringAddr(i) + Len(args[i]) < LIMIT
         /\ \A j \in 1 .. argcount : j < i =>
              StringAddr(j) + Len(args[j]) < StringAddr(i)
<1>1. args \in Seq(Seq(Chars))
  BY LoaderConstants
<1>2. /\ argcount = Len(args) /\ argcount \in Nat
      /\ \A j \in 1 .. argcount : args[j] \in Seq(Chars) /\ Len(args[j]) \in Nat
  BY <1>1 DEF argcount
<1>3. cp \in Int /\ cp + size = LIMIT /\ size \in Nat /\ LIMIT \in Nat
  BY Addresses, LoaderConstants
<1>4. \A j \in 0 .. argcount : SizeUpTo(args, j) \in Nat /\ SizeUpTo(args, j) <= size
  BY <1>1, <1>2, SumRuns, SumGrows DEF size
<1>5. \A j \in 1 .. argcount :
        /\ j \in 0 .. argcount /\ j - 1 \in 0 .. argcount
        /\ SizeUpTo(args, j) = SizeUpTo(args, j - 1) + (Len(args[j]) + 1)
  <2> TAKE j \in 1 .. argcount
  <2>1. SizeUpTo(args, j) = SizeUpTo(args, j - 1) + Bytes(args[j])
    BY <1>1, <1>2, SumRuns
  <2> QED
    BY <1>2, <2>1 DEF Bytes
<1>6. \A j \in 1 .. argcount :
        /\ StringAddr(j) \in Int /\ cp <= StringAddr(j)
        /\ StringAddr(j) + Len(args[j]) + 1 = cp + SizeUpTo(args, j)
  <2> TAKE j \in 1 .. argcount
  <2> DEFINE a == SizeUpTo(args, j)
             b == SizeUpTo(args, j - 1)
             l == Len(args[j])
  <2>1. a \in Nat /\ b \in Nat /\ l \in Nat /\ a = b + (l + 1)
    BY <1>2, <1>4, <1>5
  <2>2. StringAddr(j) = cp + b
    BY DEF StringAddr
  <2> HIDE DEF a, b, l
  <2>3. StringAddr(j) \in Int /\ cp <= StringAddr(j) /\ StringAddr(j) + l + 1 = cp + a
    BY <1>3, <2>1, <2>2
  <2> QED
    BY <2>3 DEF a, l
<1>7. StringAddr(i) + Len(args[i]) < LIMIT
  BY <1>2, <1>3, <1>4, <1>5, <1>6
<1>8. ASSUME NEW j \in 1 .. argcount, j < i
      PROVE  StringAddr(j) + Len(args[j]) < StringAddr(i)
  <2>1. j \in 0 .. i - 1 /\ i - 1 \in 0 .. Len(args)
    BY <1>2, <1>8
  <2>2. SizeUpTo(args, j) <= SizeUpTo(args, i - 1)
    BY <1>1, <2>1, SumGrows
  <2>3. StringAddr(i) = cp + SizeUpTo(args, i - 1)
    BY DEF StringAddr
  <2>4. /\ SizeUpTo(args, j) \in Nat /\ SizeUpTo(args, i - 1) \in Nat
        /\ Len(args[j]) \in Nat /\ StringAddr(j) \in Int
        /\ StringAddr(j) + Len(args[j]) + 1 = cp + SizeUpTo(args, j)
    BY <1>2, <1>4, <1>5, <1>6
  <2> QED
    BY <1>3, <2>2, <2>3, <2>4
<1> QED
  BY <1>2, <1>6, <1>7, <1>8

-----------------------------------------------------------------------------
(* Writing the block.                                                      *)

\* What a byte of the stack can hold.
Byte == Chars \cup {NUL, <<"junk">>} \cup {Word(w, k) : w \in Int, k \in Int}

\* What is stored is held, and what is elsewhere stays.
LEMMA StoreHolds ==
  ASSUME NEW D, NEW m \in [D -> Byte], NEW E \in SUBSET D, NEW new \in [E -> Byte]
  PROVE  /\ Store(m, new) \in [D -> Byte]
         /\ Holds(Store(m, new), new)
         /\ \A F : \A old \in [F -> Byte] :
              Holds(m, old) /\ F \cap E = {} => Holds(Store(m, new), old)
<1>1. DOMAIN m = D /\ DOMAIN new = E
  OBVIOUS
<1>2. /\ Store(m, new) \in [D -> Byte]
      /\ \A x \in D : Store(m, new)[x] = IF x \in E THEN new[x] ELSE m[x]
  BY <1>1 DEF Store
<1> HIDE DEF Store
<1>3. Holds(Store(m, new), new)
  BY <1>1, <1>2 DEF Holds
<1>4. ASSUME NEW F, NEW old \in [F -> Byte], Holds(m, old), F \cap E = {}
      PROVE  Holds(Store(m, new), old)
  <2> SUFFICES ASSUME NEW x \in F
               PROVE  x \in D /\ Store(m, new)[x] = old[x]
    BY <1>2 DEF Holds
  <2>1. x \in D /\ m[x] = old[x] /\ x \notin E
    BY <1>1, <1>4 DEF Holds
  <2> QED
    BY <1>2, <2>1
<1> QED
  BY <1>2, <1>3, <1>4

\* A word is four bytes.
LEMMA WordType ==
  ASSUME NEW a \in Int, NEW w \in Int
  PROVE  WordAt(a, w) \in [a .. a + WordSize - 1 -> Byte]
<1>1. \A x \in a .. a + WordSize - 1 : Word(w, x - a) \in Byte
  <2> TAKE x \in a .. a + WordSize - 1
  <2>1. x - a \in Int
    BY DEF WordSize
  <2> QED
    BY <2>1 DEF Byte
<1> QED
  BY <1>1 DEF WordAt

\* So is a string with its NUL.
LEMMA StringType ==
  ASSUME NEW a \in Int, NEW s \in Seq(Chars)
  PROVE  StringAt(a, s) \in [a .. a + Len(s) -> Byte]
<1>1. Len(s) \in Nat /\ \A k \in 1 .. Len(s) : s[k] \in Chars
  OBVIOUS
<1>2. \A x \in a .. a + Len(s) :
        (IF x < a + Len(s) THEN s[x - a + 1] ELSE NUL) \in Byte
  <2> TAKE x \in a .. a + Len(s)
  <2>1. x < a + Len(s) => x - a + 1 \in 1 .. Len(s)
    BY <1>1
  <2> QED
    BY <1>1, <2>1 DEF Byte
<1> QED
  BY <1>2 DEF StringAt

\* The state in which the block is written, and the writes.
Writing ==
  /\ li \in Files /\ args \in ArgLists /\ StackFits
  /\ argbuf = {args} /\ mem \in [StackLow .. LIMIT - 1 -> Byte]
ArgCount      == WordAt(cpp, argcount)
ArgPointer(i) == WordAt(cpp + i * WordSize, StringAddr(i))
ArgText(i)    == StringAt(StringAddr(i), args[i])
EndNull(k)    == WordAt(cpp + (argcount + k) * WordSize, NULL)
Zeroed        == [x \in DOMAIN mem |-> IF x >= cpp THEN NUL ELSE mem[x]]

\* The bytes of the words and of the strings.
WordPlace(k) == cpp + k * WordSize .. cpp + k * WordSize + WordSize - 1
TextPlace(k) == StringAddr(k) .. StringAddr(k) + Len(args[k])

\* Where each of them goes: the words one after the other, below the strings,
\* the strings one after the other, all of them in the new stack.
LEMMA BlockPlaces ==
  ASSUME Writing
  PROVE  /\ argcount \in Nat
         /\ ArgCount \in [WordPlace(0) -> Byte]
         /\ \A k \in 1 .. argcount :
              ArgPointer(k) \in [WordPlace(k) -> Byte] /\ ArgText(k) \in [TextPlace(k) -> Byte]
         /\ \A k \in 1 .. 2 : EndNull(k) \in [WordPlace(argcount + k) -> Byte]
         /\ \A k \in 0 .. argcount + 2 : WordPlace(k) \in SUBSET (StackLow .. LIMIT - 1)
         /\ \A k \in 1 .. argcount : TextPlace(k) \in SUBSET (StackLow .. LIMIT - 1)
         /\ \A k, l \in 0 .. argcount + 2 : k < l => WordPlace(k) \cap WordPlace(l) = {}
         /\ \A k, l \in 1 .. argcount : k < l => TextPlace(k) \cap TextPlace(l) = {}
         /\ \A k \in 0 .. argcount + 2 : \A l \in 1 .. argcount :
              WordPlace(k) \cap TextPlace(l) = {}
<1> DEFINE A(k) == cpp + k * WordSize .. cpp + k * WordSize + WordSize - 1
           B(k) == StringAddr(k) .. StringAddr(k) + Len(args[k])
           a(k) == cpp + k * WordSize
<1>1. li \in Files /\ args \in ArgLists /\ StackFits
  BY DEF Writing
<1>2. /\ argcount \in Nat /\ size \in Nat /\ cp \in Int /\ cpp \in Int /\ StackLow \in Int
      /\ cpp + (argcount + 3) * WordSize <= cp /\ cp + size = LIMIT
      /\ StackLow <= cpp /\ LIMIT \in Nat
  BY <1>1, Addresses, LoaderConstants
<1>3. \A i \in 1 .. argcount :
        /\ args[i] \in Seq(Chars) /\ Len(args[i]) \in Nat
        /\ StringAddr(i) \in Int /\ cp <= StringAddr(i)
        /\ StringAddr(i) + Len(args[i]) < LIMIT
        /\ \A j \in 1 .. argcount : j < i =>
             StringAddr(j) + Len(args[j]) < StringAddr(i)
  BY <1>1, StringPlaces
<1>4. \A k \in 0 .. argcount + 2 :
        k \in Nat /\ a(k) \in Int /\ cpp <= a(k) /\ a(k) + WordSize <= cp
  BY <1>2 DEF WordSize
<1>5. \A k \in 0 .. argcount + 2 : A(k) \in SUBSET (StackLow .. LIMIT - 1)
  <2> SUFFICES ASSUME NEW k \in 0 .. argcount + 2, NEW x \in A(k)
               PROVE  x \in StackLow .. LIMIT - 1
    OBVIOUS
  <2>1. x \in a(k) .. a(k) + WordSize - 1
    OBVIOUS
  <2> HIDE DEF a
  <2> QED
    BY <1>2, <1>4, <2>1 DEF WordSize
<1>6. \A k \in 1 .. argcount : B(k) \in SUBSET (StackLow .. LIMIT - 1)
  <2> SUFFICES ASSUME NEW k \in 1 .. argcount, NEW x \in B(k)
               PROVE  x \in StackLow .. LIMIT - 1
    OBVIOUS
  <2>1. cpp <= cp
    BY <1>2 DEF WordSize
  <2>2. StringAddr(k) \in Int /\ Len(args[k]) \in Nat /\ cp <= StringAddr(k)
        /\ StringAddr(k) + Len(args[k]) < LIMIT
    BY <1>3
  <2> QED
    BY <1>2, <2>1, <2>2
<1>7. \A k, l \in 0 .. argcount + 2 : k < l => A(k) \cap A(l) = {}
  <2> SUFFICES ASSUME NEW k \in 0 .. argcount + 2, NEW l \in 0 .. argcount + 2, k < l
               PROVE  \A x \in A(k) : x \notin A(l)
    OBVIOUS
  <2>1. a(k) + WordSize <= a(l)
    BY <1>2 DEF WordSize
  <2>2. a(k) \in Int /\ a(l) \in Int
    BY <1>4
  <2>3. A(k) = a(k) .. a(k) + WordSize - 1 /\ A(l) = a(l) .. a(l) + WordSize - 1
    OBVIOUS
  <2> HIDE DEF a, A
  <2> QED
    BY <2>1, <2>2, <2>3 DEF WordSize
<1>8. \A k, l \in 1 .. argcount : k < l => B(k) \cap B(l) = {}
  <2> SUFFICES ASSUME NEW k \in 1 .. argcount, NEW l \in 1 .. argcount, k < l
               PROVE  \A x \in B(k) : x \notin B(l)
    OBVIOUS
  <2>1. /\ StringAddr(k) \in Int /\ Len(args[k]) \in Nat
        /\ StringAddr(l) \in Int /\ Len(args[l]) \in Nat
        /\ StringAddr(k) + Len(args[k]) < StringAddr(l)
    BY <1>3
  <2> QED
    BY <2>1
<1>9. \A k \in 0 .. argcount + 2 : \A l \in 1 .. argcount : A(k) \cap B(l) = {}
  <2> SUFFICES ASSUME NEW k \in 0 .. argcount + 2, NEW l \in 1 .. argcount
               PROVE  \A x \in A(k) : x \notin B(l)
    OBVIOUS
  <2>1. a(k) \in Int /\ a(k) + WordSize <= cp
    BY <1>4
  <2>2. StringAddr(l) \in Int /\ Len(args[l]) \in Nat /\ cp <= StringAddr(l)
    BY <1>3
  <2>3. A(k) = a(k) .. a(k) + WordSize - 1
    OBVIOUS
  <2> HIDE DEF a, A
  <2> QED
    BY <1>2, <2>1, <2>2, <2>3 DEF WordSize
<1>10. ArgCount \in [A(0) -> Byte]
  <2>1. cpp + 0 * WordSize = cpp
    BY <1>2 DEF WordSize
  <2>2. WordAt(cpp, argcount) \in [cpp .. cpp + WordSize - 1 -> Byte]
    BY <1>2, WordType
  <2> QED
    BY <2>1, <2>2 DEF ArgCount
<1>11. ASSUME NEW k \in 1 .. argcount
       PROVE  ArgPointer(k) \in [A(k) -> Byte] /\ ArgText(k) \in [B(k) -> Byte]
  <2>1. k \in 0 .. argcount + 2
    BY <1>2
  <2>2. a(k) \in Int /\ StringAddr(k) \in Int /\ args[k] \in Seq(Chars)
    BY <1>3, <1>4, <2>1
  <2>3. ArgPointer(k) = WordAt(a(k), StringAddr(k)) /\ A(k) = a(k) .. a(k) + WordSize - 1
    BY DEF ArgPointer
  <2>4. ArgText(k) \in [B(k) -> Byte]
    BY <2>2, StringType DEF ArgText
  <2> HIDE DEF a, A
  <2> QED
    BY <2>2, <2>3, <2>4, WordType
<1>12. ASSUME NEW k \in 1 .. 2
       PROVE  EndNull(k) \in [A(argcount + k) -> Byte]
  <2> DEFINE b == argcount + k
  <2>1. b \in 0 .. argcount + 2
    BY <1>2
  <2>2. a(b) \in Int /\ NULL \in Int
    BY <1>4, <2>1 DEF NULL
  <2>3. EndNull(k) = WordAt(a(b), NULL) /\ A(b) = a(b) .. a(b) + WordSize - 1
    BY DEF EndNull
  <2> HIDE DEF a, A, b
  <2>4. EndNull(k) \in [A(b) -> Byte]
    BY <2>2, <2>3, WordType
  <2> QED
    BY <2>4 DEF b
<1> HIDE DEF A, B
<1>13. /\ argcount \in Nat
       /\ ArgCount \in [A(0) -> Byte]
       /\ \A k \in 1 .. argcount :
            ArgPointer(k) \in [A(k) -> Byte] /\ ArgText(k) \in [B(k) -> Byte]
       /\ \A k \in 1 .. 2 : EndNull(k) \in [A(argcount + k) -> Byte]
       /\ \A k \in 0 .. argcount + 2 : A(k) \in SUBSET (StackLow .. LIMIT - 1)
       /\ \A k \in 1 .. argcount : B(k) \in SUBSET (StackLow .. LIMIT - 1)
       /\ \A k, l \in 0 .. argcount + 2 : k < l => A(k) \cap A(l) = {}
       /\ \A k, l \in 1 .. argcount : k < l => B(k) \cap B(l) = {}
       /\ \A k \in 0 .. argcount + 2 : \A l \in 1 .. argcount : A(k) \cap B(l) = {}
  BY <1>2, <1>5, <1>6, <1>7, <1>8, <1>9, <1>10, <1>11, <1>12
<1> QED
  BY <1>13 DEF A, B, WordPlace, TextPlace

\* The loop over the arguments has a run.
LEMMA CopyRuns ==
  ASSUME Writing
  PROVE  \E f \in [0 .. argcount -> [StackLow .. LIMIT - 1 -> Byte]] :
           /\ f[0] = Store(Zeroed, ArgCount)
           /\ \A i \in 1 .. argcount : f[i] = Store(Store(f[i - 1], ArgPointer(i)), ArgText(i))
           /\ Built = Store(Store(f[argcount], EndNull(1)), EndNull(2))
<1> DEFINE n == argcount
           M == [StackLow .. LIMIT - 1 -> Byte]
           s0 == Store(Zeroed, ArgCount)
           Step(m, i) == Store(Store(m, ArgPointer(i)), ArgText(i))
           g == [i \in 1 .. n |-> [m \in M |-> Step(m, i)]]
           Run(f) == f = [i \in 0 .. n |-> IF i = 0 THEN s0 ELSE Step(f[i - 1], i)]
<1>1. n \in Nat /\ mem \in M /\ argbuf = {args}
  BY BlockPlaces DEF Writing
<1>2. \A i \in 1 .. n : \A m \in M : Step(m, i) \in M
  <2> TAKE i \in 1 .. n
  <2> TAKE m \in M
  <2>1. /\ WordPlace(i) \in SUBSET (StackLow .. LIMIT - 1) /\ TextPlace(i) \in SUBSET (StackLow .. LIMIT - 1)
        /\ ArgPointer(i) \in [WordPlace(i) -> Byte] /\ ArgText(i) \in [TextPlace(i) -> Byte]
    BY <1>1, BlockPlaces
  <2>2. Store(m, ArgPointer(i)) \in M
    BY <2>1, StoreHolds
  <2> QED
    BY <2>1, <2>2, StoreHolds
<1>3. s0 \in M
  <2>1. Zeroed \in M
    BY <1>1 DEF Zeroed, Byte
  <2>2. ArgCount \in [WordPlace(0) -> Byte] /\ WordPlace(0) \in SUBSET (StackLow .. LIMIT - 1)
    BY <1>1, BlockPlaces
  <2> QED
    BY <2>1, <2>2, StoreHolds
<1> HIDE DEF n, M, s0, Step
<1>4. g \in [1 .. n -> [M -> M]] /\ \A i \in 1 .. n : \A m \in M : g[i][m] = Step(m, i)
  BY <1>2
<1> HIDE DEF g
<1>5. \E f \in [0 .. n -> M] : f = [i \in 0 .. n |-> IF i = 0 THEN s0 ELSE g[i][f[i - 1]]]
  <2> DEFINE Loop(T, k, t, e) == \E f \in [0 .. k -> T] :
               f = [i \in 0 .. k |-> IF i = 0 THEN t ELSE e[i][f[i - 1]]]
  <2>1. \A T : \A k \in Nat : \A t \in T : \A e \in [1 .. k -> [T -> T]] : Loop(T, k, t, e)
    BY LoopExists
  <2> HIDE DEF Loop
  <2>2. Loop(M, n, s0, g)
    BY <1>1, <1>3, <1>4, <2>1
  <2> QED
    BY <2>2 DEF Loop
<1>6. PICK f \in [0 .. n -> M] : f = [i \in 0 .. n |-> IF i = 0 THEN s0 ELSE g[i][f[i - 1]]]
  BY <1>5
<1>7. \A i \in 0 .. n : i # 0 => i \in 1 .. n /\ i - 1 \in 0 .. n
  BY <1>1
<1>8. \A i \in 0 .. n : f[i] = IF i = 0 THEN s0 ELSE g[i][f[i - 1]]
  BY <1>6
<1>9. Run(f)
  <2>1. \A i \in 0 .. n : f[i] = IF i = 0 THEN s0 ELSE Step(f[i - 1], i)
    BY <1>4, <1>7, <1>8
  <2> QED
    BY <2>1
<1> DEFINE h == CHOOSE r : Run(r)
<1>10. Run(h)
  <2> HIDE DEF Run
  <2> QED
    BY <1>9
<1>11. Built = Store(Store(h[n], EndNull(1)), EndNull(2))
  <2>1. (CHOOSE a \in argbuf : TRUE) = args
    BY <1>1
  <2>2. /\ WordAt(cpp + (argcount + 1) * WordSize, NULL) = EndNull(1)
        /\ WordAt(cpp + (argcount + 1) * WordSize + WordSize, NULL) = EndNull(2)
    <3>1. cpp \in Int /\ argcount \in Nat
      BY Addresses DEF Writing
    <3>2. cpp + (argcount + 1) * WordSize + WordSize = cpp + (argcount + 2) * WordSize
      BY <3>1 DEF WordSize
    <3> QED
      BY <3>2 DEF EndNull
  <2> DEFINE sv == CHOOSE a \in argbuf : TRUE
             Fin(r) == Store(Store(r[argcount], WordAt(cpp + (argcount + 1) * WordSize, NULL)),
                             WordAt(cpp + (argcount + 1) * WordSize + WordSize, NULL))
             Body(r, s) == r = [i \in 0 .. argcount |->
               IF i = 0 THEN Store([x \in DOMAIN mem |-> IF x >= cpp THEN NUL ELSE mem[x]],
                                   WordAt(cpp, argcount))
               ELSE Store(Store(r[i - 1], WordAt(cpp + i * WordSize, StringAddr(i))),
                          StringAt(StringAddr(i), s[i]))]
  <2>3. Built = Fin(CHOOSE r : Body(r, sv))
    BY Zenon DEF Built
  <2>4. sv = args
    BY <2>1
  <2>5. \A r : Body(r, args) <=> Run(r)
    BY Zenon DEF n, s0, Step, Zeroed, ArgCount, ArgPointer, ArgText
  <2> HIDE DEF Body, Run, sv, Fin, h
  <2>6. (CHOOSE r : Body(r, args)) = h
    BY <2>5, Zenon DEF h
  <2>7. Built = Fin(h)
    BY <2>3, <2>4, <2>6
  <2> QED
    BY <2>2, <2>7 DEF Fin, n
<1> HIDE DEF h
<1>12. /\ h[0] = s0 /\ \A i \in 1 .. n : h[i] = Step(h[i - 1], i)
  <2>1. \A i \in 0 .. n : h[i] = IF i = 0 THEN s0 ELSE Step(h[i - 1], i)
    BY <1>10
  <2>2. 0 \in 0 .. n /\ \A i \in 1 .. n : i \in 0 .. n /\ i # 0
    BY <1>1
  <2> QED
    BY <2>1, <2>2
<1>13. h \in [0 .. n -> M]
  <2> DEFINE I == {i \in 0 .. n : h[i] \in M}
  <2>1. 0 \in I /\ I \in SUBSET (0 .. n)
    BY <1>1, <1>3, <1>12
  <2>2. \A i \in 1 .. n : i - 1 \in I => i \in I
    BY <1>1, <1>2, <1>12
  <2> HIDE DEF I
  <2>3. I = 0 .. n
    BY <1>1, <2>1, <2>2, UpTo
  <2>4. h = [i \in 0 .. n |-> h[i]]
    BY <1>10
  <2> QED
    BY <2>3, <2>4 DEF I
<1> QED
  BY <1>11, <1>12, <1>13 DEF n, M, s0, Step

\* What memory m holds when i arguments have been copied.
ArgsCopied(m, i) ==
  /\ Holds(m, ArgCount)
  /\ \A j \in 1 .. i : Holds(m, ArgPointer(j)) /\ Holds(m, ArgText(j))

\* Copying one more argument overwrites nothing of what is there.
LEMMA CopyStep ==
  ASSUME Writing, NEW m \in [StackLow .. LIMIT - 1 -> Byte], NEW i \in 1 .. argcount,
         ArgsCopied(m, i - 1)
  PROVE  ArgsCopied(Store(Store(m, ArgPointer(i)), ArgText(i)), i)
<1> DEFINE M == [StackLow .. LIMIT - 1 -> Byte]
           m1 == Store(m, ArgPointer(i))
           m2 == Store(m1, ArgText(i))
<1>1. argcount \in Nat
  BY BlockPlaces
<1>2. 0 \in 0 .. argcount + 2 /\ \A j \in 1 .. argcount : j \in 0 .. argcount + 2
  BY <1>1
<1>3. /\ ArgCount \in [WordPlace(0) -> Byte]
      /\ \A j \in 1 .. argcount :
           ArgPointer(j) \in [WordPlace(j) -> Byte] /\ ArgText(j) \in [TextPlace(j) -> Byte]
  BY BlockPlaces
<1>4. /\ WordPlace(i) \in SUBSET (StackLow .. LIMIT - 1) /\ TextPlace(i) \in SUBSET (StackLow .. LIMIT - 1)
      /\ WordPlace(0) \cap WordPlace(i) = {} /\ WordPlace(0) \cap TextPlace(i) = {}
      /\ WordPlace(i) \cap TextPlace(i) = {}
  BY <1>1, <1>2, BlockPlaces
<1>5. \A j \in 1 .. i - 1 :
        /\ j \in 1 .. argcount
        /\ WordPlace(j) \cap WordPlace(i) = {} /\ WordPlace(j) \cap TextPlace(i) = {}
        /\ TextPlace(j) \cap WordPlace(i) = {} /\ TextPlace(j) \cap TextPlace(i) = {}
  <2> TAKE j \in 1 .. i - 1
  <2>1. j \in 1 .. argcount /\ j < i /\ j \in 0 .. argcount + 2 /\ i \in 0 .. argcount + 2
    BY <1>1
  <2>2. WordPlace(j) \cap WordPlace(i) = {} /\ TextPlace(j) \cap TextPlace(i) = {}
    BY <2>1, BlockPlaces
  <2>3. WordPlace(j) \cap TextPlace(i) = {} /\ WordPlace(i) \cap TextPlace(j) = {}
    BY <2>1, BlockPlaces
  <2> QED
    BY <2>1, <2>2, <2>3
<1>6. /\ m1 \in M /\ Holds(m1, ArgPointer(i))
      /\ \A F : \A old \in [F -> Byte] :
           Holds(m, old) /\ F \cap WordPlace(i) = {} => Holds(m1, old)
  BY <1>3, <1>4, StoreHolds, ZenonT(60)
<1> HIDE DEF m1
<1>7. /\ m2 \in M /\ Holds(m2, ArgText(i))
      /\ \A F : \A old \in [F -> Byte] :
           Holds(m1, old) /\ F \cap TextPlace(i) = {} => Holds(m2, old)
  <2>1. /\ m1 \in M /\ TextPlace(i) \in SUBSET (StackLow .. LIMIT - 1)
        /\ ArgText(i) \in [TextPlace(i) -> Byte]
    BY <1>3, <1>4, <1>6
  <2> QED
    BY <2>1, StoreHolds
<1> HIDE DEF m2
<1>8. Holds(m2, ArgCount)
  <2>1. Holds(m1, ArgCount)
    BY <1>3, <1>4, <1>6 DEF ArgsCopied
  <2> QED
    BY <1>3, <1>4, <1>7, <2>1
<1>9. Holds(m2, ArgPointer(i))
  BY <1>3, <1>4, <1>6, <1>7
<1>10. ASSUME NEW j \in 1 .. i - 1
       PROVE  Holds(m2, ArgPointer(j)) /\ Holds(m2, ArgText(j))
  <2>1. /\ ArgPointer(j) \in [WordPlace(j) -> Byte] /\ ArgText(j) \in [TextPlace(j) -> Byte]
        /\ Holds(m, ArgPointer(j)) /\ Holds(m, ArgText(j))
    BY <1>3, <1>5 DEF ArgsCopied
  <2>2. Holds(m1, ArgPointer(j)) /\ Holds(m1, ArgText(j))
    BY <1>5, <1>6, <2>1
  <2> QED
    BY <1>5, <1>7, <2>1, <2>2
<1>11. \A j \in 1 .. i : j = i \/ j \in 1 .. i - 1
  BY <1>1
<1>12. ArgsCopied(m2, i)
  BY <1>7, <1>8, <1>9, <1>10, <1>11 DEF ArgsCopied
<1> QED
  BY <1>12 DEF m1, m2

\* The two NULLs that end argv and the environment overwrite nothing either.
LEMMA CopyEnd ==
  ASSUME Writing, NEW m0 \in [StackLow .. LIMIT - 1 -> Byte], ArgsCopied(m0, argcount)
  PROVE  LET m2 == Store(Store(m0, EndNull(1)), EndNull(2))
         IN  /\ m2 \in [StackLow .. LIMIT - 1 -> Byte] /\ ArgsCopied(m2, argcount)
             /\ Holds(m2, EndNull(1)) /\ Holds(m2, EndNull(2))
<1> DEFINE n == argcount
           M == [StackLow .. LIMIT - 1 -> Byte]
           l1 == EndNull(1)
           l2 == EndNull(2)
           m1 == Store(m0, l1)
           m2 == Store(m1, l2)
           W1 == WordPlace(n + 1)
           W2 == WordPlace(n + 2)
<1>1. n \in Nat
  BY BlockPlaces
<1>2. /\ n + 1 \in 0 .. n + 2 /\ n + 2 \in 0 .. n + 2 /\ n + 1 < n + 2 /\ 0 \in 0 .. n + 2
      /\ 0 < n + 1 /\ 0 < n + 2 /\ 1 \in 1 .. 2 /\ 2 \in 1 .. 2
      /\ \A j \in 1 .. n : j \in 0 .. n + 2 /\ j < n + 1 /\ j < n + 2
  BY <1>1
<1>3. /\ l1 \in [W1 -> Byte] /\ l2 \in [W2 -> Byte]
      /\ W1 \in SUBSET (StackLow .. LIMIT - 1) /\ W2 \in SUBSET (StackLow .. LIMIT - 1)
      /\ W1 \cap W2 = {}
  BY <1>2, BlockPlaces
<1>4. /\ ArgCount \in [WordPlace(0) -> Byte]
      /\ WordPlace(0) \cap W1 = {} /\ WordPlace(0) \cap W2 = {}
  BY <1>2, BlockPlaces
<1>5. \A j \in 1 .. n :
        /\ ArgPointer(j) \in [WordPlace(j) -> Byte] /\ ArgText(j) \in [TextPlace(j) -> Byte]
        /\ WordPlace(j) \cap W1 = {} /\ WordPlace(j) \cap W2 = {}
        /\ W1 \cap TextPlace(j) = {} /\ W2 \cap TextPlace(j) = {}
  <2> TAKE j \in 1 .. n
  <2>1. ArgPointer(j) \in [WordPlace(j) -> Byte] /\ ArgText(j) \in [TextPlace(j) -> Byte]
    BY BlockPlaces
  <2>2. WordPlace(j) \cap W1 = {} /\ WordPlace(j) \cap W2 = {}
    BY <1>2, BlockPlaces
  <2>3. W1 \cap TextPlace(j) = {} /\ W2 \cap TextPlace(j) = {}
    BY <1>2, BlockPlaces
  <2> QED
    BY <2>1, <2>2, <2>3
<1> HIDE DEF W1, W2, n, l1, l2
<1>6. /\ m1 \in M /\ Holds(m1, l1)
       /\ \A F : \A old \in [F -> Byte] :
            Holds(m0, old) /\ F \cap W1 = {} => Holds(m1, old)
  <2>1. m0 \in M /\ W1 \in SUBSET (StackLow .. LIMIT - 1) /\ l1 \in [W1 -> Byte]
    BY <1>3
  <2> QED
    BY <2>1, StoreHolds
<1> HIDE DEF m1
<1>7. /\ m2 \in M /\ Holds(m2, l2)
       /\ \A F : \A old \in [F -> Byte] :
            Holds(m1, old) /\ F \cap W2 = {} => Holds(m2, old)
  <2>1. m1 \in M /\ W2 \in SUBSET (StackLow .. LIMIT - 1) /\ l2 \in [W2 -> Byte]
    BY <1>3, <1>6
  <2> QED
    BY <2>1, StoreHolds, ZenonT(60)
<1> HIDE DEF m2
<1>8. Holds(m2, l1)
  BY <1>3, <1>6, <1>7
<1>9. Holds(m2, ArgCount)
  <2>1. Holds(m1, ArgCount)
    BY <1>4, <1>6 DEF ArgsCopied, n
  <2> QED
    BY <1>4, <1>7, <2>1
<1>10. ASSUME NEW j \in 1 .. n
       PROVE  Holds(m2, ArgPointer(j)) /\ Holds(m2, ArgText(j))
  <2>1. /\ Holds(m0, ArgPointer(j)) /\ Holds(m0, ArgText(j))
        /\ TextPlace(j) \cap W1 = {} /\ TextPlace(j) \cap W2 = {}
    BY <1>5 DEF ArgsCopied, n
  <2>2. Holds(m1, ArgPointer(j)) /\ Holds(m1, ArgText(j))
    BY <1>5, <1>6, <2>1
  <2> QED
    BY <1>5, <1>7, <2>1, <2>2
<1>11. m2 \in M /\ ArgsCopied(m2, argcount) /\ Holds(m2, l1) /\ Holds(m2, l2)
  BY <1>7, <1>8, <1>9, <1>10 DEF ArgsCopied, n
<1> QED
  BY <1>11 DEF m2, m1, l1, l2

\* The finished block is whole.
LEMMA BlockHeld ==
  ASSUME Writing
  PROVE  /\ Built \in [StackLow .. LIMIT - 1 -> Byte]
         /\ ArgsCopied(Built, argcount)
         /\ Holds(Built, EndNull(1)) /\ Holds(Built, EndNull(2))
<1> DEFINE n == argcount
           M == [StackLow .. LIMIT - 1 -> Byte]
           I(f) == {i \in 0 .. n : ArgsCopied(f[i], i)}
<1>1. PICK f \in [0 .. n -> M] :
        /\ f[0] = Store(Zeroed, ArgCount)
        /\ \A i \in 1 .. n : f[i] = Store(Store(f[i - 1], ArgPointer(i)), ArgText(i))
        /\ Built = Store(Store(f[n], EndNull(1)), EndNull(2))
  BY CopyRuns
<1>2. n \in Nat
  BY BlockPlaces
<1>3. 0 \in I(f)
  <2>1. ArgCount \in [WordPlace(0) -> Byte] /\ WordPlace(0) \in SUBSET (StackLow .. LIMIT - 1)
    BY <1>2, BlockPlaces
  <2>2. Zeroed \in M
    BY DEF Zeroed, Byte, Writing
  <2>3. Holds(f[0], ArgCount)
    <3>1. Holds(Store(Zeroed, ArgCount), ArgCount)
      BY <2>1, <2>2, StoreHolds
    <3> QED
      BY <1>1, <3>1
  <2>4. 0 \in 0 .. n /\ 1 .. 0 = {}
    BY <1>2
  <2> QED
    BY <2>3, <2>4 DEF ArgsCopied
<1>4. \A i \in 1 .. n : i - 1 \in I(f) => i \in I(f)
  <2> TAKE i \in 1 .. n
  <2> HAVE i - 1 \in I(f)
  <2>1. i \in 0 .. n /\ i - 1 \in 0 .. n /\ f[i - 1] \in M
    BY <1>2
  <2>2. ArgsCopied(Store(Store(f[i - 1], ArgPointer(i)), ArgText(i)), i)
    BY <2>1, CopyStep
  <2> QED
    BY <1>1, <2>1, <2>2
<1>5. ArgsCopied(f[n], n) /\ f[n] \in M
  <2> DEFINE J == I(f)
  <2>1. J \in SUBSET (0 .. n) /\ 0 \in J /\ \A i \in 1 .. n : i - 1 \in J => i \in J
    BY <1>3, <1>4
  <2>2. n \in 0 .. n
    BY <1>2
  <2> HIDE DEF J
  <2>3. J = 0 .. n
    BY <1>2, <2>1, UpTo
  <2> QED
    BY <2>2, <2>3 DEF J
<1> QED
  BY <1>1, <1>5, CopyEnd

-----------------------------------------------------------------------------
(* The inductive invariant.                                                *)

\* What is known on the way: the program fits and sp is set once that was
\* checked, the arguments are saved before the old pages go, and the stack is
\* fresh until they are written into it.
LoadInv ==
  /\ LTypeOK
  /\ at \in {"save", "map", "read", "protect", "args"} => StackFits /\ sp = cp2
  /\ at \in {"map", "read", "protect", "args"} => argbuf = {args}
  /\ at \in {"read", "protect", "args"} => mem = [x \in StackLow .. LIMIT - 1 |-> <<"junk">>]
  /\ at \in {"open", "check", "save", "map", "read", "protect"} => pc = "zero"
  /\ at = "user" /\ pc = "entry" => MainFinds

\* What depends on the call's arguments and on the executable only.
LEMMA SameCall ==
  ASSUME args' = args, li' = li
  PROVE  /\ data_end' = data_end /\ cp2' = cp2 /\ StackFits' = StackFits /\ StackLow' = StackLow
<1>1. argcount' = argcount
  BY DEF argcount
<1>2. size' = size
  BY <1>1 DEF size
<1>3. cp' = cp
  BY <1>2 DEF cp
<1>4. cpp' = cpp
  BY <1>1, <1>3 DEF cpp
<1>5. cp2' = cp2
  BY <1>4 DEF cp2
<1>6. stack_npg' = stack_npg
  BY <1>5 DEF stack_npg
<1>7. data_end' = data_end
  BY DEF data_end
<1>8. StackFits' = StackFits
  BY <1>6, <1>7 DEF StackFits
<1> QED
  BY <1>5, <1>6, <1>7, <1>8 DEF StackLow

\* LoadProgram writes what main finds.
LEMMA ArgsWritten ==
  ASSUME Writing, sp = cp2, args' = args, li' = li, sp' = sp, mem' = Built
  PROVE  MainFinds'
<1> DEFINE argv == sp + INITIAL_STACK_FRAME_SIZE + WordSize
           D == StackLow .. LIMIT - 1
<1>1. li \in Files /\ args \in ArgLists /\ StackFits
  BY DEF Writing
<1>2. /\ Built \in [D -> Byte] /\ Holds(Built, ArgCount)
      /\ Holds(Built, EndNull(1)) /\ Holds(Built, EndNull(2))
      /\ \A j \in 1 .. argcount : Holds(Built, ArgPointer(j)) /\ Holds(Built, ArgText(j))
  BY BlockHeld DEF ArgsCopied
<1>3. /\ argcount \in Nat /\ cp2 \in Int /\ cpp \in Int /\ INITIAL_STACK_FRAME_SIZE \in Nat
      /\ cp2 + INITIAL_STACK_FRAME_SIZE = cpp /\ (data_end + 1) * PAGESIZE <= StackLow
      /\ StackLow \in Int /\ LIMIT \in Int /\ data_end \in Nat /\ PAGESIZE \in Nat
  BY <1>1, Addresses, LoaderConstants
<1>4. argv = cpp + WordSize /\ argv - WordSize = cpp
  BY <1>3 DEF WordSize
<1> HIDE DEF argv, D
<1>5. Holds(Built, WordAt(argv - WordSize, argcount))
  BY <1>2, <1>4 DEF ArgCount
<1>6. \A i \in 1 .. argcount : \E a \in D :
        /\ Holds(Built, WordAt(argv + (i - 1) * WordSize, a))
        /\ Holds(Built, StringAt(a, args[i]))
  <2> TAKE i \in 1 .. argcount
  <2>1. argv + (i - 1) * WordSize = cpp + i * WordSize
    BY <1>3, <1>4 DEF WordSize
  <2>2. StringAddr(i) \in D
    <3>1. TextPlace(i) \in SUBSET D
      BY BlockPlaces DEF D
    <3>2. StringAddr(i) \in Int /\ Len(args[i]) \in Nat
      BY <1>1, StringPlaces
    <3>3. StringAddr(i) \in TextPlace(i)
      BY <3>2 DEF TextPlace
    <3> QED
      BY <3>1, <3>3
  <2> WITNESS StringAddr(i) \in D
  <2> QED
    BY <1>2, <2>1 DEF ArgPointer, ArgText
<1>7. \A i \in {0, 1} : Holds(Built, WordAt(argv + (argcount + i) * WordSize, NULL))
  <2>1. /\ argv + (argcount + 0) * WordSize = cpp + (argcount + 1) * WordSize
        /\ argv + (argcount + 1) * WordSize = cpp + (argcount + 2) * WordSize
    BY <1>3, <1>4 DEF WordSize
  <2> QED
    BY <1>2, <2>1 DEF EndNull
<1>8. \A x \in D : x >= (data_end + 1) * PAGESIZE
  BY <1>3 DEF D
<1>9. DOMAIN mem' = D /\ data_end' = data_end /\ argcount = Len(args)
  BY <1>2, SameCall DEF argcount
<1> QED
  BY <1>5, <1>6, <1>7, <1>8, <1>9 DEF MainFinds, argv

\* It holds when KernelExec calls LoadProgram.
LEMMA LoadInvInit == LInit => LoadInv
  BY DEF LInit, LoadInv, LTypeOK

\* Every step of LoadProgram keeps it.
LEMMA LoadInvNext == LoadInv /\ [LNext]_lvars => LoadInv'
<1> SUFFICES ASSUME LoadInv, [LNext]_lvars
             PROVE  LoadInv'
  OBVIOUS
<1>1. li \in Files /\ args \in ArgLists /\ LTypeOK
  BY DEF LoadInv, LTypeOK
<1>2. CASE UNCHANGED lvars
  <2>1. args' = args /\ li' = li /\ sp' = sp /\ mem' = mem /\ at' = at /\ pc' = pc
        /\ fd' = fd /\ argbuf' = argbuf /\ region1' = region1
    BY <1>2 DEF lvars
  <2>2. data_end' = data_end /\ cp2' = cp2 /\ StackFits' = StackFits /\ StackLow' = StackLow
    BY <2>1, SameCall
  <2>3. MainFinds' = MainFinds
    BY <2>1, <2>2 DEF MainFinds
  <2> QED
    BY <2>1, <2>2, <2>3 DEF LoadInv, LTypeOK
<1>3. ASSUME Open
      PROVE  LoadInv'
  <2>1. args' = args /\ li' = li
    BY <1>3 DEF Open, Error
  <2>2. data_end' = data_end
    BY <2>1, SameCall
  <2> QED
    BY <1>3, <2>1, <2>2 DEF Open, Error, LoadInv, LTypeOK
<1>4. ASSUME Check
      PROVE  LoadInv'
  <2>1. args' = args /\ li' = li
    BY <1>4 DEF Check, Error
  <2>2. data_end' = data_end /\ cp2' = cp2 /\ StackFits' = StackFits /\ StackLow' = StackLow
    BY <2>1, SameCall
  <2>3. CASE StackFits
    <3>1. cp2 \in data_end * PAGESIZE .. LIMIT - 1
      BY <1>1, <2>3, Addresses
    <3> QED
      BY <1>4, <2>1, <2>2, <2>3, <3>1 DEF Check, Error, LoadInv, LTypeOK
  <2>4. CASE ~StackFits
    BY <1>4, <2>1, <2>2, <2>4 DEF Check, Error, LoadInv, LTypeOK
  <2> QED
    BY <2>3, <2>4
<1>5. ASSUME Save
      PROVE  LoadInv'
  <2>1. args' = args /\ li' = li
    BY <1>5 DEF Save, Error
  <2>2. data_end' = data_end /\ cp2' = cp2 /\ StackFits' = StackFits /\ StackLow' = StackLow
    BY <2>1, SameCall
  <2> QED
    BY <1>5, <2>1, <2>2 DEF Save, Error, LoadInv, LTypeOK
<1>6. ASSUME Map
      PROVE  LoadInv'
  <2>1. args' = args /\ li' = li
    BY <1>6 DEF Map
  <2>2. data_end' = data_end /\ cp2' = cp2 /\ StackFits' = StackFits /\ StackLow' = StackLow
    BY <2>1, SameCall
  <2>3. mem' = mem \/ mem' = [x \in StackLow .. LIMIT - 1 |-> <<"junk">>]
    BY <1>6 DEF Map, StackLow
  <2> QED
    BY <1>6, <2>1, <2>2, <2>3 DEF Map, StackLow, LoadInv, LTypeOK
<1>7. ASSUME Read
      PROVE  LoadInv'
  <2>1. args' = args /\ li' = li
    BY <1>7 DEF Read, Kill
  <2>2. data_end' = data_end /\ cp2' = cp2 /\ StackFits' = StackFits /\ StackLow' = StackLow
    BY <2>1, SameCall
  <2>3. region1' \in [{"text", "data", "bss", "stack"} -> {"old", "none", "data", "text"}]
    BY <1>1, <1>7 DEF Read, LTypeOK
  <2>4. /\ at = "read" /\ at' \in {"user", "protect"} /\ fd' = FALSE
        /\ UNCHANGED <<argbuf, mem, sp, pc>>
    BY <1>7 DEF Read, Kill
  <2> QED
    BY <2>1, <2>2, <2>3, <2>4 DEF LoadInv, LTypeOK
<1>8. ASSUME Protect
      PROVE  LoadInv'
  <2>1. args' = args /\ li' = li
    BY <1>8 DEF Protect
  <2>2. data_end' = data_end /\ cp2' = cp2 /\ StackFits' = StackFits /\ StackLow' = StackLow
    BY <2>1, SameCall
  <2>3. region1' \in [{"text", "data", "bss", "stack"} -> {"old", "none", "data", "text"}]
    BY <1>1, <1>8 DEF Protect, LTypeOK
  <2>4. /\ at = "protect" /\ at' = "args" /\ pc' = "entry"
        /\ UNCHANGED <<fd, argbuf, mem, sp>>
    BY <1>8 DEF Protect
  <2> QED
    BY <2>1, <2>2, <2>3, <2>4 DEF LoadInv, LTypeOK
<1>9. ASSUME Args
      PROVE  LoadInv'
  <2>1. args' = args /\ li' = li /\ sp' = sp /\ mem' = Built /\ at = "args"
    BY <1>9 DEF Args
  <2>2. data_end' = data_end
    BY <2>1, SameCall
  <2>3. StackFits /\ sp = cp2 /\ argbuf = {args} /\ mem = [x \in StackLow .. LIMIT - 1 |-> <<"junk">>]
    BY <2>1 DEF LoadInv
  <2>4. Writing
    <3>1. <<"junk">> \in Byte
      BY DEF Byte
    <3>2. mem \in [StackLow .. LIMIT - 1 -> Byte]
      BY <2>3, <3>1
    <3> QED
      BY <1>1, <2>3, <3>2 DEF Writing
  <2>5. MainFinds'
    BY <2>1, <2>3, <2>4, ArgsWritten
  <2> QED
    BY <1>9, <2>1, <2>2, <2>5 DEF Args, LoadInv, LTypeOK
<1>10. ASSUME Done
       PROVE  UNCHANGED lvars
  BY <1>10 DEF Done
<1> QED
  BY <1>2, <1>3, <1>4, <1>5, <1>6, <1>7, <1>8, <1>9, <1>10 DEF LNext

\* So it holds at every step of an Exec.
THEOREM LoadInvCorrect == LSpec => []LoadInv
  BY LoadInvInit, LoadInvNext, PTL DEF LSpec

\* ArgsIntact: a program that LoadProgram starts finds its arguments whole and
\* clear of its data, for every page size, argument vector and executable.
THEOREM ArgsIntactCorrect == LSpec => []ArgsIntact
<1>1. LoadInv => ArgsIntact
  BY DEF LoadInv, ArgsIntact
<1> QED
  BY <1>1, LoadInvCorrect, PTL

=============================================================================
