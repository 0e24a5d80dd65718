----------------------------- MODULE PipeProofs -----------------------------
(***************************************************************************)
(* Pipes, for every number of processes and pipes, every buffer size and   *)
(* all lengths of reads and writes: the ids in the list are different, and *)
(* a pipe is a stream of bytes although the wrong processes may be woken.  *)
(***************************************************************************)
EXTENDS Pipe, SchedProofs

-----------------------------------------------------------------------------
(* The list of pipes.                                                      *)

\* Pipes are added at the end, with an id above that of the last one.
PipeList ==
  /\ pipes \in Seq(Ptr) /\ created \in 0 .. MaxPipes /\ id \in [Ptr -> Nat]
  /\ \A i \in DOMAIN pipes : pipes[i] <= created
  /\ \A i, j \in DOMAIN pipes : i < j => id[pipes[i]] < id[pipes[j]]

\* Taking one out of a sequence.
LEMMA RemoveAtQueue ==
  ASSUME NEW T, NEW q \in Seq(T), NEW k \in 1 .. Len(q)
  PROVE  LET r == RemoveAt(q, k) IN
         /\ r \in Seq(T) /\ DOMAIN r = 1 .. Len(q) - 1
         /\ \A i \in 1 .. Len(q) - 1 : r[i] = IF i < k THEN q[i] ELSE q[i + 1]
<1> DEFINE n == Len(q)
           a == SubSeq(q, 1, k - 1)
           b == SubSeq(q, k + 1, n)
           r == RemoveAt(q, k)
<1>1. n \in Nat /\ k \in 1 .. n
  OBVIOUS
<1>2. a \in Seq(T) /\ Len(a) = k - 1 /\ \A i \in 1 .. k - 1 : a[i] = q[i]
  BY <1>1, SubSeqProperties
<1>3. b \in Seq(T) /\ Len(b) = n - k /\ \A i \in 1 .. n - k : b[i] = q[k + i]
  <2>1. CASE k = n
    <3>1. k + 1 \in Int /\ n \in Int /\ k + 1 > n
      BY <1>1, <2>1
    <3>2. b = <<>>
      BY <3>1, <1>1, SubSeqProperties
    <3> QED
      BY <1>1, <2>1, <3>2
  <2>2. CASE k < n
    <3>1. k + 1 \in 1 .. n + 1 /\ n \in k .. n
      BY <1>1, <2>2
    <3>2. /\ b \in Seq(T) /\ Len(b) = n - (k + 1) + 1
          /\ \A i \in 1 .. n - (k + 1) + 1 : b[i] = q[(k + 1) + i - 1]
      BY <1>1, <3>1, SubSeqProperties
    <3> QED
      BY <1>1, <3>2
  <2> QED
    BY <1>1, <2>1, <2>2
<1> HIDE DEF a, b
<1>4. r = a \o b
  BY DEF RemoveAt, a, b
<1>5. /\ r \in Seq(T) /\ Len(r) = Len(a) + Len(b)
      /\ \A i \in 1 .. Len(a) + Len(b) : r[i] = IF i <= Len(a) THEN a[i] ELSE b[i - Len(a)]
  <2>1. a \in Seq(T) /\ b \in Seq(T)
    BY <1>2, <1>3
  <2>2. /\ a \o b \in Seq(T) /\ Len(a \o b) = Len(a) + Len(b)
        /\ \A i \in 1 .. Len(a) + Len(b) :
             (a \o b)[i] = IF i <= Len(a) THEN a[i] ELSE b[i - Len(a)]
    BY <2>1, ConcatProperties
  <2> QED
    BY <1>4, <2>2
<1> HIDE DEF n, r
<1>6. Len(r) = n - 1
  BY <1>1, <1>2, <1>3, <1>5
<1>7. ASSUME NEW i \in 1 .. n - 1
      PROVE  r[i] = IF i < k THEN q[i] ELSE q[i + 1]
  <2>0. i \in 1 .. Len(a) + Len(b)
    BY <1>1, <1>2, <1>3
  <2>1. CASE i < k
    <3>1. i \in 1 .. k - 1
      BY <1>1, <2>1
    <3> QED
      BY <1>1, <1>2, <1>5, <2>0, <2>1, <3>1
  <2>2. CASE ~(i < k)
    <3>1. i - (k - 1) \in 1 .. n - k /\ ~(i <= k - 1) /\ k + (i - (k - 1)) = i + 1
      BY <1>1, <2>2
    <3> QED
      BY <1>2, <1>3, <1>5, <2>0, <2>2, <3>1
  <2> QED
    BY <2>1, <2>2
<1>8. DOMAIN r = 1 .. n - 1
  BY <1>5, <1>6
<1> QED
  BY <1>5, <1>7, <1>8 DEF n, r

\* get_pipe finds a pipe of the list.
LEMMA PositionIn ==
  ASSUME pipes \in Seq(Ptr), NEW n, Matching(n) # {}
  PROVE  /\ Position(n) \in DOMAIN pipes /\ Position(n) \in 1 .. Len(pipes)
         /\ GetPipe(n) \in Elems(pipes) /\ GetPipe(n) \in Ptr
<1> DEFINE I == {i \in DOMAIN pipes : id[pipes[i]] \in {n}}
<1>1. I = Matching(n) /\ I \in SUBSET (1 .. Len(pipes)) /\ Len(pipes) \in Nat
  BY DEF Matching
<1>2. \E i \in I : \A j \in I : i <= j
  <2> DEFINE J == {Len(pipes) - i : i \in I}
  <2> HIDE DEF I
  <2>1. J \in SUBSET (0 .. Len(pipes)) /\ J # {}
    BY <1>1
  <2>2. PICK m \in J : \A j \in J : j <= m
    <3> HIDE DEF J
    <3> QED
      BY <1>1, <2>1, GreatestExists
  <2>3. PICK i \in I : m = Len(pipes) - i
    BY <2>2
  <2>4. \A j \in I : Len(pipes) - j <= Len(pipes) - i
    BY <2>2, <2>3
  <2> QED
    BY <1>1, <2>4
<1> HIDE DEF I
<1>3. Position(n) \in I
  BY <1>1, <1>2 DEF Position
<1> QED
  BY <1>1, <1>3 DEF GetPipe, Elems

LEMMA PipeListStep ==
  ASSUME PipeList, [Next]_vars
  PROVE  PipeList'
<1> USE DEF PipeList
<1>1. CASE UNCHANGED <<pipes, created, id>>
  BY <1>1
<1>2. CASE KernelPipeInit
  <2> DEFINE new == created + 1
             n == Len(pipes)
  <2>1. /\ new \in Ptr /\ created' = new /\ pipes' = Append(pipes, new)
        /\ id' = [id EXCEPT ![new] = NextId] /\ created \in Nat /\ new > created
    BY <1>2, PipeAssumption DEF KernelPipeInit, add_pipe, Ptr
  <2>2. NextId \in Nat /\ \A i \in 1 .. n : id[pipes[i]] < NextId
    <3>1. CASE pipes = <<>>
      BY <3>1, PipeAssumption DEF NextId
    <3>2. CASE pipes # <<>>
      <4>1. n \in Nat \ {0} /\ n \in DOMAIN pipes /\ pipes[n] \in Ptr
        BY <3>2, EmptySeq
      <4>2. id[pipes[n]] \in Nat /\ NextId = id[pipes[n]] + 1
        BY <3>2, <4>1 DEF NextId
      <4>3. ASSUME NEW i \in 1 .. n
            PROVE  id[pipes[i]] < NextId
        <5>1. i \in DOMAIN pipes /\ pipes[i] \in Ptr /\ id[pipes[i]] \in Nat
          BY <4>1
        <5>2. i = n \/ i < n
          BY <4>1
        <5>3. id[pipes[i]] <= id[pipes[n]]
          BY <4>1, <4>2, <5>1, <5>2
        <5> QED
          BY <4>2, <5>1, <5>3
      <4> QED
        BY <4>2, <4>3
    <3> QED
      BY <3>1, <3>2
  <2>3. /\ pipes' \in Seq(Ptr) /\ DOMAIN pipes' = 1 .. n + 1 /\ n \in Nat
        /\ \A i \in 1 .. n : pipes'[i] = pipes[i] /\ pipes[i] \in Ptr /\ i \in DOMAIN pipes
        /\ pipes'[n + 1] = new
    BY <2>1
  <2> HIDE DEF new, n
  <2>4. id' \in [Ptr -> Nat] /\ \A x \in Ptr : x # new => id'[x] = id[x]
    BY <2>1, <2>2
  <2>5. id'[new] = NextId
    BY <2>1
  <2>6. ASSUME NEW i \in 1 .. n
        PROVE  pipes'[i] # new /\ id'[pipes'[i]] = id[pipes[i]] /\ pipes'[i] <= created'
    <3>1. pipes[i] <= created /\ pipes[i] \in Int
      BY <2>3 DEF Ptr
    <3> QED
      BY <2>1, <2>3, <2>4, <3>1 DEF Ptr
  <2>7. \A i \in 1 .. n + 1 : i \in 1 .. n \/ i = n + 1
    BY <2>3
  <2>8. \A i \in DOMAIN pipes' : pipes'[i] <= created'
    BY <2>1, <2>3, <2>6, <2>7, SMTT(40)
  <2>9. ASSUME NEW i \in DOMAIN pipes', NEW j \in DOMAIN pipes', i < j
        PROVE  id'[pipes'[i]] < id'[pipes'[j]]
    <3>1. i \in 1 .. n
      BY <2>3, <2>9
    <3>2. CASE j \in 1 .. n
      BY <2>3, <2>6, <2>9, <3>1, <3>2
    <3>3. CASE j = n + 1
      BY <2>2, <2>3, <2>5, <2>6, <3>1, <3>3
    <3> QED
      BY <2>3, <2>7, <3>2, <3>3
  <2>10. created' \in 0 .. MaxPipes
    BY <2>1, PipeAssumption DEF Ptr
  <2> QED
    BY <2>3, <2>4, <2>8, <2>9, <2>10
<1>3. CASE Reclaim
  <2>1. PICK n \in BadIds : KernelReclaimPipe(n)
    BY <1>3 DEF Reclaim
  <2> DEFINE k == Position(n)
             m == Len(pipes)
  <2>2. /\ Matching(n) # {} /\ pipes' = RemoveAt(pipes, k) /\ UNCHANGED <<created, id>>
    BY <2>1 DEF KernelReclaimPipe
  <2>3. k \in 1 .. m
    BY <2>2, PositionIn
  <2>4. m \in Nat /\ DOMAIN pipes = 1 .. m
    OBVIOUS
  <2>5. /\ pipes' \in Seq(Ptr) /\ DOMAIN pipes' = 1 .. m - 1
        /\ \A i \in 1 .. m - 1 : pipes'[i] = IF i < k THEN pipes[i] ELSE pipes[i + 1]
    <3> DEFINE r == RemoveAt(pipes, k)
    <3>1. /\ r \in Seq(Ptr) /\ DOMAIN r = 1 .. m - 1
          /\ \A i \in 1 .. m - 1 : r[i] = IF i < k THEN pipes[i] ELSE pipes[i + 1]
      <4> HIDE DEF k
      <4> QED
        BY <2>3, RemoveAtQueue
    <3> HIDE DEF r, m, k
    <3> QED
      BY <2>2, <3>1 DEF r
  <2> HIDE DEF k, m
  <2>6. \A i \in 1 .. m - 1 : i \in 1 .. m /\ i + 1 \in 1 .. m
    BY <2>4
  <2>7. \A i \in DOMAIN pipes' : pipes'[i] <= created'
    BY <2>2, <2>4, <2>5, <2>6
  <2>8. ASSUME NEW i \in DOMAIN pipes', NEW j \in DOMAIN pipes', i < j
        PROVE  id'[pipes'[i]] < id'[pipes'[j]]
    <3> DEFINE a == IF i < k THEN i ELSE i + 1
               b == IF j < k THEN j ELSE j + 1
    <3>0. i \in 1 .. m - 1 /\ j \in 1 .. m - 1 /\ k \in 1 .. m /\ m \in Nat /\ i < j
      BY <2>3, <2>4, <2>5, <2>8
    <3>1. a \in 1 .. m /\ b \in 1 .. m /\ a < b
      <4> HIDE DEF PipeList
      <4>1. CASE i < k /\ j < k
        BY <3>0, <4>1
      <4>2. CASE i < k /\ ~(j < k)
        BY <3>0, <4>2
      <4>3. CASE ~(i < k)
        BY <3>0, <4>3
      <4> QED
        BY <4>1, <4>2, <4>3
    <3>2. pipes'[i] = pipes[a] /\ pipes'[j] = pipes[b]
      BY <2>5
    <3> QED
      BY <2>2, <2>4, <3>1, <3>2
  <2> QED
    BY <2>2, <2>5, <2>7, <2>8
<1> QED
  BY <1>1, <1>2, <1>3 DEF Next, Step, Scheduling, pipevars, vars, PipeRead, KernelPipeRead,
     ReadNow, ReadBlock, ResumePipeRead, ResumeFreed, PipeWrite, KernelPipeWrite, BadWrite,
     KernelPipeWriteNull, UseHead

\* add_pipe and remove_pipe keep the list in the order of the ids.
THEOREM PipeListCorrect == Spec => []PipeList
<1>1. Init => PipeList
  BY PipeAssumption DEF Init, PipeList, Ptr
<1>2. PipeList /\ [Next]_vars => PipeList'
  BY PipeListStep
<1> QED
  BY <1>1, <1>2, PTL DEF Spec

\* KernelPipeInit and KernelReclaim: no two pipes have the same id.
THEOREM PipeIdsDistinctCorrect == Spec => []PipeIdsDistinct
<1>1. ASSUME PipeList
      PROVE  PipeIdsDistinct
  <2> SUFFICES ASSUME NEW i \in DOMAIN pipes, NEW j \in DOMAIN pipes, i # j
               PROVE  id[pipes[i]] # id[pipes[j]]
    BY DEF PipeIdsDistinct
  <2>1. i < j \/ j < i
    BY <1>1 DEF PipeList
  <2>2. id[pipes[i]] \in Nat /\ id[pipes[j]] \in Nat
    BY <1>1 DEF PipeList
  <2> QED
    BY <1>1, <2>1, <2>2 DEF PipeList
<1> QED
  BY <1>1, PipeListCorrect, PTL

-----------------------------------------------------------------------------
(* Types.                                                                  *)

\* The types of what the wake-up loops work on.
WakeStates == [code : [PCB -> BlockedCodes], pid : [PCB -> PCB], ready : Seq(Proc),
               blocked : Seq(Proc), waiters : Seq(Proc)]

\* The first elements of a queue, and the others.
LEMMA Halves ==
  ASSUME NEW q \in Seq(Proc)
  PROVE  /\ HalfOf(q) \in 0 .. Len(q)
         /\ SubSeq(q, 1, HalfOf(q)) \in Seq(Proc)
         /\ SubSeq(q, HalfOf(q) + 1, Len(q)) \in Seq(Proc)
<1> DEFINE n == Len(q)
           h == HalfOf(q)
<1>1. n \in Nat
  OBVIOUS
<1>2. h \in 0 .. n
  <2> HIDE DEF n
  <2>1. h = (n + 1) \div 2
    BY DEF HalfOf, n
  <2> QED
    BY <1>1, <2>1
<1>3. \A i \in 1 .. n : q[i] \in Proc
  OBVIOUS
<1> HIDE DEF n, h
<1>4. SubSeq(q, 1, h) \in Seq(Proc)
  BY <1>1, <1>2, <1>3, SubSeqProperties DEF n
<1>5. SubSeq(q, h + 1, n) \in Seq(Proc)
  BY <1>1, <1>2, <1>3, SubSeqProperties DEF n
<1> QED
  BY <1>2, <1>4, <1>5 DEF n, h

LEMMA RenamedType ==
  ASSUME NEW s \in WakeStates, NEW q, NEW w \in Proc
  PROVE  Renamed(s, q, w) \in [PCB -> PCB]
<1>1. s.pid \in [PCB -> PCB] /\ w \in PCB
  BY DEF WakeStates, PCB
<1> QED
  BY <1>1 DEF Renamed

LEMMA WakeHalfType ==
  ASSUME NEW s \in WakeStates, NEW w \in Proc
  PROVE  WakeHalf(s, w) \in WakeStates
<1> DEFINE b == SubSeq(s.blocked, 1, HalfOf(s.blocked))
           r == SubSeq(s.blocked, HalfOf(s.blocked) + 1, Len(s.blocked))
<1>1. /\ s.code \in [PCB -> BlockedCodes] /\ s.pid \in [PCB -> PCB]
      /\ s.ready \in Seq(Proc) /\ s.blocked \in Seq(Proc) /\ s.waiters \in Seq(Proc)
  BY DEF WakeStates
<1>2. b \in Seq(Proc) /\ r \in Seq(Proc)
  BY <1>1, Halves
<1>3. Renamed(s, b, w) \in [PCB -> PCB]
  BY RenamedType
<1>4. [s.code EXCEPT ![w] = NOT_BLOCKED] \in [PCB -> BlockedCodes]
  BY <1>1 DEF BlockedCodes
<1> HIDE DEF b, r
<1>5. s.ready \o b \in Seq(Proc)
  BY <1>1, <1>2, ConcatQueue
<1>6. WakeHalf(s, w) = [s EXCEPT !.code = [s.code EXCEPT ![w] = NOT_BLOCKED],
                                 !.pid = Renamed(s, b, w), !.blocked = r,
                                 !.ready = s.ready \o b]
  BY DEF WakeHalf, b, r
<1> QED
  BY <1>1, <1>2, <1>3, <1>4, <1>5, <1>6 DEF WakeStates

LEMMA NowWithPidsType ==
  ASSUME TypeOK
  PROVE  NowWithPids \in WakeStates
<1>1. <<>> \in Seq(Proc)
  OBVIOUS
<1> QED
  BY <1>1 DEF TypeOK, SchedTypeOK, NowWithPids, WakeStates

\* The loop of the broadcast has a run f over the first half of the waiters.
LEMMA BroadcastRuns ==
  ASSUME TypeOK, NEW q \in Seq(Proc)
  PROVE  \E f \in [0 .. HalfOf(q) -> WakeStates] :
           /\ f[0] = NowWithPids
           /\ \A i \in 1 .. HalfOf(q) : f[i] = WakeHalf(f[i - 1], q[i])
           /\ Broadcast(q) = [f[HalfOf(q)] EXCEPT !.waiters = SubSeq(q, HalfOf(q) + 1, Len(q))]
<1> DEFINE n == HalfOf(q)
           s0 == NowWithPids
           g == [i \in 1 .. n |-> [s \in WakeStates |-> WakeHalf(s, q[i])]]
           Run(f) == f = [i \in 0 .. n |-> IF i = 0 THEN s0 ELSE WakeHalf(f[i - 1], q[i])]
<1>1. n \in Nat /\ \A i \in 1 .. n : q[i] \in Proc
  <2>1. n \in 0 .. Len(q) /\ Len(q) \in Nat
    BY Halves
  <2> HIDE DEF n
  <2> QED
    BY <2>1
<1>2. s0 \in WakeStates
  BY NowWithPidsType
<1>3. g \in [1 .. n -> [WakeStates -> WakeStates]]
  <2> HIDE DEF n
  <2> QED
    BY <1>1, WakeHalfType
<1>4. \A i \in 1 .. n : \A s \in WakeStates : g[i][s] = WakeHalf(s, q[i])
  OBVIOUS
<1> HIDE DEF g, s0, n
<1>5. \E f \in [0 .. n -> WakeStates] :
        f = [i \in 0 .. n |-> IF i = 0 THEN s0 ELSE g[i][f[i - 1]]]
  <2> DEFINE Loop(T, k, t, e) == \E f \in [0 .. k -> T] :
               f = [i \in 0 .. k |-> IF i = 0 THEN t ELSE e[i][f[i - 1]]]
  <2>1. \A T : \A k \in Nat : \A t \in T : \A e \in [1 .. k -> [T -> T]] : Loop(T, k, t, e)
    BY LoopExists
  <2> HIDE DEF Loop
  <2>2. Loop(WakeStates, n, s0, g)
    BY <1>1, <1>2, <1>3, <2>1
  <2> QED
    BY <2>2 DEF Loop
<1>6. PICK f \in [0 .. n -> WakeStates] :
        f = [i \in 0 .. n |-> IF i = 0 THEN s0 ELSE g[i][f[i - 1]]]
  BY <1>5
<1>7. \A i \in 0 .. n : i # 0 => i \in 1 .. n /\ i - 1 \in 0 .. n
  BY <1>1
<1>8. \A i \in 0 .. n : f[i] = IF i = 0 THEN s0 ELSE g[i][f[i - 1]]
  BY <1>6
<1>9. Run(f)
  <2>1. \A i \in 0 .. n : f[i] = IF i = 0 THEN s0 ELSE WakeHalf(f[i - 1], q[i])
    BY <1>4, <1>7, <1>8
  <2> QED
    BY <2>1
<1> DEFINE h == CHOOSE r : Run(r)
<1>10. Run(h)
  <2> HIDE DEF Run
  <2> QED
    BY <1>9
<1>11. Broadcast(q) = [h[n] EXCEPT !.waiters = SubSeq(q, n + 1, Len(q))]
  BY Zenon DEF Broadcast, n, s0
<1> HIDE DEF h
<1>12. /\ h[0] = s0
       /\ \A i \in 1 .. n : h[i] = WakeHalf(h[i - 1], q[i])
  <2>1. \A i \in 0 .. n : h[i] = IF i = 0 THEN s0 ELSE WakeHalf(h[i - 1], q[i])
    BY <1>10
  <2>2. 0 \in 0 .. n /\ \A i \in 1 .. n : i \in 0 .. n /\ i # 0
    BY <1>1
  <2> QED
    BY <2>1, <2>2
<1>13. h \in [0 .. n -> WakeStates]
  <2> DEFINE I == {i \in 0 .. n : h[i] \in WakeStates}
  <2>1. 0 \in I /\ I \in SUBSET (0 .. n)
    BY <1>1, <1>2, <1>12
  <2>2. \A i \in 1 .. n : i - 1 \in I => i \in I
    BY <1>1, <1>12, WakeHalfType
  <2> HIDE DEF I
  <2>3. I = 0 .. n
    BY <1>1, <2>1, <2>2, UpTo
  <2>4. \A i \in 0 .. n : h[i] \in WakeStates
    BY <2>3 DEF I
  <2>5. h = [i \in 0 .. n |-> h[i]]
    BY <1>10
  <2> QED
    BY <2>4, <2>5
<1> QED
  BY <1>11, <1>12, <1>13 DEF n, s0

LEMMA BroadcastType ==
  ASSUME TypeOK, NEW q \in Seq(Proc)
  PROVE  Broadcast(q) \in WakeStates
<1>1. HalfOf(q) \in 0 .. HalfOf(q) /\ SubSeq(q, HalfOf(q) + 1, Len(q)) \in Seq(Proc)
  BY Halves
<1>2. PICK f \in [0 .. HalfOf(q) -> WakeStates] :
         Broadcast(q) = [f[HalfOf(q)] EXCEPT !.waiters = SubSeq(q, HalfOf(q) + 1, Len(q))]
  BY BroadcastRuns
<1>3. f[HalfOf(q)] \in WakeStates
  BY <1>1
<1> QED
  BY <1>1, <1>2, <1>3 DEF WakeStates

\* Waking after a read.
LEMMA AfterReadType ==
  ASSUME TypeOK, NEW q \in Seq(Proc), NEW rest
  PROVE  AfterRead(rest, q) \in WakeStates
<1> DEFINE w == Head(q)
           b == PopSeq(blocked_q)
           N == NowWithPids
<1>0. /\ blocked_q \in Seq(Proc) /\ ready_q \in Seq(Proc) /\ blocked_code \in [PCB -> BlockedCodes]
  BY DEF TypeOK, SchedTypeOK
<1>1. N \in WakeStates
  BY NowWithPidsType
<1>2. CASE q = <<>>
  BY <1>1, <1>2 DEF AfterRead
<1>3. CASE q # <<>>
  <2>1. w \in Proc /\ Tail(q) \in Seq(Proc)
    BY <1>3, PopQueue
  <2>2. /\ N.code \in [PCB -> BlockedCodes] /\ N.ready \in Seq(Proc)
        /\ N.blocked \in Seq(Proc)
    BY <1>1 DEF WakeStates
  <2>3. b \in Seq(Proc)
    <3>1. CASE blocked_q = <<>>
      BY <3>1 DEF PopSeq
    <3>2. CASE blocked_q # <<>>
      <4>1. Head(blocked_q) \in Proc
        BY <1>0, <3>2, PopQueue
      <4> QED
        BY <3>2, <4>1 DEF PopSeq
    <3> QED
      BY <3>1, <3>2
  <2>4. Renamed(N, b, w) \in [PCB -> PCB]
    BY <1>1, <2>1, RenamedType
  <2>5. [N.code EXCEPT ![w] = NOT_BLOCKED] \in [PCB -> BlockedCodes]
    BY <2>2 DEF BlockedCodes
  <2> HIDE DEF w, b
  <2>6. N.ready \o b \in Seq(Proc) /\ Append(N.ready, w) \in Seq(Proc) /\ AfterPop(N.blocked) \in Seq(Proc)
    BY <2>1, <2>2, <2>3, ConcatQueue, PopNext
  <2>7. WakeReader(q) = [N EXCEPT !.code = [N.code EXCEPT ![w] = NOT_BLOCKED],
                         !.pid = Renamed(N, b, w), !.ready = Append(N.ready, w),
                         !.blocked = AfterPop(N.blocked), !.waiters = Tail(q)]
    BY <1>1 DEF WakeReader, w, b, WakeStates
  <2>8. WakeWriter(q) = [N EXCEPT !.code = [N.code EXCEPT ![w] = NOT_BLOCKED],
                         !.pid = Renamed(N, b, w), !.ready = N.ready \o b,
                         !.blocked = AfterPop(N.blocked), !.waiters = Tail(q)]
    BY <1>1 DEF WakeWriter, w, b, WakeStates
  <2> HIDE DEF N
  <2>9. WakeReader(q) \in WakeStates /\ WakeWriter(q) \in WakeStates
    BY <1>1, <2>1, <2>2, <2>4, <2>5, <2>6, <2>7, <2>8 DEF WakeStates
  <2> QED
    BY <1>3, <2>9 DEF AfterRead
<1> QED
  BY <1>2, <1>3

-----------------------------------------------------------------------------
(* The kinds of steps.                                                     *)

Lengths == 0 .. PIPE_BUFFER_LEN

\* Idle makes no system calls.
IdleUser == pc[idle] \in {"user", "start", "clock"}

\* KernelPipeWrite with the pipe found.
Writes(x, len) ==
  /\ activePCB \in Proc /\ UserMode
  /\ buf' = [buf EXCEPT ![x] = @ \o Accepted(x, len)]
  /\ accepted' = [accepted EXCEPT ![x] = @ \o Accepted(x, len)]
  /\ Woken(x, Broadcast(queue[x]))
  /\ UNCHANGED <<activePCB, clock_ticks, tty_terminal, pc, pipes, created, id,
                 call, crashed, delivered>>

\* A process that reads is at the start or in the loop of KernelPipeRead.
InRead(x) ==
  /\ activePCB \in Proc
  /\ UserMode \/ (ContinuesAt("piperead") /\ call[activePCB].pipe = x)

Kinds ==
  \/ Scheduling \/ KernelPipeInit \/ Reclaim
  \/ crashed' = TRUE /\ UNCHANGED <<sched, pipevars, pid, call, history>>
  \/ UNCHANGED vars
  \/ \E x \in Elems(pipes), len \in Lengths :
       \/ InRead(x) /\ buf[x] # <<>> /\ ReadNow(x, len)
       \/ InRead(x) /\ buf[x] = <<>> /\ ReadBlock(x, len)
       \/ Writes(x, len)

LEMMA StepKinds ==
  ASSUME TypeOK, IdleUser, [Next]_vars
  PROVE  Kinds
<1>0. /\ activePCB \in PCB /\ pipes \in Seq(Ptr)
      /\ call \in [PCB -> [pipe : 0 .. MaxPipes, len : Lengths]]
      /\ ReadLens \subseteq Lengths /\ WriteLens \subseteq Lengths
  BY PipeAssumption DEF TypeOK, SchedTypeOK, Lengths
<1>1. Calls => activePCB \in Proc /\ UserMode
  BY <1>0 DEF Calls, UserProgram, PCB
<1>2. CASE PipeRead
  <2>1. PICK n \in Ids, len \in ReadLens : KernelPipeRead(n, len)
    BY <1>2 DEF PipeRead
  <2>2. GetPipe(n) \in Elems(pipes) /\ len \in Lengths
    BY <1>0, <2>1, PositionIn DEF KernelPipeRead
  <2>3. InRead(GetPipe(n))
    BY <1>1, <2>1 DEF KernelPipeRead, InRead
  <2>4. \/ buf[GetPipe(n)] # <<>> /\ ReadNow(GetPipe(n), len)
        \/ buf[GetPipe(n)] = <<>> /\ ReadBlock(GetPipe(n), len)
    BY <2>1 DEF KernelPipeRead
  <2> QED
    BY <2>2, <2>3, <2>4 DEF Kinds
<1>3. CASE ResumePipeRead
  <2> DEFINE c == call[activePCB]
  <2>1. c.len \in Lengths /\ c.pipe \in Elems(pipes)
    BY <1>0, <1>3 DEF ResumePipeRead
  <2>2. activePCB \in Proc
    BY <1>0, <1>3 DEF ResumePipeRead, ContinuesAt, IdleUser, PCB
  <2>3. InRead(c.pipe)
    BY <1>3, <2>2 DEF ResumePipeRead, InRead
  <2>4. \/ buf[c.pipe] # <<>> /\ ReadNow(c.pipe, c.len)
        \/ buf[c.pipe] = <<>> /\ ReadBlock(c.pipe, c.len)
    BY <1>3 DEF ResumePipeRead
  <2> HIDE DEF c
  <2> QED
    BY <2>1, <2>3, <2>4 DEF Kinds
<1>4. CASE PipeWrite
  <2>1. PICK n \in Ids, len \in WriteLens : KernelPipeWrite(n, len)
    BY <1>4 DEF PipeWrite
  <2>2. GetPipe(n) \in Elems(pipes) /\ len \in Lengths
    BY <1>0, <2>1, PositionIn DEF KernelPipeWrite
  <2>3. Writes(GetPipe(n), len)
    BY <1>1, <2>1 DEF KernelPipeWrite, Writes
  <2> QED
    BY <2>2, <2>3 DEF Kinds
<1>5. CASE ResumeFreed \/ BadWrite \/ UseHead
  BY <1>5 DEF ResumeFreed, BadWrite, KernelPipeWriteNull, UseHead, Kinds
<1>6. CASE Scheduling \/ KernelPipeInit \/ Reclaim \/ UNCHANGED vars
  BY <1>6 DEF Kinds
<1> QED
  BY <1>2, <1>3, <1>4, <1>5, <1>6 DEF Next, Step

-----------------------------------------------------------------------------
(* A pipe holds what was accepted and not yet delivered.                   *)

Stream ==
  /\ buf \in [Ptr -> Seq(Nat)]
  /\ accepted \in [Ptr -> Seq(Nat)] /\ delivered \in [Ptr -> Seq(Nat)]
  /\ \A x \in Ptr : accepted[x] = delivered[x] \o buf[x]

\* The inductive invariant.
StreamInv == TypeOK /\ PipeList /\ IdleUser /\ Stream

\* The bytes that a write appends.
LEMMA AcceptedBytes ==
  ASSUME TypeOK, Stream, NEW x \in Ptr, NEW len \in Lengths
  PROVE  /\ Accepted(x, len) \in Seq(Nat)
         /\ Len(buf[x] \o Accepted(x, len)) <= PIPE_BUFFER_LEN
<1> DEFINE l == Len(buf[x])
           room == PIPE_BUFFER_LEN - l
           n == IF room >= len THEN len ELSE room
<1>1. /\ l \in Nat /\ l <= PIPE_BUFFER_LEN /\ PIPE_BUFFER_LEN \in Nat
      /\ Len(accepted[x]) \in Nat /\ len \in Nat /\ buf[x] \in Seq(Nat)
  BY PipeAssumption DEF TypeOK, Stream, Lengths
<1>2. Accepted(x, len) = [i \in 1 .. n |-> Len(accepted[x]) + i]
  BY DEF Accepted, Bytes
<1> HIDE DEF l
<1>3. room \in Nat /\ l + room = PIPE_BUFFER_LEN
  BY <1>1
<1> HIDE DEF room
<1>4. n \in Nat /\ n <= room
  <2>1. CASE room >= len
    BY <1>1, <1>3, <2>1
  <2>2. CASE ~(room >= len)
    BY <1>1, <1>3, <2>2
  <2> QED
    BY <2>1, <2>2
<1> HIDE DEF n
<1>5. /\ Accepted(x, len) \in Seq(Nat) /\ Len(Accepted(x, len)) = n
  BY <1>1, <1>2, <1>4
<1>6. Len(buf[x] \o Accepted(x, len)) = l + n
  BY <1>1, <1>5, ConcatProperties DEF l
<1> QED
  BY <1>1, <1>3, <1>4, <1>5, <1>6

\* A read takes the first bytes: how many, and what is left.
Amount(x, len) == IF len < Len(buf[x]) THEN len ELSE Len(buf[x])

LEMMA TakenBytes ==
  ASSUME Stream, NEW x \in Ptr, NEW len \in Nat
  PROVE  /\ Amount(x, len) \in 0 .. Len(buf[x])
         /\ SubSeq(buf[x], 1, Amount(x, len)) \in Seq(Nat)
         /\ Len(SubSeq(buf[x], 1, Amount(x, len))) = Amount(x, len)
         /\ Taken(x, len) \in Seq(Nat) /\ Len(Taken(x, len)) <= Len(buf[x])
         /\ buf[x] = SubSeq(buf[x], 1, Amount(x, len)) \o Taken(x, len)
<1> DEFINE b == buf[x]
           n == Len(b)
           k == Amount(x, len)
<1>1. b \in Seq(Nat) /\ n \in Nat
  BY DEF Stream
<1>2. k \in 0 .. n /\ (len < n => k = len) /\ (len >= n => k = n)
  BY <1>1 DEF Amount
<1> HIDE DEF k
<1>3. Taken(x, len) = SubSeq(b, k + 1, n)
  <2>1. CASE len >= n
    <3>1. SubSeq(b, len + 1, n) = <<>> /\ SubSeq(b, n + 1, n) = <<>>
      BY <1>1, <2>1, SubSeqProperties
    <3> QED
      BY <1>2, <2>1, <3>1 DEF Taken
  <2>2. CASE len < n
    BY <1>2, <2>2 DEF Taken
  <2> QED
    BY <1>1, <2>1, <2>2
<1>4. /\ SubSeq(b, 1, k) \in Seq(Nat) /\ Len(SubSeq(b, 1, k)) = k
      /\ SubSeq(b, k + 1, n) \in Seq(Nat) /\ Len(SubSeq(b, k + 1, n)) = n - k
      /\ b = SubSeq(b, 1, k) \o SubSeq(b, k + 1, n)
  BY <1>1, <1>2, SplitAt
<1>5. n - k <= n
  BY <1>1, <1>2
<1> QED
  BY <1>2, <1>3, <1>4, <1>5 DEF k

-----------------------------------------------------------------------------
(* The inductive invariant holds.                                          *)

\* What waking does to the scheduler.
LEMMA WokenType ==
  ASSUME TypeOK, NEW x \in Ptr, NEW s \in WakeStates, Woken(x, s)
  PROVE  /\ queue' \in [Ptr -> Seq(Proc)] /\ pid' \in [PCB -> PCB]
         /\ blocked_code' \in [PCB -> BlockedCodes]
         /\ ready_q' \in Seq(Proc) /\ blocked_q' \in Seq(Proc)
<1>1. /\ s.code \in [PCB -> BlockedCodes] /\ s.pid \in [PCB -> PCB]
      /\ s.ready \in Seq(Proc) /\ s.blocked \in Seq(Proc) /\ s.waiters \in Seq(Proc)
  BY DEF WakeStates
<1> QED
  BY <1>1 DEF TypeOK, Woken

LEMMA TypeStep ==
  ASSUME StreamInv, Kinds, PipeList'
  PROVE  TypeOK'
<1> DEFINE C == {"piperead"}
           Calls_ == [pipe : 0 .. MaxPipes, len : 0 .. PIPE_BUFFER_LEN]
<1> USE DEF StreamInv
<1>0. /\ SchedTypeOK(C) /\ TypeOK /\ Stream /\ PipeList
      /\ activePCB \in PCB /\ pc \in [PCB -> {"user", "start", "clock", "delay"} \cup C]
      /\ call \in [PCB -> Calls_] /\ crashed \in BOOLEAN /\ pipes \in Seq(Ptr)
      /\ queue \in [Ptr -> Seq(Proc)]
  BY DEF TypeOK, SchedTypeOK
<1>l. pipes' \in Seq(Ptr) /\ created' \in 0 .. MaxPipes /\ id' \in [Ptr -> Nat]
  BY DEF PipeList, Ptr
<1>e. Elems(pipes) \subseteq Ptr
  BY <1>0 DEF Elems, Range
<1>1. CASE Scheduling
  <2>1. SchedStep({})
    BY <1>1 DEF Scheduling, SchedStep
  <2>2. SchedTypeOK(C)'
    BY <1>0, <2>1, SchedStepType
  <2> QED
    BY <1>0, <1>1, <2>2 DEF Scheduling, TypeOK, pipevars
<1>2. CASE KernelPipeInit \/ Reclaim
  <2>1. UNCHANGED <<sched, buf, queue, pid, call, crashed>>
    BY <1>2 DEF KernelPipeInit, Reclaim, KernelReclaimPipe
  <2>2. SchedTypeOK(C)'
    BY <1>0, <2>1 DEF sched, SchedTypeOK
  <2> QED
    BY <1>0, <1>l, <2>1, <2>2 DEF TypeOK
<1>3. CASE \/ crashed' = TRUE /\ UNCHANGED <<sched, pipevars, pid, call, history>>
           \/ UNCHANGED vars
  <2>1. UNCHANGED <<sched, pipevars, pid, call>> /\ crashed' \in BOOLEAN
    BY <1>0, <1>3 DEF vars
  <2>2. SchedTypeOK(C)'
    BY <1>0, <2>1 DEF sched, SchedTypeOK
  <2> QED
    BY <1>0, <2>1, <2>2 DEF TypeOK, pipevars
<1>4. ASSUME NEW x \in Elems(pipes), NEW len \in Lengths, InRead(x), ReadNow(x, len)
      PROVE  TypeOK'
  <2>1. x \in Ptr /\ len \in Nat /\ queue[x] \in Seq(Proc) /\ PIPE_BUFFER_LEN \in Nat
    BY <1>e, <1>0, PipeAssumption DEF Lengths
  <2> DEFINE s == AfterRead(Taken(x, len), queue[x])
  <2>2. s \in WakeStates /\ Woken(x, s)
    BY <1>0, <1>4, <2>1, AfterReadType DEF ReadNow
  <2> HIDE DEF s
  <2>3. /\ queue' \in [Ptr -> Seq(Proc)] /\ pid' \in [PCB -> PCB]
        /\ blocked_code' \in [PCB -> BlockedCodes]
        /\ ready_q' \in Seq(Proc) /\ blocked_q' \in Seq(Proc)
    BY <1>0, <2>1, <2>2, WokenType
  <2>4. SchedTypeOK(C)'
    BY <1>0, <1>4, <2>3 DEF ReadNow, SchedTypeOK, ToUser
  <2>5. ASSUME NEW y \in Ptr
        PROVE  Len(buf'[y]) <= PIPE_BUFFER_LEN
    <3>1. CASE y # x
      BY <1>0, <1>4, <3>1 DEF ReadNow, TypeOK, Stream
    <3>2. CASE y = x
      <4>1. buf'[x] = Taken(x, len)
        BY <1>0, <1>4, <2>1 DEF ReadNow, Stream
      <4>2. /\ Len(Taken(x, len)) <= Len(buf[x]) /\ Len(buf[x]) <= PIPE_BUFFER_LEN
            /\ Taken(x, len) \in Seq(Nat) /\ buf[x] \in Seq(Nat)
        BY <1>0, <2>1, TakenBytes DEF TypeOK, Stream
      <4>3. Len(Taken(x, len)) \in Nat /\ Len(buf[x]) \in Nat
        BY <4>2
      <4> QED
        BY <2>1, <3>2, <4>1, <4>2, <4>3
    <3> QED
      BY <3>1, <3>2
  <2>6. call' \in [PCB -> Calls_]
    <3>1. NoCall \in Calls_
      <4>1. 0 \in 0 .. MaxPipes /\ 0 \in 0 .. PIPE_BUFFER_LEN
        BY PipeAssumption
      <4> QED
        BY <4>1 DEF NoCall
    <3> QED
      BY <1>0, <1>4, <3>1 DEF ReadNow
  <2> QED
    BY <1>0, <1>l, <1>4, <2>3, <2>4, <2>5, <2>6 DEF ReadNow, TypeOK
<1>5. ASSUME NEW x \in Elems(pipes), NEW len \in Lengths, InRead(x), ReadBlock(x, len)
      PROVE  TypeOK'
  <2>1. x \in Ptr /\ len \in Lengths /\ activePCB \in Proc /\ x \in 0 .. MaxPipes
    BY <1>e, <1>5 DEF InRead, Ptr
  <2>2. blocked_q' \in Seq(Proc) /\ ready_q' \in Seq(Proc) /\ activePCB' \in PCB
    <3>1. blocked_q \in Seq(Proc) /\ ready_q \in Seq(Proc)
      BY <1>0 DEF SchedTypeOK
    <3> QED
      BY <1>0, <1>5, <3>1, JoinQueue, PopNext DEF ReadBlock, SwapProcess
  <2>3. blocked_code' \in [PCB -> BlockedCodes]
    <3>1. BLOCKED_PIPE_READ \in BlockedCodes
      BY DEF BLOCKED_PIPE_READ, BlockedCodes
    <3> QED
      BY <1>0, <1>5, <3>1 DEF ReadBlock, SchedTypeOK
  <2>4. SchedTypeOK(C)'
    BY <1>0, <1>5, <2>2, <2>3 DEF ReadBlock, SwapProcess, SchedTypeOK
  <2>5. queue' \in [Ptr -> Seq(Proc)]
    <3>1. Append(queue[x], activePCB) \in Seq(Proc)
      BY <1>0, <2>1
    <3> QED
      BY <1>0, <1>5, <3>1 DEF ReadBlock
  <2>6. call' \in [PCB -> Calls_]
    <3>1. [pipe |-> x, len |-> len] \in Calls_
      BY <2>1 DEF Lengths
    <3> QED
      BY <1>0, <1>5, <3>1 DEF ReadBlock
  <2> QED
    BY <1>0, <1>l, <1>5, <2>4, <2>5, <2>6 DEF ReadBlock, TypeOK
<1>6. ASSUME NEW x \in Elems(pipes), NEW len \in Lengths, Writes(x, len)
      PROVE  TypeOK'
  <2>1. x \in Ptr /\ queue[x] \in Seq(Proc)
    BY <1>e, <1>0
  <2> DEFINE s == Broadcast(queue[x])
  <2>2. s \in WakeStates /\ Woken(x, s)
    BY <1>0, <1>6, <2>1, BroadcastType DEF Writes
  <2> HIDE DEF s
  <2>3. /\ queue' \in [Ptr -> Seq(Proc)] /\ pid' \in [PCB -> PCB]
        /\ blocked_code' \in [PCB -> BlockedCodes]
        /\ ready_q' \in Seq(Proc) /\ blocked_q' \in Seq(Proc)
    BY <1>0, <2>1, <2>2, WokenType
  <2>4. SchedTypeOK(C)'
    BY <1>0, <1>6, <2>3 DEF Writes, SchedTypeOK
  <2>5. ASSUME NEW y \in Ptr
        PROVE  Len(buf'[y]) <= PIPE_BUFFER_LEN
    <3>1. CASE y # x
      BY <1>0, <1>6, <3>1 DEF Writes, TypeOK, Stream
    <3>2. CASE y = x
      <4>1. buf'[x] = buf[x] \o Accepted(x, len)
        BY <1>0, <1>6, <2>1 DEF Writes, Stream
      <4>2. Len(buf[x] \o Accepted(x, len)) <= PIPE_BUFFER_LEN
        BY <1>0, <2>1, AcceptedBytes
      <4> QED
        BY <3>2, <4>1, <4>2
    <3> QED
      BY <3>1, <3>2
  <2> QED
    BY <1>0, <1>l, <1>6, <2>3, <2>4, <2>5 DEF Writes, TypeOK
<1> QED
  BY <1>1, <1>2, <1>3, <1>4, <1>5, <1>6 DEF Kinds

\* Idle stays out of the handlers.
LEMMA IdleStep ==
  ASSUME StreamInv, Kinds
  PROVE  IdleUser'
<1> USE DEF StreamInv
<1>0. /\ SchedTypeOK({"piperead"}) /\ activePCB \in PCB /\ IdleUser
      /\ pc \in [PCB -> {"user", "start", "clock", "delay", "piperead"}]
      /\ idle \in PCB /\ idle \notin Proc
  BY DEF TypeOK, SchedTypeOK, PCB, idle, Proc
<1>1. CASE Scheduling
  <2>1. SchedStep({})
    BY <1>1 DEF Scheduling, SchedStep
  <2>2. /\ \A p \in PCB : p # activePCB => pc'[p] = pc[p]
        /\ activePCB = idle => pc'[idle] \in {"user", "clock", "start"}
    BY <1>0, <2>1, SchedStepContext
  <2> QED
    BY <1>0, <2>2 DEF IdleUser
<1>2. CASE \/ KernelPipeInit \/ Reclaim \/ UNCHANGED vars
           \/ crashed' = TRUE /\ UNCHANGED <<sched, pipevars, pid, call, history>>
  BY <1>0, <1>2 DEF KernelPipeInit, Reclaim, KernelReclaimPipe, vars, sched, IdleUser
<1>3. ASSUME NEW x \in Elems(pipes), NEW len \in Lengths,
             \/ InRead(x) /\ ReadNow(x, len)
             \/ InRead(x) /\ ReadBlock(x, len)
             \/ Writes(x, len)
      PROVE  IdleUser'
  BY <1>0, <1>3 DEF InRead, ReadNow, ReadBlock, Writes, ToUser, SwapProcess, IdleUser
<1> QED
  BY <1>1, <1>2, <1>3 DEF Kinds

LEMMA StreamStep ==
  ASSUME StreamInv, Kinds
  PROVE  Stream'
<1> USE DEF StreamInv
<1>0. TypeOK /\ Stream /\ Elems(pipes) \subseteq Ptr
  BY DEF TypeOK, Elems, Range
<1>1. CASE UNCHANGED <<buf, accepted, delivered>>
  BY <1>0, <1>1 DEF Stream
<1>2. ASSUME NEW x \in Ptr, NEW len \in Lengths, ReadNow(x, len)
      PROVE  Stream'
  <2> DEFINE f == SubSeq(buf[x], 1, Amount(x, len))
             t == Taken(x, len)
             d == delivered[x]
  <2>0. len \in Nat
    BY DEF Lengths
  <2>1. /\ f \in Seq(Nat) /\ t \in Seq(Nat) /\ d \in Seq(Nat)
        /\ buf[x] = f \o t /\ accepted[x] = d \o buf[x]
    BY <1>0, <2>0, TakenBytes DEF Stream
  <2>2. /\ buf' = [buf EXCEPT ![x] = t]
        /\ delivered' = [delivered EXCEPT ![x] = d \o f]
        /\ accepted' = accepted
    BY <1>2 DEF ReadNow, Amount
  <2> HIDE DEF f, t, d
  <2>3. d \o f \in Seq(Nat) /\ (d \o f) \o t = accepted[x]
    <3>1. d \o f \in Seq(Nat)
      BY <2>1, ConcatProperties
    <3>2. (d \o f) \o t = d \o (f \o t)
      BY <2>1, ConcatAssociative, SMTT(40)
    <3> QED
      BY <2>1, <3>1, <3>2
  <2> QED
    BY <1>0, <2>1, <2>2, <2>3 DEF Stream
<1>3. ASSUME NEW x \in Ptr, NEW len \in Lengths, Writes(x, len)
      PROVE  Stream'
  <2> DEFINE n == Accepted(x, len)
             d == delivered[x]
             b == buf[x]
  <2>1. n \in Seq(Nat) /\ d \in Seq(Nat) /\ b \in Seq(Nat) /\ accepted[x] = d \o b
    BY <1>0, AcceptedBytes DEF Stream
  <2>2. /\ buf' = [buf EXCEPT ![x] = b \o n]
        /\ accepted' = [accepted EXCEPT ![x] = (d \o b) \o n]
        /\ delivered' = delivered
    BY <1>3, <2>1 DEF Writes
  <2> HIDE DEF n, d, b
  <2>3. /\ b \o n \in Seq(Nat) /\ d \o b \in Seq(Nat) /\ (d \o b) \o n \in Seq(Nat)
        /\ (d \o b) \o n = d \o (b \o n)
    <3>1. b \o n \in Seq(Nat) /\ d \o b \in Seq(Nat)
      BY <2>1, ConcatProperties
    <3>2. (d \o b) \o n \in Seq(Nat)
      BY <2>1, <3>1, ConcatProperties
    <3> QED
      BY <2>1, <3>1, <3>2, ConcatAssociative, SMTT(40)
  <2> QED
    BY <1>0, <2>1, <2>2, <2>3 DEF Stream, d
<1>4. ASSUME NEW x \in Ptr, NEW len \in Lengths, ReadBlock(x, len)
      PROVE  Stream'
  BY <1>0, <1>4 DEF ReadBlock, history, Stream
<1>5. CASE Scheduling \/ KernelPipeInit \/ Reclaim
  BY <1>1, <1>5 DEF Scheduling, KernelPipeInit, Reclaim, KernelReclaimPipe, pipevars, history
<1>6. CASE \/ crashed' = TRUE /\ UNCHANGED <<sched, pipevars, pid, call, history>>
           \/ UNCHANGED vars
  BY <1>1, <1>6 DEF vars, pipevars, history
<1> QED
  BY <1>0, <1>2, <1>3, <1>4, <1>5, <1>6 DEF Kinds

\* Every variable keeps its type, and a pipe holds exactly the bytes that were
\* accepted and not yet delivered, in order.
THEOREM StreamInvariant == Spec => []StreamInv
<1>1. Init => StreamInv
  <2> SUFFICES ASSUME Init
               PROVE  StreamInv
    OBVIOUS
  <2>1. PipeList
    BY PipeAssumption DEF Init, PipeList, Ptr
  <2>2. SchedTypeOK({"piperead"}) /\ IdleUser
    <3>1. ready_q \in Seq(Proc) /\ blocked_q \in Seq(Proc)
      BY NProcAssumption DEF Init, SchedInit, Proc
    <3> QED
      BY <3>1, MaxDelayAssumption DEF Init, SchedInit, SchedTypeOK, IdleUser, PCB, idle,
         BlockedCodes, NOT_BLOCKED
  <2>3. Stream /\ \A x \in Ptr : buf[x] = <<>>
    <3>1. <<>> \in Seq(Nat) /\ <<>> \o <<>> = <<>>
      BY ConcatEmptySeq
    <3> QED
      BY <3>1 DEF Init, Stream
  <2>4. NoCall \in [pipe : 0 .. MaxPipes, len : 0 .. PIPE_BUFFER_LEN]
    <3>1. 0 \in 0 .. MaxPipes /\ 0 \in 0 .. PIPE_BUFFER_LEN
      BY PipeAssumption
    <3> QED
      BY <3>1 DEF NoCall
  <2>5. /\ queue \in [Ptr -> Seq(Proc)] /\ pid \in [PCB -> PCB]
        /\ call \in [PCB -> [pipe : 0 .. MaxPipes, len : 0 .. PIPE_BUFFER_LEN]]
    BY <2>4 DEF Init
  <2>6. \A x \in Ptr : Len(buf[x]) <= PIPE_BUFFER_LEN
    <3>1. Len(<<>>) = 0 /\ PIPE_BUFFER_LEN \in Nat
      BY PipeAssumption
    <3> QED
      BY <2>3, <3>1
  <2>7. crashed \in BOOLEAN
    BY DEF Init
  <2> QED
    BY <2>1, <2>2, <2>3, <2>5, <2>6, <2>7 DEF StreamInv, TypeOK, PipeList
<1>2. StreamInv /\ [Next]_vars => StreamInv'
  <2> SUFFICES ASSUME StreamInv, [Next]_vars
               PROVE  StreamInv'
    OBVIOUS
  <2>1. PipeList' /\ Kinds
    BY PipeListStep, StepKinds DEF StreamInv
  <2> QED
    BY <2>1, TypeStep, IdleStep, StreamStep DEF StreamInv
<1> QED
  BY <1>1, <1>2, PTL DEF Spec

-----------------------------------------------------------------------------
(* A pipe implements ByteStream.                                           *)

\* A write accepts bytes, or leaves the stream alone when the pipe is full.
LEMMA WriteAccepts ==
  ASSUME StreamInv, TypeOK', Stream', NEW x \in Ptr, NEW len \in Lengths, Writes(x, len)
  PROVE  PipeStream!Accept(x) \/ UNCHANGED <<accepted, delivered>>
<1> DEFINE n == Accepted(x, len)
           a == accepted[x]
<1>1. /\ n \in Seq(Nat) /\ a \in Seq(Nat)
      /\ accepted \in [Ptr -> Seq(Nat)] /\ delivered \in [Ptr -> Seq(Nat)]
  BY AcceptedBytes DEF StreamInv, Stream
<1>2. accepted' = [accepted EXCEPT ![x] = a \o n] /\ delivered' = delivered
  BY DEF Writes
<1> HIDE DEF n
<1>3. CASE n = <<>>
  <2>1. a \o n = a
    BY <1>1, <1>3, ConcatEmptySeq
  <2> QED
    BY <1>1, <1>2, <2>1
<1>4. CASE n # <<>>
  <2>1. accepted'[x] = a \o n
    BY <1>1, <1>2
  <2>2. accepted' = [accepted EXCEPT ![x] = accepted'[x]]
    BY <1>2, <2>1
  <2>3. Len(a \o n) = Len(a) + Len(n) /\ Len(a) \in Nat /\ Len(n) \in Nat /\ Len(n) # 0
    <3>1. Len(a \o n) = Len(a) + Len(n)
      BY <1>1, ConcatProperties
    <3>2. Len(a) \in Nat /\ Len(n) \in Nat /\ Len(n) # 0
      BY <1>1, <1>4, EmptySeq
    <3> QED
      BY <3>1, <3>2
  <2>4. Len(accepted'[x]) > Len(accepted[x])
    BY <2>1, <2>3
  <2>5. SubSeq(accepted'[x], 1, Len(accepted[x])) = accepted[x]
    BY <1>1, <2>1, FirstPart
  <2>6. Len(accepted'[x]) - Len(delivered'[x]) <= PIPE_BUFFER_LEN
    <3> DEFINE b == buf'[x]
               d == delivered'[x]
    <3>1. b \in Seq(Nat) /\ d \in Seq(Nat) /\ accepted'[x] = d \o b
      BY DEF Stream
    <3>2. Len(b) <= PIPE_BUFFER_LEN
      BY DEF TypeOK
    <3> HIDE DEF b, d
    <3>3. Len(d \o b) = Len(d) + Len(b)
      BY <3>1, ConcatProperties
    <3>4. Len(d) \in Nat /\ Len(b) \in Nat /\ PIPE_BUFFER_LEN \in Nat
      BY <3>1, PipeAssumption
    <3>5. Len(d \o b) - Len(d) <= PIPE_BUFFER_LEN
      BY <3>2, <3>3, <3>4
    <3> QED
      BY <3>1, <3>5 DEF d
  <2> QED
    BY <1>2, <2>2, <2>4, <2>5, <2>6 DEF PipeStream!Accept, PipeStream!InTransit
<1> QED
  BY <1>3, <1>4

\* A read delivers the oldest bytes in transit.
LEMMA ReadDelivers ==
  ASSUME StreamInv, NEW x \in Ptr, NEW len \in Lengths, ReadNow(x, len)
  PROVE  PipeStream!Deliver(x) \/ UNCHANGED <<accepted, delivered>>
<1> DEFINE k == Amount(x, len)
           f == SubSeq(buf[x], 1, k)
           t == Taken(x, len)
           d == delivered[x]
           a == accepted[x]
<1>0. len \in Nat /\ Stream
  BY DEF StreamInv, Lengths
<1>1. /\ f \in Seq(Nat) /\ t \in Seq(Nat) /\ d \in Seq(Nat) /\ buf[x] \in Seq(Nat)
      /\ k \in 0 .. Len(buf[x]) /\ Len(f) = k
      /\ buf[x] = f \o t /\ a = d \o buf[x]
  BY <1>0, TakenBytes DEF Stream
<1>2. delivered' = [delivered EXCEPT ![x] = d \o f] /\ accepted' = accepted
  BY DEF ReadNow, Amount
<1> HIDE DEF k, f, t
<1>3. CASE k = 0
  <2>1. f = <<>>
    BY <1>1, <1>3, EmptySeq
  <2>2. d \o f = d
    BY <1>1, <2>1, ConcatEmptySeq
  <2> QED
    BY <1>0, <1>2, <2>2 DEF Stream
<1>4. CASE k # 0
  <2>1. Len(d) + k = Len(d \o f) /\ d \o f \in Seq(Nat)
    BY <1>1, ConcatProperties
  <2>2. a = (d \o f) \o t
    <3>0. d \in Seq(Nat) /\ f \in Seq(Nat) /\ t \in Seq(Nat)
      BY <1>1
    <3>1. \A u, v, w \in Seq(Nat) : (u \o v) \o w = u \o (v \o w)
      BY Regroup, SMTT(40)
    <3>2. a = d \o (f \o t)
      BY <1>1, Zenon
    <3> QED
      BY <3>0, <3>1, <3>2, Zenon
  <2>3. SubSeq(a, 1, Len(d) + k) = d \o f
    <3> DEFINE df == d \o f
    <3>1. df \in Seq(Nat) /\ t \in Seq(Nat)
      BY <1>1, <2>1
    <3> HIDE DEF df
    <3>2. SubSeq(df \o t, 1, Len(df)) = df
      BY <3>1, FirstPart
    <3> QED
      BY <2>1, <2>2, <3>2 DEF df
  <2>4. k \in 1 .. Len(a) - Len(d)
    <3> DEFINE b == buf[x]
    <3>1. Len(a) = Len(d) + Len(b)
      BY <1>1, ConcatProperties
    <3>2. Len(d) \in Nat /\ Len(b) \in Nat
      BY <1>1
    <3>3. k \in 0 .. Len(b)
      BY <1>1
    <3> HIDE DEF b, a, d
    <3> QED
      BY <1>4, <3>1, <3>2, <3>3
  <2>5. delivered' = [delivered EXCEPT ![x] = SubSeq(accepted[x], 1, Len(@) + k)]
    BY <1>2, <2>3
  <2> QED
    BY <1>2, <2>4, <2>5 DEF PipeStream!Deliver, PipeStream!InTransit
<1> QED
  BY <1>3, <1>4

\* KernelPipeRead and KernelPipeWrite make of every pipe a stream of bytes:
\* what is read is what was written, in order, nothing lost and nothing twice,
\* never more than PIPE_BUFFER_LEN in between, whoever reads and writes.
THEOREM PipeIsStreamCorrect == Spec => PipeIsStream
<1>1. Init => PipeStream!Init
  BY DEF Init, PipeStream!Init
<1>2. ASSUME StreamInv, StreamInv', [Next]_vars
      PROVE  [PipeStream!Next]_<<accepted, delivered>>
  <2>1. Kinds /\ Elems(pipes) \subseteq Ptr /\ TypeOK' /\ Stream'
    BY <1>2, StepKinds DEF StreamInv, TypeOK, Elems, Range
  <2>2. ASSUME NEW x \in Ptr, NEW len \in Lengths, Writes(x, len)
        PROVE  [PipeStream!Next]_<<accepted, delivered>>
    BY <1>2, <2>1, <2>2, WriteAccepts DEF PipeStream!Next
  <2>3. ASSUME NEW x \in Ptr, NEW len \in Lengths, ReadNow(x, len)
        PROVE  [PipeStream!Next]_<<accepted, delivered>>
    BY <1>2, <2>3, ReadDelivers DEF PipeStream!Next
  <2>4. ASSUME NEW x \in Ptr, NEW len \in Lengths, ReadBlock(x, len)
        PROVE  UNCHANGED <<accepted, delivered>>
    BY <2>4 DEF ReadBlock, history
  <2>5. CASE \/ Scheduling \/ KernelPipeInit \/ Reclaim \/ UNCHANGED vars
             \/ crashed' = TRUE /\ UNCHANGED <<sched, pipevars, pid, call, history>>
    BY <2>5 DEF Scheduling, KernelPipeInit, Reclaim, KernelReclaimPipe, vars, history
  <2> QED
    BY <2>1, <2>2, <2>3, <2>4, <2>5 DEF Kinds
<1> QED
  BY <1>1, <1>2, StreamInvariant, PTL DEF Spec, PipeIsStream, PipeStream!Spec

-----------------------------------------------------------------------------
(* Few waiters.                                                            *)

\* As long as nothing was crowded, those in blocked_q are the ones that wait to
\* read the only pipe, in the same order.
Reading(p) ==
  blocked_code[p] = BLOCKED_PIPE_READ /\ pc[p] = "piperead" /\ call[p].pipe = 1

OwnPids == \A p \in PCB : pid[p] = p

Codes == \A p \in PCB : blocked_code[p] \in {NOT_BLOCKED, BLOCKED_PIPE_READ}

Waits == \A p \in Elems(blocked_q) : Reading(p)

OneQueue ==
  /\ \A x \in Ptr : queue[x] = IF x = 1 THEN blocked_q ELSE <<>>
  /\ created = 0 => blocked_q = <<>>

\* A reader is on its way to the pipe.
ReaderComes ==
  \A x \in Ptr : buf[x] # <<>> /\ queue[x] # <<>> =>
    \E p \in {activePCB} \cup Elems(ready_q) : pc[p] = "piperead" /\ call[p].pipe = x

Calm == SchedOnce /\ OwnPids /\ Codes /\ Waits /\ OneQueue /\ ReaderComes

\* The inductive invariant, on top of StreamInv.
CalmInv == ~crowded => Calm /\ ~Crowded

\* What is not crowded.
LEMMA NotCrowded ==
  ASSUME TypeOK, ~Crowded
  PROVE  /\ created \in {0, 1}
         /\ \A p \in Elems(blocked_q) : blocked_code[p] # BLOCKED_DELAY
         /\ \A x \in Ptr : Len(queue[x]) \in {0, 1, 2}
<1>1. created \in Nat /\ ~(created > 1)
  BY PipeAssumption DEF TypeOK, Crowded
<1>2. ASSUME NEW x \in Ptr
      PROVE  Len(queue[x]) \in {0, 1, 2}
  <2>1. Len(queue[x]) \in Nat /\ ~(Len(queue[x]) > 2)
    BY DEF TypeOK, Crowded
  <2>2. \A k \in Nat : ~(k > 2) => k = 0 \/ k = 1 \/ k = 2
    OBVIOUS
  <2> QED
    BY <2>1, <2>2
<1>3. created \in {0, 1}
  BY <1>1
<1> QED
  BY <1>2, <1>3 DEF Crowded

\* What waking the head of blocked_q means.
WokenHead(s, q) ==
  IF q = <<>>
  THEN s.code = blocked_code /\ s.pid = pid /\ s.ready = ready_q /\ s.blocked = <<>>
       /\ s.waiters = <<>>
  ELSE /\ s.code = [blocked_code EXCEPT ![Head(q)] = NOT_BLOCKED] /\ s.pid = pid
       /\ s.ready = Append(ready_q, Head(q)) /\ s.blocked = Tail(q) /\ s.waiters = Tail(q)

\* The head of blocked_q gets its own pid.
LEMMA OwnName ==
  ASSUME TypeOK, OwnPids, NEW w \in Proc
  PROVE  Renamed(NowWithPids, <<w>>, w) = pid
<1>1. pid \in [PCB -> PCB] /\ w \in PCB
  BY DEF TypeOK, PCB
<1>2. Elems(<<w>>) = {w}
  BY DEF Elems
<1>3. NowWithPids.pid = pid
  BY DEF NowWithPids
<1>4. Renamed(NowWithPids, <<w>>, w) = [p \in PCB |-> IF p \in {w} THEN pid[w] ELSE pid[p]]
  BY <1>2, <1>3 DEF Renamed
<1>5. \A p \in PCB : (IF p \in {w} THEN pid[w] ELSE pid[p]) = pid[p]
  BY <1>1
<1> QED
  BY <1>1, <1>4, <1>5

\* The parts of NowWithPids.
LEMMA NowParts ==
  ASSUME TypeOK
  PROVE  /\ NowWithPids \in WakeStates
         /\ NowWithPids.code = blocked_code /\ NowWithPids.pid = pid
         /\ NowWithPids.ready = ready_q /\ NowWithPids.blocked = blocked_q
         /\ NowWithPids.waiters = <<>>
<1>1. NowWithPids \in WakeStates
  BY NowWithPidsType
<1> QED
  BY <1>1 DEF NowWithPids

\* A read wakes the head of blocked_q.
LEMMA ReadWakesHead ==
  ASSUME TypeOK, OwnPids, NEW rest
  PROVE  WokenHead(AfterRead(rest, blocked_q), blocked_q)
<1> DEFINE q == blocked_q
           w == Head(q)
           b == PopSeq(q)
           N == NowWithPids
<1>1. /\ q \in Seq(Proc) /\ ready_q \in Seq(Proc)
      /\ N \in WakeStates /\ N.code = blocked_code /\ N.pid = pid /\ N.ready = ready_q
      /\ N.blocked = q /\ N.waiters = <<>>
  BY NowParts DEF TypeOK, SchedTypeOK
<1>2. CASE q = <<>>
  <2>1. AfterRead(rest, q) = N
    BY <1>2 DEF AfterRead
  <2> HIDE DEF N
  <2> QED
    BY <1>1, <1>2, <2>1 DEF WokenHead
<1>3. CASE q # <<>>
  <2>1. w \in Proc /\ b = <<w>> /\ AfterPop(q) = Tail(q)
    BY <1>1, <1>3, PopQueue DEF PopSeq, AfterPop
  <2>2. Renamed(N, b, w) = pid
    BY <2>1, OwnName
  <2> HIDE DEF w, b
  <2>3. ready_q \o b = Append(ready_q, w)
    BY <1>1, <2>1
  <2>7. WakeReader(q) = [N EXCEPT !.code = [N.code EXCEPT ![w] = NOT_BLOCKED],
                         !.pid = Renamed(N, b, w), !.ready = Append(N.ready, w),
                         !.blocked = AfterPop(N.blocked), !.waiters = Tail(q)]
    BY <1>1 DEF WakeReader, w, b, WakeStates
  <2>8. WakeWriter(q) = [N EXCEPT !.code = [N.code EXCEPT ![w] = NOT_BLOCKED],
                         !.pid = Renamed(N, b, w), !.ready = N.ready \o b,
                         !.blocked = AfterPop(N.blocked), !.waiters = Tail(q)]
    BY <1>1 DEF WakeWriter, w, b, WakeStates
  <2> HIDE DEF N
  <2>9. AfterRead(rest, q) = [N EXCEPT !.code = [blocked_code EXCEPT ![w] = NOT_BLOCKED],
                              !.pid = pid, !.ready = Append(ready_q, w),
                              !.blocked = Tail(q), !.waiters = Tail(q)]
    BY <1>1, <1>3, <2>1, <2>2, <2>3, <2>7, <2>8 DEF AfterRead
  <2> QED
    BY <1>1, <1>3, <2>9 DEF WokenHead, w, WakeStates
<1> QED
  BY <1>2, <1>3

\* So does a write, as long as no more than two wait.
LEMMA WriteWakesHead ==
  ASSUME TypeOK, OwnPids, Len(blocked_q) \in {0, 1, 2}
  PROVE  WokenHead(Broadcast(blocked_q), blocked_q)
<1> DEFINE q == blocked_q
           w == Head(q)
           N == NowWithPids
<1>1. /\ q \in Seq(Proc) /\ ready_q \in Seq(Proc)
      /\ N \in WakeStates /\ N.code = blocked_code /\ N.pid = pid /\ N.ready = ready_q
      /\ N.blocked = q /\ N.waiters = <<>>
  BY NowParts DEF TypeOK, SchedTypeOK
<1>2. PICK f \in [0 .. HalfOf(q) -> WakeStates] :
         /\ f[0] = N
         /\ \A i \in 1 .. HalfOf(q) : f[i] = WakeHalf(f[i - 1], q[i])
         /\ Broadcast(q) = [f[HalfOf(q)] EXCEPT !.waiters = SubSeq(q, HalfOf(q) + 1, Len(q))]
  BY <1>1, BroadcastRuns
<1>3. CASE q = <<>>
  <2>1. Len(q) = 0 /\ HalfOf(q) = 0
    BY <1>3 DEF HalfOf
  <2>2. SubSeq(q, 1, 0) = <<>>
    BY <1>1
  <2>3. Broadcast(q) = [N EXCEPT !.waiters = <<>>]
    BY <1>2, <2>1, <2>2
  <2> HIDE DEF N
  <2> QED
    BY <1>1, <1>3, <2>3 DEF WokenHead, WakeStates
<1>4. CASE q # <<>>
  <2> DEFINE l == Len(q)
  <2>1. l = 1 \/ l = 2
    BY <1>1, <1>4
  <2>2. HalfOf(q) = 1
    <3>1. HalfOf(q) = (l + 1) \div 2
      BY DEF HalfOf
    <3> HIDE DEF l
    <3>2. CASE l = 1
      BY <3>1, <3>2
    <3>3. CASE l = 2
      BY <3>1, <3>3
    <3> QED
      BY <2>1, <3>2, <3>3
  <2>3. w \in Proc /\ w = q[1] /\ Tail(q) = SubSeq(q, 2, Len(q)) /\ <<w>> = SubSeq(q, 1, 1)
    <3>1. w \in Proc /\ w = q[1]
      BY <1>1, <1>4, PopQueue
    <3>2. Tail(q) = SubSeq(q, 2, Len(q))
      BY <1>1, <1>4, TailIsSubSeq
    <3>3. <<w>> = SubSeq(q, 1, 1)
      BY <1>1, <2>1, <3>1
    <3> QED
      BY <3>1, <3>2, <3>3
  <2>7. Renamed(N, <<w>>, w) = pid
    BY <2>3, OwnName
  <2> HIDE DEF w, N, q
  <2>4. f[1] = WakeHalf(N, w)
    <3>1. 1 \in 1 .. HalfOf(q) /\ 1 - 1 = 0
      BY <2>2
    <3> QED
      BY <1>2, <2>3, <3>1
  <2>5. Broadcast(q) = [WakeHalf(N, w) EXCEPT !.waiters = Tail(q)]
    <3>1. HalfOf(q) + 1 = 2
      BY <2>2
    <3>2. SubSeq(q, HalfOf(q) + 1, Len(q)) = Tail(q) /\ f[HalfOf(q)] = WakeHalf(N, w)
      BY <2>2, <2>3, <2>4, <3>1
    <3> QED
      BY <1>2, <3>2
  <2>6. WakeHalf(N, w) = [N EXCEPT !.code = [blocked_code EXCEPT ![w] = NOT_BLOCKED],
                          !.pid = pid, !.blocked = Tail(q), !.ready = ready_q \o <<w>>]
    <3> DEFINE b == SubSeq(N.blocked, 1, HalfOf(N.blocked))
               r == SubSeq(N.blocked, HalfOf(N.blocked) + 1, Len(N.blocked))
    <3>0. N.blocked = q /\ HalfOf(q) + 1 = 2
      BY <1>1, <2>2
    <3>1. b = <<w>> /\ r = Tail(q)
      BY <2>2, <2>3, <3>0
    <3> HIDE DEF b, r
    <3>2. WakeHalf(N, w) = [N EXCEPT !.code = [N.code EXCEPT ![w] = NOT_BLOCKED],
                            !.pid = Renamed(N, b, w), !.blocked = r, !.ready = N.ready \o b]
      BY DEF WakeHalf, b, r
    <3> QED
      BY <1>1, <2>7, <3>1, <3>2
  <2>8. ready_q \o <<w>> = Append(ready_q, w)
    BY <1>1, <2>3
  <2>9. Broadcast(q) = [N EXCEPT !.code = [blocked_code EXCEPT ![w] = NOT_BLOCKED],
                        !.pid = pid, !.blocked = Tail(q), !.ready = Append(ready_q, w),
                        !.waiters = Tail(q)]
    BY <1>1, <2>5, <2>6, <2>8 DEF WakeStates
  <2>10. WokenHead(Broadcast(q), q)
    BY <1>1, <1>4, <2>9 DEF WokenHead, w, WakeStates
  <2> QED
    BY <2>10 DEF q
<1> QED
  BY <1>3, <1>4

-----------------------------------------------------------------------------
(* Calm is kept.                                                           *)

\* The scheduler leaves blocked_q alone, but for a Delay.
LEMMA CalmScheduling ==
  ASSUME StreamInv, Calm, ~Crowded', Scheduling
  PROVE  Calm'
<1> USE DEF StreamInv
<1>0. /\ SchedTypeOK({"piperead"}) /\ SchedStep({}) /\ Now \in States
      /\ blocked_q \in Seq(Proc) /\ blocked_code \in [PCB -> BlockedCodes] /\ activePCB \in PCB
      /\ UNCHANGED <<pipes, created, id, buf, queue, pid, call>>
  BY NowTyped DEF TypeOK, SchedTypeOK, Scheduling, SchedStep, pipevars
<1>1. \A p \in PCB : blocked_code[p] # BLOCKED_TTY_TRANSMIT
  BY DEF Calm, Codes, NOT_BLOCKED, BLOCKED_PIPE_READ, BLOCKED_TTY_TRANSMIT
<1>2. SchedOnce' /\ Elems(ready_q) \subseteq Elems(ready_q') \cup {activePCB'}
  BY <1>0, <1>1, SchedStepMembers DEF Calm
<1>3. /\ pc[activePCB] \in {"user", "start", "clock", "delay"}
      /\ \A p \in PCB : p # activePCB => pc'[p] = pc[p]
  BY <1>0, SchedStepContext
<1>4. UNCHANGED <<blocked_q, blocked_code>>
  <2>1. Scanned({}) = Now
    <3>1. \A p \in Elems(blocked_q) : blocked_code[p] \notin {BLOCKED_DELAY, BLOCKED_TTY_TRANSMIT}
      BY DEF Calm, Waits, Reading, BLOCKED_DELAY, BLOCKED_PIPE_READ, BLOCKED_TTY_TRANSMIT
    <3> QED
      BY <1>0, <3>1, ScanKeeps
  <2>2. Now.blocked = blocked_q /\ Now.code = blocked_code
    BY DEF Now
  <2>3. ScanBlocked({}) => UNCHANGED <<blocked_q, blocked_code>>
    BY <2>1, <2>2 DEF ScanBlocked
  <2>4. ~Delay
    <3> SUFFICES ASSUME NEW n \in 0 .. MaxDelay, KernelDelay(n)
                 PROVE  FALSE
      BY DEF Delay
    <3>1. /\ blocked_code' = [blocked_code EXCEPT ![activePCB] = BLOCKED_DELAY]
          /\ blocked_q' = Joined(blocked_q) /\ activePCB # idle
      BY <1>0 DEF KernelDelay, UserProgram
    <3>2. activePCB \in Elems(blocked_q') /\ blocked_code'[activePCB] = BLOCKED_DELAY
      BY <1>0, <3>1, JoinQueue
    <3> QED
      BY <3>2 DEF Crowded
  <2> QED
    BY <1>0, <2>3, <2>4 DEF SchedStep, TrapClock, TrapClockIdle, ResumeClock, ResumeUser
<1>5. Elems(blocked_q) \subseteq PCB /\ activePCB \in PCB /\ Elems(ready_q) \subseteq PCB
  BY <1>0, QueueHolds DEF SchedTypeOK, PCB
<1>6. OwnPids' /\ Codes' /\ OneQueue'
  BY <1>0, <1>4 DEF Calm, OwnPids, Codes, OneQueue
<1>7. Waits'
  <2>1. ASSUME NEW p \in Elems(blocked_q)
        PROVE  Reading(p)'
    <3>1. p # activePCB /\ p \in PCB
      BY <1>5 DEF Calm, SchedOnce
    <3> QED
      BY <1>0, <1>3, <1>4, <3>1 DEF Calm, Waits, Reading
  <2> QED
    BY <1>4, <2>1 DEF Waits
<1>8. ReaderComes'
  <2> SUFFICES ASSUME NEW x \in Ptr, buf[x] # <<>>, queue[x] # <<>>
               PROVE  \E p \in {activePCB'} \cup Elems(ready_q') :
                        pc'[p] = "piperead" /\ call'[p].pipe = x
    BY <1>0 DEF ReaderComes
  <2>1. PICK p \in {activePCB} \cup Elems(ready_q) : pc[p] = "piperead" /\ call[p].pipe = x
    BY DEF Calm, ReaderComes
  <2>2. p # activePCB /\ p \in Elems(ready_q) /\ p \in PCB
    BY <1>3, <1>5, <2>1
  <2> QED
    BY <1>0, <1>2, <1>3, <2>1, <2>2
<1> QED
  BY <1>2, <1>6, <1>7, <1>8 DEF Calm

\* A new pipe has no waiters.
LEMMA CalmInit ==
  ASSUME StreamInv, Calm, ~Crowded', KernelPipeInit
  PROVE  Calm'
<1>0. /\ UNCHANGED <<sched, buf, queue, pid, call>> /\ created' = created + 1
      /\ created \in Nat /\ ~(created' > 1)
  BY DEF KernelPipeInit, add_pipe, StreamInv, PipeList, Crowded
<1>1. created = 0 /\ created' # 0
  BY <1>0
<1>2. blocked_q = <<>>
  BY <1>1 DEF Calm, OneQueue
<1>3. ReaderComes'
  BY <1>0, <1>2 DEF Calm, OneQueue, ReaderComes
<1>4. OneQueue'
  BY <1>0, <1>1 DEF Calm, OneQueue, sched
<1>5. SchedOnce' /\ OwnPids' /\ Codes' /\ Waits'
  BY <1>0 DEF Calm, sched, SchedOnce, OwnPids, Codes, Waits, Reading
<1> QED
  BY <1>3, <1>4, <1>5 DEF Calm

\* The head of blocked_q becomes ready, and is on its way to the pipe.
LEMMA CalmWaking ==
  ASSUME StreamInv, Calm, created = 1, activePCB \in Proc, 1 \in Ptr,
         NEW s, WokenHead(s, blocked_q), Woken(1, s),
         UNCHANGED <<activePCB, created>>,
         \A p \in PCB \ {activePCB} : pc'[p] = pc[p] /\ call'[p] = call[p]
  PROVE  Calm'
<1> DEFINE q == blocked_q
           w == Head(q)
<1>0. /\ q \in Seq(Proc) /\ ready_q \in Seq(Proc) /\ blocked_code \in [PCB -> BlockedCodes]
      /\ queue \in [Ptr -> Seq(Proc)] /\ SchedOnce
      /\ Elems(q) \subseteq Proc /\ Elems(ready_q) \subseteq Proc /\ Proc \subseteq PCB
  BY QueueHolds DEF StreamInv, TypeOK, SchedTypeOK, Calm, PCB
<1>1. /\ queue' = [queue EXCEPT ![1] = s.waiters]
      /\ blocked_code' = s.code /\ pid' = s.pid
      /\ ready_q' = s.ready /\ blocked_q' = s.blocked
  BY DEF Woken
<1>2. CASE q = <<>>
  <2>1. /\ queue' = [queue EXCEPT ![1] = <<>>] /\ blocked_q' = <<>>
        /\ UNCHANGED <<blocked_code, pid, ready_q, activePCB>>
    BY <1>1, <1>2 DEF WokenHead
  <2>2. \A x \in Ptr : queue'[x] = <<>>
    BY <1>0, <1>2, <2>1 DEF Calm, OneQueue
  <2>3. Elems(<<>>) = {}
    BY DEF Elems
  <2>4. SchedOnce' /\ OwnPids' /\ Codes'
    BY <1>2, <2>1 DEF Calm, SchedOnce, OwnPids, Codes
  <2>5. Waits' /\ OneQueue' /\ ReaderComes'
    BY <2>1, <2>2, <2>3 DEF Waits, OneQueue, ReaderComes
  <2> QED
    BY <2>4, <2>5 DEF Calm
<1>3. CASE q # <<>>
  <2>1. /\ queue' = [queue EXCEPT ![1] = Tail(q)] /\ blocked_q' = Tail(q)
        /\ blocked_code' = [blocked_code EXCEPT ![w] = NOT_BLOCKED]
        /\ pid' = pid /\ ready_q' = Append(ready_q, w) /\ activePCB' = activePCB
    BY <1>1, <1>3 DEF WokenHead
  <2>2. /\ w \in Elems(q) /\ w \in Proc /\ Tail(q) \in Seq(Proc)
        /\ Elems(q) = Elems(Tail(q)) \cup {w} /\ NoDup(Tail(q)) /\ w \notin Elems(Tail(q))
    BY <1>0, <1>3, PopQueue DEF SchedOnce
  <2>3. /\ w \notin Elems(ready_q) /\ w # activePCB
        /\ Elems(Tail(q)) \cap Elems(ready_q) = {} /\ activePCB \notin Elems(Tail(q))
    BY <1>0, <2>2 DEF SchedOnce
  <2> HIDE DEF w
  <2>4. /\ Elems(Append(ready_q, w)) = Elems(ready_q) \cup {w} /\ NoDup(Append(ready_q, w))
    BY <1>0, <2>2, <2>3, AppendQueue DEF SchedOnce
  <2>5. SchedOnce'
    BY <1>0, <2>1, <2>2, <2>3, <2>4 DEF SchedOnce
  <2>6. OwnPids' /\ Codes'
    BY <1>0, <2>1, <2>2 DEF Calm, OwnPids, Codes
  <2>7. Waits'
    <3>1. ASSUME NEW p \in Elems(Tail(q))
          PROVE  Reading(p)'
      <4>1. p \in PCB \ {activePCB} /\ p # w /\ Reading(p)
        BY <1>0, <2>2, <2>3 DEF Calm, Waits
      <4> QED
        BY <1>0, <2>1, <2>2, <4>1 DEF Reading
    <3> QED
      BY <2>1, <3>1 DEF Waits
  <2>8. OneQueue'
    BY <1>0, <2>1 DEF Calm, OneQueue
  <2>9. ReaderComes'
    <3>1. \A x \in Ptr : queue'[x] # <<>> => x = 1
      BY <2>8 DEF OneQueue
    <3>2. w \in Elems(ready_q') /\ pc'[w] = "piperead" /\ call'[w].pipe = 1
      <4>1. Reading(w) /\ w \in PCB \ {activePCB}
        BY <1>0, <2>2, <2>3 DEF Calm, Waits
      <4> QED
        BY <2>1, <2>4, <4>1 DEF Reading
    <3> QED
      BY <3>1, <3>2 DEF ReaderComes
  <2> QED
    BY <2>5, <2>6, <2>7, <2>8, <2>9 DEF Calm
<1> QED
  BY <1>2, <1>3

\* A reader joins the end of both queues.
LEMMA CalmBlocking ==
  ASSUME StreamInv, Calm, created = 1, activePCB \in Proc, 1 \in Ptr,
         NEW len, buf[1] = <<>>, ReadBlock(1, len)
  PROVE  Calm'
<1> DEFINE q == blocked_q
           me == activePCB
           a == PopOr(ready_q, idle)
           r == AfterPop(ready_q)
<1>0. /\ q \in Seq(Proc) /\ ready_q \in Seq(Proc) /\ blocked_code \in [PCB -> BlockedCodes]
      /\ pc \in [PCB -> {"user", "start", "clock", "delay", "piperead"}]
      /\ DOMAIN call = PCB /\ me \in PCB /\ me # idle
      /\ queue \in [Ptr -> Seq(Proc)] /\ SchedOnce
      /\ Elems(q) \subseteq Proc /\ Elems(ready_q) \subseteq Proc /\ idle \notin Proc
      /\ Proc \subseteq PCB
  BY QueueHolds DEF StreamInv, TypeOK, SchedTypeOK, Calm, PCB, Proc, idle
<1>1. /\ a \in PCB /\ r \in Seq(Proc) /\ Elems(ready_q) = (Elems(r) \cup {a}) \ {idle}
      /\ NoDup(r) /\ a \notin Elems(r) /\ Elems(r) \subseteq Elems(ready_q)
  BY <1>0, PopNext DEF SchedOnce
<1>2. /\ blocked_code' = [blocked_code EXCEPT ![me] = BLOCKED_PIPE_READ]
      /\ queue' = [queue EXCEPT ![1] = Append(queue[1], me)] /\ blocked_q' = Append(q, me)
      /\ activePCB' = a /\ ready_q' = r /\ pc' = [pc EXCEPT ![me] = "piperead"]
      /\ call' = [call EXCEPT ![me] = [pipe |-> 1, len |-> len]]
      /\ buf' = buf /\ pid' = pid /\ created' = created
  BY <1>0 DEF ReadBlock, SwapProcess, Joined
<1> HIDE DEF a, r
<1>3. Elems(Append(q, me)) = Elems(q) \cup {me} /\ NoDup(Append(q, me))
  BY <1>0, AppendQueue DEF SchedOnce
<1>4. SchedOnce'
  <2>1. a \notin Elems(blocked_q')
    BY <1>0, <1>1, <1>2, <1>3 DEF SchedOnce
  <2>2. Elems(ready_q') \cap Elems(blocked_q') = {}
    BY <1>0, <1>1, <1>2, <1>3 DEF SchedOnce
  <2> QED
    BY <1>1, <1>2, <1>3, <2>1, <2>2 DEF SchedOnce
<1>5. OwnPids' /\ Codes'
  BY <1>0, <1>2 DEF Calm, OwnPids, Codes
<1>6. Waits'
  <2>1. \A p \in {me} : Reading(p)'
    BY <1>0, <1>2 DEF Reading
  <2>2. ASSUME NEW p \in Elems(q)
        PROVE  Reading(p)'
    <3>1. p # me /\ p \in PCB /\ Reading(p)
      BY <1>0 DEF Calm, SchedOnce, Waits
    <3> QED
      BY <1>0, <1>2, <3>1 DEF Reading
  <2>3. \A p \in Elems(q) \cup {me} : Reading(p)'
    BY <2>1, <2>2
  <2> QED
    BY <1>2, <1>3, <2>3 DEF Waits
<1>7. OneQueue'
  BY <1>0, <1>2 DEF Calm, OneQueue
<1>8. ReaderComes'
  <2>1. \A x \in Ptr : queue'[x] # <<>> => x = 1
    BY <1>7 DEF OneQueue
  <2> QED
    BY <1>2, <2>1 DEF ReaderComes
<1> QED
  BY <1>4, <1>5, <1>6, <1>7, <1>8 DEF Calm

LEMMA CalmStep ==
  ASSUME StreamInv, Calm, ~Crowded, ~Crowded', Kinds
  PROVE  Calm'
<1>0. /\ TypeOK /\ PipeList /\ created \in {0, 1} /\ pipes \in Seq(Ptr)
      /\ call \in [PCB -> [pipe : 0 .. MaxPipes, len : 0 .. PIPE_BUFFER_LEN]]
      /\ pc \in [PCB -> {"user", "start", "clock", "delay", "piperead"}]
      /\ \A x \in Ptr : Len(queue[x]) \in {0, 1, 2}
  BY NotCrowded DEF StreamInv, TypeOK, SchedTypeOK, PipeList
<1>1. CASE Scheduling
  BY <1>1, CalmScheduling
<1>2. CASE KernelPipeInit
  BY <1>2, CalmInit
<1>3. CASE \/ Reclaim \/ UNCHANGED vars
           \/ crashed' = TRUE /\ UNCHANGED <<sched, pipevars, pid, call, history>>
  <2>1. UNCHANGED <<sched, created, buf, queue, pid, call>>
    BY <1>3 DEF Reclaim, KernelReclaimPipe, vars, pipevars
  <2> QED
    BY <2>1 DEF Calm, sched, SchedOnce, OwnPids, Codes, Waits, Reading, OneQueue,
       ReaderComes
<1>4. ASSUME NEW x \in Elems(pipes)
      PROVE  x = 1 /\ created = 1 /\ 1 \in Ptr /\ queue[1] = blocked_q
  <2>1. x \in Ptr /\ x <= created
    BY <1>0 DEF PipeList, Elems
  <2>2. x = 1 /\ created = 1
    BY <1>0, <2>1 DEF Ptr
  <2> QED
    BY <2>1, <2>2 DEF Calm, OneQueue
<1>5. ASSUME NEW x \in Elems(pipes), NEW len \in Lengths, InRead(x), ReadNow(x, len)
      PROVE  Calm'
  <2> DEFINE s == AfterRead(Taken(x, len), queue[x])
  <2>1. /\ Woken(x, s) /\ activePCB \in Proc
        /\ UNCHANGED <<activePCB, created>>
        /\ \A p \in PCB \ {activePCB} : pc'[p] = pc[p] /\ call'[p] = call[p]
    BY <1>0, <1>5 DEF ReadNow, InRead, ToUser
  <2>2. x = 1 /\ created = 1 /\ 1 \in Ptr /\ queue[1] = blocked_q
    BY <1>4
  <2>3. WokenHead(s, blocked_q)
    BY <1>0, <2>2, ReadWakesHead DEF Calm
  <2> HIDE DEF s
  <2> QED
    BY <2>1, <2>2, <2>3, CalmWaking
<1>6. ASSUME NEW x \in Elems(pipes), NEW len \in Lengths, Writes(x, len)
      PROVE  Calm'
  <2> DEFINE s == Broadcast(queue[x])
  <2>1. /\ Woken(x, s) /\ activePCB \in Proc
        /\ UNCHANGED <<activePCB, created>>
        /\ \A p \in PCB \ {activePCB} : pc'[p] = pc[p] /\ call'[p] = call[p]
    BY <1>6 DEF Writes
  <2>2. x = 1 /\ created = 1 /\ 1 \in Ptr /\ queue[1] = blocked_q
    BY <1>4
  <2>3. WokenHead(s, blocked_q)
    BY <1>0, <2>2, WriteWakesHead DEF Calm
  <2> HIDE DEF s
  <2> QED
    BY <2>1, <2>2, <2>3, CalmWaking
<1>7. ASSUME NEW x \in Elems(pipes), NEW len \in Lengths, InRead(x), buf[x] = <<>>,
             ReadBlock(x, len)
      PROVE  Calm'
  <2>1. created' = created /\ activePCB \in Proc
    BY <1>7 DEF ReadBlock, InRead
  <2>2. x = 1 /\ created = 1 /\ 1 \in Ptr
    BY <1>4
  <2> QED
    BY <1>7, <2>1, <2>2, CalmBlocking
<1> QED
  BY <1>1, <1>2, <1>3, <1>5, <1>6, <1>7 DEF Kinds

LEMMA CalmHolds == Spec => []CalmInv
<1>1. Init => CalmInv
  <2> SUFFICES ASSUME Init
               PROVE  Calm /\ ~Crowded
    BY DEF CalmInv
  <2> DEFINE r == [i \in Proc |-> i]
  <2>1. Elems(<<>>) = {} /\ NoDup(<<>>)
    BY DEF Elems, NoDup
  <2>2. Elems(r) = Proc /\ NoDup(r) /\ idle \notin Proc
    BY DEF Elems, NoDup, idle, Proc
  <2>3. SchedOnce
    BY <2>1, <2>2 DEF Init, SchedInit, SchedOnce
  <2>4. OwnPids /\ Codes
    BY DEF Init, SchedInit, OwnPids, Codes
  <2>5. Waits /\ OneQueue /\ ReaderComes
    BY <2>1 DEF Init, SchedInit, Waits, OneQueue, ReaderComes
  <2>6. ~Crowded
    <3>1. created = 0 /\ blocked_q = <<>> /\ \A x \in Ptr : queue[x] = <<>>
      BY DEF Init, SchedInit
    <3>2. ~(Len(<<>>) > 2) /\ ~(0 > 1)
      OBVIOUS
    <3> QED
      BY <2>1, <3>1, <3>2 DEF Crowded
  <2> QED
    BY <2>3, <2>4, <2>5, <2>6 DEF Calm
<1>2. ASSUME StreamInv, CalmInv, [Next]_vars
      PROVE  CalmInv'
  <2>1. CASE Next
    <3> SUFFICES ASSUME ~crowded'
                 PROVE  Calm' /\ ~Crowded'
      BY DEF CalmInv
    <3>1. ~crowded /\ ~Crowded'
      BY <2>1 DEF Next
    <3>2. Calm /\ ~Crowded
      BY <1>2, <3>1 DEF CalmInv
    <3> QED
      BY <1>2, <3>1, <3>2, CalmStep, StepKinds DEF StreamInv
  <2>2. CASE UNCHANGED vars
    <3>1. Calm => Calm'
      BY <2>2 DEF vars, pipevars, sched, Calm, SchedOnce, OwnPids, Codes, Waits, Reading,
         OneQueue, ReaderComes
    <3>2. Crowded' => Crowded
      BY <2>2 DEF vars, pipevars, sched, Crowded
    <3>3. crowded' = crowded
      BY <2>2 DEF vars
    <3> QED
      BY <1>2, <3>1, <3>2, <3>3 DEF CalmInv
  <2> QED
    BY <1>2, <2>1, <2>2
<1> QED
  BY <1>1, <1>2, StreamInvariant, PTL DEF Spec

\* Whoever waits to read a pipe that has bytes has a woken reader before it:
\* KernelPipeWrite and KernelPipeRead lose no wake-up until a second pipe is
\* made, a process delays itself or a third one waits, for any number of
\* processes, whatever the buffer and the lengths.
THEOREM NoLostReaderCorrect == Spec => []NoLostReader
<1>1. CalmInv => NoLostReader
  BY DEF CalmInv, Calm, ReaderComes, NoLostReader
<1> QED
  BY <1>1, CalmHolds, PTL

\* The assignments in the place of tests give every process its own pid until
\* then, and every variable keeps its type throughout.
THEOREM PidsKeptCorrect == Spec => []PidsKept
<1>1. StreamInv /\ CalmInv => PidsKept
  BY DEF StreamInv, CalmInv, Calm, OwnPids, PidsKept
<1> QED
  BY <1>1, StreamInvariant, CalmHolds, PTL

=============================================================================
