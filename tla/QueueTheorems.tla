--------------------------- MODULE QueueTheorems ----------------------------
(***************************************************************************)
(* What the queue operators return: their types, their elements, and that  *)
(* they introduce no duplicates.                                           *)
(***************************************************************************)
EXTENDS QueueOps, FiniteSetTheorems, FunctionTheorems, SequenceTheorems, TLAPS

\* Ranks number the members of a finite set of positions from 1 to its size.
LEMMA RankBijection ==
  ASSUME NEW n \in Nat, NEW I \in SUBSET (1 .. n)
  PROVE  /\ IsFiniteSet(I) /\ Cardinality(I) \in Nat
         /\ \A i \in I : Rank(I, i) \in 1 .. Cardinality(I)
         /\ \A i, j \in I : i < j => Rank(I, i) < Rank(I, j)
         /\ \A i, j \in I : Rank(I, i) = Rank(I, j) => i = j
         /\ \A k \in 1 .. Cardinality(I) : \E i \in I : Rank(I, i) = k
<1> DEFINE Below(i) == {j \in I : j <= i}
           f == [i \in I |-> Rank(I, i)]
           N == 1 .. Cardinality(I)
<1>0. I \subseteq Int
  OBVIOUS
<1>1. IsFiniteSet(I) /\ Cardinality(I) \in Nat
  <2>1. IsFiniteSet(1 .. n)
    BY FS_Interval
  <2>2. IsFiniteSet(I)
    BY <2>1, FS_Subset
  <2> QED
    BY <2>2, FS_CardinalityType
<1>2. ASSUME NEW i \in I
      PROVE  /\ IsFiniteSet(Below(i)) /\ Cardinality(Below(i)) \in Nat
             /\ Rank(I, i) \in 1 .. Cardinality(I)
  <2>1. Below(i) \in SUBSET I
    OBVIOUS
  <2>2. /\ IsFiniteSet(Below(i)) /\ Cardinality(Below(i)) <= Cardinality(I)
        /\ Cardinality(Below(i)) \in Nat
    BY <1>1, <2>1, FS_Subset, FS_CardinalityType
  <2>3. i \in Below(i)
    OBVIOUS
  <2>4. Cardinality(Below(i)) # 0
    BY <2>2, <2>3, FS_EmptySet
  <2> QED
    BY <1>1, <2>2, <2>4 DEF Rank
<1>3. ASSUME NEW i \in I, NEW j \in I, i < j
      PROVE  Rank(I, i) < Rank(I, j)
  <2>1. Below(i) \in SUBSET Below(j)
    <3> SUFFICES ASSUME NEW k \in I, k <= i
                 PROVE  k <= j
      OBVIOUS
    <3> QED
      BY <1>0, <1>3
  <2>2. j \in Below(j) /\ j \notin Below(i)
    BY <1>0, <1>3
  <2>3. /\ Cardinality(Below(i)) <= Cardinality(Below(j))
        /\ Cardinality(Below(j)) # Cardinality(Below(i))
    BY <1>2, <2>1, <2>2, FS_Subset
  <2> QED
    BY <1>2, <2>3 DEF Rank
<1>4. \A i, j \in I : Rank(I, i) = Rank(I, j) => i = j
  <2> SUFFICES ASSUME NEW i \in I, NEW j \in I, i # j
               PROVE  Rank(I, i) # Rank(I, j)
    OBVIOUS
  <2>1. i < j \/ j < i
    BY <1>0
  <2>2. Rank(I, i) \in Int /\ Rank(I, j) \in Int
    <3>1. Rank(I, i) \in 1 .. Cardinality(I)
      BY <1>2
    <3>2. Rank(I, j) \in 1 .. Cardinality(I)
      BY <1>2
    <3> QED
      BY <1>1, <3>1, <3>2
  <2>3. Rank(I, i) < Rank(I, j) \/ Rank(I, j) < Rank(I, i)
    BY <1>3, <2>1
  <2> QED
    BY <2>2, <2>3
<1>5. f \in Injection(I, N)
  BY <1>2, <1>4 DEF Injection, IsInjective
<1>6. IsFiniteSet(N) /\ Cardinality(N) = Cardinality(I)
  BY <1>1, FS_Interval
<1>7. f \in Surjection(I, N)
  BY <1>5, <1>6, FS_Injection
<1>8. \A k \in N : \E i \in I : Rank(I, i) = k
  BY <1>7 DEF Surjection
<1> QED
  BY <1>1, <1>2, <1>3, <1>4, <1>8

\* Keep(q, S) reads q at the positions a[1], ..., a[m]: those that hold
\* members of S, each once.
Reads(q, S, m, a) ==
  /\ Keep(q, S) = [k \in 1 .. m |-> q[a[k]]]
  /\ \A k, l \in 1 .. m : a[k] = a[l] => k = l
  /\ \A i \in DOMAIN q : q[i] \in S <=> \E k \in 1 .. m : i = a[k]

\* Such positions exist.
LEMMA KeepReads ==
  ASSUME NEW T, NEW q \in Seq(T), NEW S
  PROVE  \E m \in Nat : \E a \in [1 .. m -> DOMAIN q] : Reads(q, S, m, a)
<1> DEFINE I == Kept(q, S)
           m == Cardinality(I)
           a == [k \in 1 .. m |-> CHOOSE i \in I : Rank(I, i) = k]
<1>1. I \in SUBSET (1 .. Len(q)) /\ Len(q) \in Nat
  BY DEF Kept
<1>2. /\ m \in Nat
      /\ \A i \in I : Rank(I, i) \in 1 .. m
      /\ \A i, j \in I : Rank(I, i) = Rank(I, j) => i = j
      /\ \A k \in 1 .. m : \E i \in I : Rank(I, i) = k
  <2> HIDE DEF I
  <2> QED BY <1>1, RankBijection
<1>3. \A k \in 1 .. m : a[k] \in I /\ Rank(I, a[k]) = k
  <2> HIDE DEF I, m
  <2> QED BY <1>2
<1>4. a \in [1 .. m -> DOMAIN q]
  <2>1. \A k \in 1 .. m : a[k] \in DOMAIN q
    BY <1>1, <1>3
  <2> HIDE DEF I, m
  <2> QED BY <2>1
<1>5. Keep(q, S) = [k \in 1 .. m |-> q[a[k]]]
  BY DEF Keep
<1>6. \A k, l \in 1 .. m : a[k] = a[l] => k = l
  <2> HIDE DEF I, m, a
  <2> QED BY <1>3
<1>7. \A i \in I : a[Rank(I, i)] = i
  <2> HIDE DEF I, m, a
  <2> QED BY <1>2, <1>3
<1>8. \A i \in DOMAIN q : q[i] \in S <=> i \in I
  BY DEF Kept
<1>9. \A i \in DOMAIN q : q[i] \in S <=> \E k \in 1 .. m : i = a[k]
  <2> HIDE DEF I, m, a
  <2> QED BY <1>2, <1>3, <1>7, <1>8
<1> HIDE DEF I, m, a
<1>10. Reads(q, S, m, a)
  BY <1>5, <1>6, <1>9 DEF Reads
<1> QED
  BY <1>2, <1>4, <1>10

\* Keep takes elements from the queue only.
LEMMA KeepType ==
  ASSUME NEW T, NEW q \in Seq(T), NEW S
  PROVE  Keep(q, S) \in Seq(T)
<1>0. PICK m \in Nat : \E a \in [1 .. m -> DOMAIN q] : Reads(q, S, m, a)
  BY KeepReads
<1>1. PICK a \in [1 .. m -> DOMAIN q] : Reads(q, S, m, a)
  BY <1>0
<1>2. \A k \in 1 .. m : q[a[k]] \in T
  OBVIOUS
<1> QED
  BY <1>1, <1>2 DEF Reads

\* Keep has exactly the elements of the queue that are in the set.
LEMMA KeepElems ==
  ASSUME NEW T, NEW q \in Seq(T), NEW S
  PROVE  Elems(Keep(q, S)) = Elems(q) \cap S
<1>0. PICK m \in Nat : \E a \in [1 .. m -> DOMAIN q] : Reads(q, S, m, a)
  BY KeepReads
<1>1. PICK a \in [1 .. m -> DOMAIN q] : Reads(q, S, m, a)
  BY <1>0
<1>2. DOMAIN Keep(q, S) = 1 .. m /\ \A k \in 1 .. m : Keep(q, S)[k] = q[a[k]]
  BY <1>1 DEF Reads
<1>3. ASSUME NEW x \in Elems(Keep(q, S))
      PROVE  x \in Elems(q) \cap S
  <2>1. PICK k \in 1 .. m : x = q[a[k]]
    BY <1>2 DEF Elems
  <2>2. a[k] \in DOMAIN q /\ q[a[k]] \in S
    BY <1>1 DEF Reads
  <2> QED
    BY <2>1, <2>2 DEF Elems
<1>4. ASSUME NEW x \in Elems(q) \cap S
      PROVE  x \in Elems(Keep(q, S))
  <2>1. PICK i \in DOMAIN q : x = q[i]
    BY DEF Elems
  <2>2. PICK k \in 1 .. m : i = a[k]
    BY <1>1, <2>1 DEF Reads
  <2>3. k \in DOMAIN Keep(q, S) /\ x = Keep(q, S)[k]
    BY <1>2, <2>1, <2>2
  <2> QED
    BY <2>3 DEF Elems
<1> QED
  BY <1>3, <1>4

\* Keep has no duplicate if the members of S are in the queue once.
LEMMA KeepDistinct ==
  ASSUME NEW T, NEW q \in Seq(T), NEW S,
         \A i, j \in DOMAIN q : q[i] \in S /\ q[i] = q[j] => i = j
  PROVE  NoDup(Keep(q, S))
<1>0. PICK m \in Nat : \E a \in [1 .. m -> DOMAIN q] : Reads(q, S, m, a)
  BY KeepReads
<1>1. PICK a \in [1 .. m -> DOMAIN q] : Reads(q, S, m, a)
  BY <1>0
<1>2. DOMAIN Keep(q, S) = 1 .. m /\ \A k \in 1 .. m : Keep(q, S)[k] = q[a[k]]
  BY <1>1 DEF Reads
<1>3. ASSUME NEW k \in 1 .. m, NEW l \in 1 .. m, q[a[k]] = q[a[l]]
      PROVE  k = l
  <2>1. a[k] \in DOMAIN q /\ a[l] \in DOMAIN q /\ q[a[k]] \in S
    BY <1>1 DEF Reads
  <2> QED
    BY <1>1, <1>3, <2>1 DEF Reads
<1> QED
  BY <1>2, <1>3 DEF NoDup

\* Keep introduces no duplicate.
LEMMA KeepNoDup ==
  ASSUME NEW T, NEW q \in Seq(T), NEW S, NoDup(q)
  PROVE  NoDup(Keep(q, S))
  BY KeepDistinct DEF NoDup

-----------------------------------------------------------------------------

\* FirstIn finds the first of the positions that hold a member of S.
LEMMA FirstInLeast ==
  ASSUME NEW T, NEW q \in Seq(T), NEW S, Elems(q) \cap S # {}
  PROVE  FirstIn(q, S) \in 1 .. Len(q) /\ q[FirstIn(q, S)] \in S
<1> DEFINE I == Kept(q, S)
<1>1. I \in SUBSET (1 .. Len(q)) /\ Len(q) \in Nat /\ I # {}
  BY DEF Kept, Elems
<1> HIDE DEF I
<1>2. /\ IsFiniteSet(I) /\ Cardinality(I) \in Nat
      /\ \A i \in I : Rank(I, i) \in 1 .. Cardinality(I)
      /\ \A i, j \in I : i < j => Rank(I, i) < Rank(I, j)
      /\ \A k \in 1 .. Cardinality(I) : \E i \in I : Rank(I, i) = k
  BY <1>1, RankBijection
<1>3. Cardinality(I) # 0
  BY <1>1, <1>2, FS_EmptySet
<1>4. PICK i \in I : Rank(I, i) = 1
  <2>1. 1 \in 1 .. Cardinality(I)
    BY <1>2, <1>3
  <2> QED
    BY <1>2, <2>1
<1>5. ASSUME NEW j \in I
      PROVE  i <= j
  <2>1. i \in Int /\ j \in Int
    BY <1>1
  <2>2. ~(j < i)
    <3>1. Rank(I, j) \in Int /\ Rank(I, j) >= 1
      BY <1>2
    <3>2. ~(Rank(I, j) < 1)
      BY <3>1
    <3> QED
      BY <1>2, <1>4, <3>2
  <2> QED
    BY <2>1, <2>2
<1>6. FirstIn(q, S) \in I
  BY <1>5 DEF FirstIn, I
<1> QED
  BY <1>1, <1>6 DEF I, Kept

\* A nonempty set of numbers up to n has a greatest one.
LEMMA GreatestExists ==
  ASSUME NEW n \in Nat, NEW I \in SUBSET (0 .. n), I # {}
  PROVE  \E i \in I : \A j \in I : j <= i
<1> DEFINE J == {i + 1 : i \in I}
<1>1. n + 1 \in Nat /\ J \in SUBSET (1 .. n + 1) /\ J # {}
  <2>1. \A i \in I : i + 1 \in 1 .. n + 1
    OBVIOUS
  <2>2. \A k \in J : k \in 1 .. n + 1
    BY <2>1
  <2>3. PICK i : i \in I
    OBVIOUS
  <2>4. i + 1 \in J
    BY <2>3
  <2> QED
    BY <2>2, <2>4
<1>2. \A i \in I : i \in Int /\ i + 1 \in J
  OBVIOUS
<1>3. \A k \in J : k \in Int /\ \E i \in I : k = i + 1
  OBVIOUS
<1> HIDE DEF J
<1>4. /\ IsFiniteSet(J) /\ Cardinality(J) \in Nat
      /\ \A i \in J : Rank(J, i) \in 1 .. Cardinality(J)
      /\ \A i, j \in J : i < j => Rank(J, i) < Rank(J, j)
      /\ \A k \in 1 .. Cardinality(J) : \E i \in J : Rank(J, i) = k
  BY <1>1, RankBijection
<1>5. Cardinality(J) # 0
  BY <1>1, <1>4, FS_EmptySet
<1>6. PICK k \in J : Rank(J, k) = Cardinality(J)
  <2>1. Cardinality(J) \in 1 .. Cardinality(J)
    BY <1>4, <1>5
  <2> QED
    BY <1>4, <2>1
<1>7. \A j \in J : ~(k < j)
  <2>1. \A j \in J : Rank(J, j) \in Int /\ Rank(J, j) <= Cardinality(J)
    BY <1>4
  <2>2. \A j \in J : ~(Cardinality(J) < Rank(J, j))
    BY <1>4, <2>1
  <2> QED
    BY <1>4, <1>6, <2>2
<1>8. PICK i \in I : k = i + 1
  BY <1>3
<1>9. \A j \in I : j <= i
  <2> TAKE j \in I
  <2>1. i \in Int /\ j \in Int /\ ~(i + 1 < j + 1)
    BY <1>2, <1>7, <1>8
  <2> QED
    BY <2>1
<1> QED
  BY <1>9

\* What holds at first and passes from each number to the next holds of all
\* numbers up to n.
LEMMA UpTo ==
  ASSUME NEW n \in Nat, NEW I \in SUBSET (0 .. n), 0 \in I,
         \A i \in 1 .. n : i - 1 \in I => i \in I
  PROVE  I = 0 .. n
<1> SUFFICES ASSUME I # 0 .. n
             PROVE  FALSE
  OBVIOUS
<1> DEFINE B == {n - i : i \in (0 .. n) \ I}
<1>1. B \in SUBSET (0 .. n) /\ B # {}
  <2>1. \A i \in 0 .. n : n - i \in 0 .. n
    OBVIOUS
  <2>2. PICK i \in 0 .. n : i \notin I
    OBVIOUS
  <2>3. n - i \in B
    BY <2>2
  <2> QED
    BY <2>1, <2>3
<1>2. \A i \in (0 .. n) \ I : n - i \in B
  OBVIOUS
<1>3. \A b \in B : n - b \in (0 .. n) \ I
  <2> SUFFICES ASSUME NEW i \in (0 .. n) \ I
               PROVE  n - (n - i) \in (0 .. n) \ I
    OBVIOUS
  <2>1. n - (n - i) = i
    OBVIOUS
  <2> QED
    BY <2>1
<1> HIDE DEF B
<1>4. PICK b \in B : \A c \in B : c <= b
  BY <1>1, GreatestExists
<1> DEFINE i == n - b
<1>5. b \in Int /\ i \in 0 .. n /\ i \notin I /\ i # 0
  BY <1>1, <1>3
<1>6. i - 1 \in 0 .. n /\ i \in 1 .. n /\ n - (i - 1) = b + 1
  BY <1>5
<1>7. i - 1 \in I
  <2>1. ~(b + 1 <= b)
    BY <1>5
  <2> HIDE DEF i
  <2> QED
    BY <1>2, <1>4, <1>6, <2>1
<1> HIDE DEF i
<1> QED
  BY <1>5, <1>6, <1>7

\* A loop of n steps, each given by g from the one before, has a run: the
\* recursive functions that model such loops exist.
LEMMA LoopExists ==
  ASSUME NEW T, NEW n \in Nat, NEW s0 \in T, NEW g \in [1 .. n -> [T -> T]]
  PROVE  \E f \in [0 .. n -> T] :
           f = [i \in 0 .. n |-> IF i = 0 THEN s0 ELSE g[i][f[i - 1]]]
<1> DEFINE Runs(m, f) == f[0] = s0 /\ \A i \in 1 .. m : f[i] = g[i][f[i - 1]]
           I == {m \in 0 .. n : \E f \in [0 .. m -> T] : Runs(m, f)}
<1>1. 0 \in I
  <2> DEFINE f == [i \in 0 .. 0 |-> s0]
  <2>1. f \in [0 .. 0 -> T] /\ f[0] = s0
    OBVIOUS
  <2>2. \A i \in 1 .. 0 : FALSE
    OBVIOUS
  <2> HIDE DEF f
  <2>3. Runs(0, f)
    BY <2>1, <2>2
  <2> QED
    BY <2>1, <2>3
<1>2. ASSUME NEW m \in 1 .. n, m - 1 \in I
      PROVE  m \in I
  <2>1. PICK f \in [0 .. m - 1 -> T] : Runs(m - 1, f)
    BY <1>2
  <2> DEFINE h == [i \in 0 .. m |-> IF i = m THEN g[m][f[m - 1]] ELSE f[i]]
  <2>2. m \in Int /\ 1 <= m /\ m <= n /\ m - 1 \in 0 .. m - 1 /\ m \in 0 .. n
    OBVIOUS
  <2>3. f[m - 1] \in T
    BY <2>2
  <2>4. g[m] \in [T -> T]
    OBVIOUS
  <2>5. g[m][f[m - 1]] \in T
    BY <2>3, <2>4
  <2>6. \A i \in 0 .. m : i # m => i \in 0 .. m - 1
    BY <2>2
  <2>7. h \in [0 .. m -> T]
    BY <2>5, <2>6
  <2>8. \A i \in 0 .. m - 1 : i \in 0 .. m /\ h[i] = f[i]
    BY <2>2
  <2>9. h[m] = g[m][f[m - 1]] /\ h[m - 1] = f[m - 1]
    BY <2>2, <2>8
  <2> HIDE DEF h
  <2>10. h[0] = s0
    BY <2>1, <2>2, <2>8
  <2>11. ASSUME NEW i \in 1 .. m
         PROVE  h[i] = g[i][h[i - 1]]
    <3>1. CASE i = m
      BY <2>9, <3>1
    <3>2. CASE i # m
      <4>1. i \in 1 .. m - 1 /\ i \in 0 .. m - 1 /\ i - 1 \in 0 .. m - 1
        BY <2>2, <3>2
      <4> QED
        BY <2>1, <2>8, <4>1
    <3> QED
      BY <3>1, <3>2
  <2>12. Runs(m, h)
    BY <2>10, <2>11
  <2> QED
    BY <2>2, <2>7, <2>12
<1>3. I \in SUBSET (0 .. n)
  OBVIOUS
<1>4. I = 0 .. n
  <2> HIDE DEF I
  <2> QED
    BY <1>1, <1>2, <1>3, UpTo
<1>5. n \in I
  BY <1>4, SMTT(40)
<1>6. PICK f \in [0 .. n -> T] : Runs(n, f)
  BY <1>5
<1>7. \A i \in 0 .. n : f[i] = IF i = 0 THEN s0 ELSE g[i][f[i - 1]]
  <2> TAKE i \in 0 .. n
  <2>1. i # 0 => i \in 1 .. n
    OBVIOUS
  <2> QED
    BY <1>6, <2>1
<1>8. f = [i \in 0 .. n |-> IF i = 0 THEN s0 ELSE g[i][f[i - 1]]]
  BY <1>7
<1> QED
  BY <1>8

\* queue_add puts one more element in the queue.
LEMMA AppendQueue ==
  ASSUME NEW T, NEW q \in Seq(T), NEW x \in T
  PROVE  /\ Append(q, x) \in Seq(T)
         /\ Elems(Append(q, x)) = Elems(q) \cup {x}
         /\ NoDup(q) /\ x \notin Elems(q) => NoDup(Append(q, x))
<1>1. /\ Append(q, x) \in Seq(T)
      /\ DOMAIN Append(q, x) = 1 .. Len(q) + 1 /\ DOMAIN q = 1 .. Len(q)
      /\ Len(q) \in Nat
      /\ Append(q, x)[Len(q) + 1] = x
      /\ \A i \in 1 .. Len(q) : Append(q, x)[i] = q[i]
  OBVIOUS
<1>2. \A i \in 1 .. Len(q) + 1 : i \in 1 .. Len(q) \/ i = Len(q) + 1
  BY <1>1
<1>3. Elems(Append(q, x)) = Elems(q) \cup {x}
  BY <1>1, <1>2 DEF Elems
<1>4. ASSUME NoDup(q), x \notin Elems(q)
      PROVE  NoDup(Append(q, x))
  BY <1>1, <1>2, <1>4 DEF Elems, NoDup
<1> QED
  BY <1>1, <1>3, <1>4

\* queue_pop takes its head out of a queue without duplicates.
LEMMA PopQueue ==
  ASSUME NEW T, NEW q \in Seq(T), q # <<>>
  PROVE  /\ Head(q) \in Elems(q) /\ Head(q) \in T /\ Tail(q) \in Seq(T)
         /\ Elems(q) = Elems(Tail(q)) \cup {Head(q)}
         /\ NoDup(q) => NoDup(Tail(q)) /\ Head(q) \notin Elems(Tail(q))
<1>1. /\ Len(q) \in Nat /\ Len(q) >= 1 /\ DOMAIN q = 1 .. Len(q)
      /\ Head(q) = q[1] /\ Head(q) \in T /\ Tail(q) \in Seq(T)
      /\ DOMAIN Tail(q) = 1 .. Len(q) - 1
      /\ \A i \in 1 .. Len(q) - 1 : Tail(q)[i] = q[i + 1]
  BY HeadTailProperties, LenProperties, EmptySeq
<1>2. \A i \in 1 .. Len(q) : i = 1 \/ \E j \in 1 .. Len(q) - 1 : i = j + 1
  <2> SUFFICES ASSUME NEW i \in 1 .. Len(q), i # 1
               PROVE  i - 1 \in 1 .. Len(q) - 1 /\ i = (i - 1) + 1
    OBVIOUS
  <2> QED
    BY <1>1
<1>3. Head(q) \in Elems(q)
  BY <1>1 DEF Elems
<1>4. Elems(q) = Elems(Tail(q)) \cup {Head(q)}
  <2>1. ASSUME NEW x \in Elems(q)
        PROVE  x \in Elems(Tail(q)) \cup {Head(q)}
    <3>1. PICK i \in 1 .. Len(q) : x = q[i]
      BY <1>1 DEF Elems
    <3>2. CASE i = 1
      BY <1>1, <3>1, <3>2
    <3>3. CASE \E j \in 1 .. Len(q) - 1 : i = j + 1
      BY <1>1, <3>1, <3>3, ZenonT(60) DEF Elems
    <3> QED
      BY <1>2, <3>2, <3>3
  <2>2. Elems(Tail(q)) \subseteq Elems(q)
    BY <1>1 DEF Elems
  <2> QED
    BY <1>3, <2>1, <2>2
<1>5. ASSUME NoDup(q)
      PROVE  NoDup(Tail(q)) /\ Head(q) \notin Elems(Tail(q))
  BY <1>1, <1>5 DEF NoDup, Elems
<1> QED
  BY <1>1, <1>3, <1>4, <1>5

\* Concatenating two queues.
LEMMA ConcatQueue ==
  ASSUME NEW T, NEW q \in Seq(T), NEW r \in Seq(T)
  PROVE  /\ q \o r \in Seq(T)
         /\ Elems(q \o r) = Elems(q) \cup Elems(r)
         /\ NoDup(q) /\ NoDup(r) /\ Elems(q) \cap Elems(r) = {}
              => NoDup(q \o r)
<1> DEFINE m == Len(q)
           n == Len(r)
<1>1. /\ q \o r \in Seq(T) /\ m \in Nat /\ n \in Nat
      /\ DOMAIN q = 1 .. m /\ DOMAIN r = 1 .. n
      /\ DOMAIN (q \o r) = 1 .. m + n
      /\ \A i \in 1 .. m + n :
           (q \o r)[i] = IF i <= m THEN q[i] ELSE r[i - m]
  BY ConcatProperties, LenProperties
<1> HIDE DEF m, n
<1>2. \A i \in 1 .. m : i \in 1 .. m + n /\ (q \o r)[i] = q[i]
  BY <1>1
<1>3. \A j \in 1 .. n : m + j \in 1 .. m + n /\ (q \o r)[m + j] = r[j]
  BY <1>1
<1>4. \A i \in 1 .. m + n :
        \/ i \in 1 .. m /\ (q \o r)[i] = q[i]
        \/ i - m \in 1 .. n /\ (q \o r)[i] = r[i - m]
  BY <1>1
<1>5. Elems(q \o r) = Elems(q) \cup Elems(r)
  <2>1. Elems(q \o r) \subseteq Elems(q) \cup Elems(r)
    BY <1>1, <1>4 DEF Elems
  <2>2. Elems(q) \subseteq Elems(q \o r)
    BY <1>1, <1>2 DEF Elems
  <2>3. Elems(r) \subseteq Elems(q \o r)
    <3> SUFFICES ASSUME NEW j \in 1 .. n
                 PROVE  r[j] \in Elems(q \o r)
      BY <1>1 DEF Elems
    <3>1. m + j \in DOMAIN (q \o r) /\ (q \o r)[m + j] = r[j]
      BY <1>1, <1>3
    <3> QED
      BY <3>1 DEF Elems
  <2> QED
    BY <2>1, <2>2, <2>3
<1>6. ASSUME NoDup(q), NoDup(r), Elems(q) \cap Elems(r) = {}
      PROVE  NoDup(q \o r)
  <2> SUFFICES ASSUME NEW i \in 1 .. m + n, NEW j \in 1 .. m + n,
                      (q \o r)[i] = (q \o r)[j]
               PROVE  i = j
    BY <1>1 DEF NoDup
  <2>1. i \in Int /\ j \in Int /\ m \in Int
    BY <1>1
  <2>2. CASE i \in 1 .. m /\ j \in 1 .. m
    BY <1>1, <1>2, <1>6, <2>2 DEF NoDup
  <2>3. CASE i - m \in 1 .. n /\ j - m \in 1 .. n
    <3>1. r[i - m] = r[j - m]
      BY <1>1, <2>3
    <3>2. i - m = j - m
      BY <1>1, <1>6, <2>3, <3>1 DEF NoDup
    <3> QED
      BY <2>1, <3>2
  <2>4. \A a \in 1 .. m, b \in 1 .. n : q[a] # r[b]
    BY <1>1, <1>6 DEF Elems
  <2>5. CASE i \in 1 .. m /\ j - m \in 1 .. n
    BY <1>1, <2>4, <2>5
  <2>6. CASE i - m \in 1 .. n /\ j \in 1 .. m
    BY <1>1, <2>4, <2>6
  <2> QED
    BY <1>4, <2>2, <2>3, <2>5, <2>6
<1> QED
  BY <1>1, <1>5, <1>6

\* A rotation that stops at position i leaves all the others.
LEMMA RotateOutQueue ==
  ASSUME NEW T, NEW q \in Seq(T), NEW i \in 1 .. Len(q), NoDup(q)
  PROVE  /\ RotateOut(q, i) \in Seq(T)
         /\ Elems(RotateOut(q, i)) = Elems(q) \ {q[i]}
         /\ NoDup(RotateOut(q, i))
<1> DEFINE n == Len(q)
           u == SubSeq(q, i + 1, n)
           v == SubSeq(q, 1, i - 1)
<1>1. /\ n \in Nat /\ DOMAIN q = 1 .. n /\ i \in Int /\ 1 <= i /\ i <= n
      /\ \A k \in 1 .. n : q[k] \in T
  OBVIOUS
<1> HIDE DEF n
<1>2. /\ u \in Seq(T) /\ Len(u) = n - i
      /\ \A k \in 1 .. n - i : u[k] = q[i + k]
  <2>1. \A k \in i + 1 .. n : q[k] \in T
    BY <1>1
  <2>2. /\ u \in Seq(T) /\ Len(u) = IF i + 1 <= n THEN n - (i + 1) + 1 ELSE 0
        /\ \A k \in 1 .. n - (i + 1) + 1 : u[k] = q[(i + 1) + k - 1]
    BY <1>1, <2>1, SubSeqProperties
  <2>3. n - (i + 1) + 1 = n - i /\ Len(u) = n - i
    BY <1>1, <2>2
  <2>4. \A k \in 1 .. n - i : (i + 1) + k - 1 = i + k
    BY <1>1
  <2> QED
    BY <2>2, <2>3, <2>4
<1>3. /\ v \in Seq(T) /\ Len(v) = i - 1
      /\ \A k \in 1 .. i - 1 : v[k] = q[k]
  <2>1. \A k \in 1 .. i - 1 : q[k] \in T
    BY <1>1
  <2>2. /\ v \in Seq(T) /\ Len(v) = IF 1 <= i - 1 THEN (i - 1) - 1 + 1 ELSE 0
        /\ \A k \in 1 .. (i - 1) - 1 + 1 : v[k] = q[1 + k - 1]
    BY <1>1, <2>1, SubSeqProperties
  <2>3. (i - 1) - 1 + 1 = i - 1 /\ Len(v) = i - 1
    BY <1>1, <2>2
  <2>4. \A k \in 1 .. i - 1 : 1 + k - 1 = k
    BY <1>1
  <2> QED
    BY <2>2, <2>3, <2>4
<1>4. DOMAIN u = 1 .. n - i /\ DOMAIN v = 1 .. i - 1
  BY <1>2, <1>3, LenProperties
<1> HIDE DEF u, v
<1>5. \A k \in 1 .. n - i : i + k \in 1 .. n /\ i + k # i
  BY <1>1
<1>6. \A k \in 1 .. i - 1 : k \in 1 .. n /\ k # i
  BY <1>1
<1>7. \A k \in 1 .. n : k = i \/ k \in 1 .. i - 1 \/ k - i \in 1 .. n - i
  BY <1>1
<1>8. NoDup(u)
  <2> SUFFICES ASSUME NEW k \in 1 .. n - i, NEW l \in 1 .. n - i,
                      q[i + k] = q[i + l]
               PROVE  k = l
    BY <1>2, <1>4 DEF NoDup
  <2>1. i + k = i + l
    BY <1>1, <1>5 DEF NoDup
  <2> QED
    BY <1>1, <2>1
<1>9. NoDup(v)
  BY <1>1, <1>3, <1>4, <1>6 DEF NoDup
<1>10. Elems(u) \cap Elems(v) = {}
  <2> SUFFICES ASSUME NEW k \in 1 .. n - i, NEW l \in 1 .. i - 1,
                      q[i + k] = q[l]
               PROVE  FALSE
    BY <1>2, <1>3, <1>4 DEF Elems
  <2>1. i + k = l
    BY <1>1, <1>5, <1>6 DEF NoDup
  <2> QED
    BY <1>1, <2>1
<1>11. Elems(u) \cup Elems(v) = Elems(q) \ {q[i]}
  <2>1. ASSUME NEW x \in Elems(q) \ {q[i]}
        PROVE  x \in Elems(u) \cup Elems(v)
    <3>1. PICK k \in 1 .. n : x = q[k] /\ k # i
      BY <1>1 DEF Elems
    <3>2. CASE k \in 1 .. i - 1
      BY <1>3, <1>4, <3>1, <3>2 DEF Elems
    <3>3. CASE k - i \in 1 .. n - i
      <4>1. i + (k - i) = k
        BY <1>1
      <4>2. x = u[k - i]
        BY <1>2, <3>1, <3>3, <4>1
      <4> QED
        BY <1>4, <3>3, <4>2 DEF Elems
    <3> QED
      BY <1>7, <3>1, <3>2, <3>3
  <2>2. \A k \in 1 .. n : k # i => q[k] \in Elems(q) \ {q[i]}
    BY <1>1 DEF Elems, NoDup
  <2>3. Elems(u) \subseteq Elems(q) \ {q[i]}
    BY <1>2, <1>4, <1>5, <2>2 DEF Elems
  <2>4. Elems(v) \subseteq Elems(q) \ {q[i]}
    BY <1>3, <1>4, <1>6, <2>2 DEF Elems
  <2> QED
    BY <2>1, <2>3, <2>4
<1>12. RotateOut(q, i) = u \o v
  BY DEF RotateOut, u, v, n
<1> QED
  BY <1>2, <1>3, <1>8, <1>9, <1>10, <1>11, <1>12, ConcatQueue

-----------------------------------------------------------------------------
(* Sequences of bytes.                                                     *)

\* Three parts.
LEMMA Regroup ==
  ASSUME NEW T, NEW s \in Seq(T), NEW t \in Seq(T), NEW u \in Seq(T)
  PROVE  (s \o t) \o u = s \o (t \o u)
  BY ConcatAssociative, SMTT(40)

\* The first part of a sequence that was put together.
LEMMA FirstPart ==
  ASSUME NEW T, NEW s \in Seq(T), NEW t \in Seq(T)
  PROVE  SubSeq(s \o t, 1, Len(s)) = s
<1>1. SubSeq(s \o t, 1, Len(s)) = SubSeq(s, 1, Len(s))
  <2>1. 1 \in 1 .. Len(s) + 1 /\ Len(s) \in 1 - 1 .. Len(s)
    OBVIOUS
  <2> QED
    BY <2>1, SubSeqOfConcat1
<1>2. SubSeq(s, 1, Len(s)) = s
  BY SubSeqFull
<1> QED
  BY <1>1, <1>2

\* A sequence is its first k elements and the others.
LEMMA SplitAt ==
  ASSUME NEW T, NEW b \in Seq(T), NEW k \in 0 .. Len(b)
  PROVE  LET f == SubSeq(b, 1, k)
             t == SubSeq(b, k + 1, Len(b))
         IN  /\ f \in Seq(T) /\ Len(f) = k
             /\ t \in Seq(T) /\ Len(t) = Len(b) - k
             /\ b = f \o t
<1> DEFINE n == Len(b)
           f == SubSeq(b, 1, k)
           t == SubSeq(b, k + 1, n)
<1>1. n \in Nat /\ k \in 0 .. n
  OBVIOUS
<1>2. f \in Seq(T) /\ Len(f) = k /\ \A i \in 1 .. k : f[i] = b[i]
  BY <1>1, SubSeqProperties, SMTT(40)
<1>3. t \in Seq(T) /\ Len(t) = n - k /\ \A i \in 1 .. n - k : t[i] = b[k + i]
  <2>1. CASE k = n
    <3>1. t = <<>>
      BY <1>1, <2>1, SubSeqProperties
    <3> QED
      BY <1>1, <2>1, <3>1
  <2>2. CASE k < n
    <3>1. k + 1 \in 1 .. n + 1 /\ n \in k .. n
      BY <1>1, <2>2
    <3>2. /\ t \in Seq(T) /\ Len(t) = n - (k + 1) + 1
          /\ \A i \in 1 .. n - (k + 1) + 1 : t[i] = b[(k + 1) + i - 1]
      BY <1>1, <3>1, SubSeqProperties, SMTT(40)
    <3> QED
      BY <1>1, <3>2
  <2> QED
    BY <1>1, <2>1, <2>2
<1> HIDE DEF f, t
<1>4. /\ f \o t \in Seq(T) /\ Len(f \o t) = Len(f) + Len(t)
      /\ \A i \in 1 .. Len(f) + Len(t) : (f \o t)[i] = IF i <= Len(f) THEN f[i] ELSE t[i - Len(f)]
  <2>1. f \in Seq(T) /\ t \in Seq(T)
    BY <1>2, <1>3
  <2> QED
    BY <2>1, ConcatProperties
<1> HIDE DEF n
<1>5. Len(f \o t) = n
  BY <1>1, <1>2, <1>3, <1>4
<1>6. ASSUME NEW i \in 1 .. n
      PROVE  (f \o t)[i] = b[i]
  <2>1. i \in 1 .. Len(f) + Len(t)
    BY <1>1, <1>2, <1>3
  <2>2. CASE i <= k
    <3>1. i \in 1 .. k
      BY <1>1, <2>2
    <3> QED
      BY <1>2, <1>4, <2>1, <2>2, <3>1
  <2>3. CASE ~(i <= k)
    <3>1. i - k \in 1 .. n - k /\ k + (i - k) = i
      BY <1>1, <2>3
    <3> QED
      BY <1>2, <1>3, <1>4, <2>1, <2>3, <3>1
  <2> QED
    BY <2>2, <2>3
<1>7. b = f \o t
  BY <1>4, <1>5, <1>6, SeqEqual DEF n
<1> QED
  BY <1>2, <1>3, <1>7 DEF f, t, n

=============================================================================
