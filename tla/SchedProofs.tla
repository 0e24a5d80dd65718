---------------------------- MODULE SchedProofs -----------------------------
(***************************************************************************)
(* What the scheduler of module Sched does to the queues: the facts that   *)
(* the proofs about locks, pipes and terminals share.                      *)
(***************************************************************************)
EXTENDS Sched, QueueTheorems

\* The types of what a handler works on.
States == [code : [PCB -> BlockedCodes], ticks : [PCB -> 0 .. MaxDelay],
           term : [PCB -> 0 .. 3], ready : Seq(Proc), blocked : Seq(Proc)]

\* One entry of blocked_q keeps them.
LEMMA RequeueType ==
  ASSUME NEW s \in States, NEW p \in Proc, NEW open
  PROVE  Requeue(s, p, open) \in States
<1>1. /\ s.code \in [PCB -> BlockedCodes] /\ s.ticks \in [PCB -> 0 .. MaxDelay]
      /\ s.term \in [PCB -> 0 .. 3] /\ s.ready \in Seq(Proc) /\ s.blocked \in Seq(Proc)
      /\ p \in PCB
  BY DEF States, PCB
<1>2. Append(s.ready, p) \in Seq(Proc) /\ Append(s.blocked, p) \in Seq(Proc)
  BY <1>1
<1>3. [s.code EXCEPT ![p] = NOT_BLOCKED] \in [PCB -> BlockedCodes]
  BY <1>1 DEF BlockedCodes
<1>4. [s.term EXCEPT ![p] = 0] \in [PCB -> 0 .. 3]
  BY <1>1
<1>5. s.ticks[p] > 0 => [s.ticks EXCEPT ![p] = s.ticks[p] - 1] \in [PCB -> 0 .. MaxDelay]
  <2>1. s.ticks[p] \in 0 .. MaxDelay /\ MaxDelay \in Nat
    BY <1>1, MaxDelayAssumption
  <2>2. s.ticks[p] > 0 => s.ticks[p] - 1 \in 0 .. MaxDelay
    BY <2>1
  <2> QED
    BY <1>1, <2>2
<1> QED
  BY <1>1, <1>2, <1>3, <1>4, <1>5 DEF Requeue, States

\* The loop of TrapClockHandler has a run f over the entries of blocked_q.
LEMMA ScanRuns ==
  ASSUME Now \in States, NEW open
  PROVE  \E f \in [0 .. Len(blocked_q) -> States] :
           /\ f[0] = [Now EXCEPT !.blocked = <<>>]
           /\ \A i \in 1 .. Len(blocked_q) : f[i] = Requeue(f[i - 1], blocked_q[i], open)
           /\ Scanned(open) = f[Len(blocked_q)]
<1> DEFINE n == Len(blocked_q)
           s0 == [Now EXCEPT !.blocked = <<>>]
           g == [i \in 1 .. n |-> [s \in States |-> Requeue(s, blocked_q[i], open)]]
           Run(f) == f = [i \in 0 .. n |-> IF i = 0 THEN s0 ELSE Requeue(f[i - 1], blocked_q[i], open)]
<1>1. blocked_q \in Seq(Proc)
  BY DEF States, Now
<1>2. n \in Nat /\ \A i \in 1 .. n : blocked_q[i] \in Proc
  BY <1>1
<1>3. s0 \in States
  <2>1. /\ blocked_code \in [PCB -> BlockedCodes] /\ clock_ticks \in [PCB -> 0 .. MaxDelay]
        /\ tty_terminal \in [PCB -> 0 .. 3] /\ ready_q \in Seq(Proc)
    BY DEF States, Now
  <2>2. s0 = [code |-> blocked_code, ticks |-> clock_ticks, term |-> tty_terminal,
              ready |-> ready_q, blocked |-> <<>>]
    BY DEF Now
  <2>3. <<>> \in Seq(Proc)
    OBVIOUS
  <2> HIDE DEF s0
  <2> QED
    BY <2>1, <2>2, <2>3 DEF States
<1>4. g \in [1 .. n -> [States -> States]]
  BY <1>2, RequeueType
<1>5. \A i \in 1 .. n : \A s \in States : g[i][s] = Requeue(s, blocked_q[i], open)
  OBVIOUS
<1> HIDE DEF g, s0, n
<1>6. \E f \in [0 .. n -> States] :
        f = [i \in 0 .. n |-> IF i = 0 THEN s0 ELSE g[i][f[i - 1]]]
  <2> DEFINE Loop(T, k, t, e) == \E f \in [0 .. k -> T] :
               f = [i \in 0 .. k |-> IF i = 0 THEN t ELSE e[i][f[i - 1]]]
  <2>1. \A T : \A k \in Nat : \A t \in T : \A e \in [1 .. k -> [T -> T]] : Loop(T, k, t, e)
    BY LoopExists
  <2> HIDE DEF Loop
  <2>2. Loop(States, n, s0, g)
    BY <1>2, <1>3, <1>4, <2>1
  <2> QED
    BY <2>2 DEF Loop
<1>7. PICK f \in [0 .. n -> States] :
        f = [i \in 0 .. n |-> IF i = 0 THEN s0 ELSE g[i][f[i - 1]]]
  BY <1>6
<1>8. \A i \in 0 .. n : i # 0 => i \in 1 .. n /\ i - 1 \in 0 .. n
  BY <1>2
<1>9. \A i \in 0 .. n : f[i] = IF i = 0 THEN s0 ELSE g[i][f[i - 1]]
  BY <1>7
<1>10. Run(f)
  <2>1. \A i \in 0 .. n : f[i] = IF i = 0 THEN s0 ELSE Requeue(f[i - 1], blocked_q[i], open)
    BY <1>5, <1>8, <1>9
  <2> QED
    BY <2>1
<1> DEFINE h == CHOOSE r : Run(r)
<1>11. Run(h)
  <2> HIDE DEF Run
  <2> QED
    BY <1>10
<1>12. Scanned(open) = h[n]
  BY Zenon DEF Scanned, n, s0
<1> HIDE DEF h
<1>13. /\ h[0] = s0
       /\ \A i \in 1 .. n : h[i] = Requeue(h[i - 1], blocked_q[i], open)
  <2>1. \A i \in 0 .. n : h[i] = IF i = 0 THEN s0 ELSE Requeue(h[i - 1], blocked_q[i], open)
    BY <1>11
  <2>2. 0 \in 0 .. n /\ \A i \in 1 .. n : i \in 0 .. n /\ i # 0
    BY <1>2
  <2> QED
    BY <2>1, <2>2
<1>14. h \in [0 .. n -> States]
  <2> DEFINE I == {i \in 0 .. n : h[i] \in States}
  <2>1. 0 \in I /\ I \in SUBSET (0 .. n)
    BY <1>2, <1>3, <1>13
  <2>2. \A i \in 1 .. n : i - 1 \in I => i \in I
    BY <1>2, <1>13, RequeueType
  <2> HIDE DEF I
  <2>3. I = 0 .. n
    BY <1>2, <2>1, <2>2, UpTo
  <2>4. \A i \in 0 .. n : h[i] \in States
    BY <2>3 DEF I
  <2>5. h = [i \in 0 .. n |-> h[i]]
    BY <1>11
  <2> QED
    BY <2>4, <2>5
<1> QED
  BY <1>12, <1>13, <1>14 DEF n, s0

-----------------------------------------------------------------------------
(* Where the processes of blocked_q go.                                    *)

\* No process is in the two queues of s together more than once.
Apart(s) == /\ NoDup(s.ready) /\ NoDup(s.blocked)
            /\ Elems(s.ready) \cap Elems(s.blocked) = {}

\* A process that CheckBlocked drops: the terminal it is blocked on is closed.
Dropped(p, open) ==
  blocked_code[p] = BLOCKED_TTY_TRANSMIT /\ tty_terminal[p] \notin open

\* The fields that p has in s are those it had before the scan.
AsBefore(s, p) == s.code[p] = blocked_code[p] /\ s.term[p] = tty_terminal[p]

\* One entry is put in one of the queues, or dropped.
LEMMA RequeueQueues ==
  ASSUME NEW s \in States, NEW p \in Proc, NEW open, Apart(s),
         p \notin Elems(s.ready), p \notin Elems(s.blocked), AsBefore(s, p),
         NEW t, t = Requeue(s, p, open)
  PROVE  /\ Apart(t)
         /\ \/ Elems(t.ready) = Elems(s.ready) \cup {p} /\ Elems(t.blocked) = Elems(s.blocked)
            \/ Elems(t.ready) = Elems(s.ready) /\ Elems(t.blocked) = Elems(s.blocked) \cup {p}
            \/ /\ Elems(t.ready) = Elems(s.ready) /\ Elems(t.blocked) = Elems(s.blocked)
               /\ Dropped(p, open)
         /\ \A q \in PCB \ {p} : t.code[q] = s.code[q] /\ t.term[q] = s.term[q]
         /\ \/ t.code[p] = blocked_code[p] /\ t.ready = s.ready
            \/ t.code[p] = NOT_BLOCKED /\ p \in Elems(t.ready)
<1>1. /\ s.ready \in Seq(Proc) /\ s.blocked \in Seq(Proc) /\ p \in PCB
      /\ s.code \in [PCB -> BlockedCodes] /\ s.term \in [PCB -> 0 .. 3]
  BY DEF States, PCB
<1>2. /\ Elems(Append(s.ready, p)) = Elems(s.ready) \cup {p}
      /\ Elems(Append(s.blocked, p)) = Elems(s.blocked) \cup {p}
      /\ NoDup(Append(s.ready, p)) /\ NoDup(Append(s.blocked, p))
  BY <1>1, AppendQueue DEF Apart
<1> DEFINE Waits == /\ t.code = s.code /\ t.term = s.term /\ t.ready = s.ready
                    /\ t.blocked = Append(s.blocked, p)
           Ready == /\ t.code = [s.code EXCEPT ![p] = NOT_BLOCKED]
                    /\ t.term = s.term \/ t.term = [s.term EXCEPT ![p] = 0]
                    /\ t.ready = Append(s.ready, p) /\ t.blocked = s.blocked
<1>3. Waits \/ Ready \/ (t = s /\ Dropped(p, open))
  BY DEF Requeue, States, Dropped, AsBefore
<1>4. CASE Waits
  BY <1>1, <1>2, <1>4 DEF Apart, AsBefore
<1>5. CASE Ready
  <2>1. Apart(t)
    BY <1>2, <1>5 DEF Apart
  <2>2. \A q \in PCB \ {p} : t.code[q] = s.code[q] /\ t.term[q] = s.term[q]
    BY <1>1, <1>5
  <2>3. t.code[p] = NOT_BLOCKED /\ p \in Elems(t.ready)
    BY <1>1, <1>2, <1>5
  <2> QED
    BY <1>2, <1>5, <2>1, <2>2, <2>3
<1>6. CASE t = s /\ Dropped(p, open)
  BY <1>6 DEF AsBefore
<1> QED
  BY <1>3, <1>4, <1>5, <1>6

\* The scan of blocked_q loses and doubles nobody: each process in it ends up
\* in one of the queues unless CheckBlocked drops it, ready_q keeps what it
\* had, and only a process that becomes ready has its reason cleared.
LEMMA ScanQueues ==
  ASSUME Now \in States, NEW open, Apart(Now)
  PROVE  LET s == Scanned(open)
         IN  /\ s \in States /\ Apart(s)
             /\ Elems(ready_q) \subseteq Elems(s.ready)
             /\ Elems(s.ready) \cup Elems(s.blocked) \subseteq Elems(ready_q) \cup Elems(blocked_q)
             /\ \A p \in Elems(blocked_q) :
                  p \in Elems(s.ready) \/ p \in Elems(s.blocked) \/ Dropped(p, open)
             /\ \A p \in PCB : \/ s.code[p] = blocked_code[p]
                               \/ s.code[p] = NOT_BLOCKED /\ p \in Elems(s.ready)
             /\ \A p \in PCB \ Elems(blocked_q) : AsBefore(s, p)
<1> DEFINE n == Len(blocked_q)
           Seen(i) == {blocked_q[j] : j \in 1 .. i}
           Good(s, i) ==
             /\ Apart(s)
             /\ Elems(ready_q) \subseteq Elems(s.ready)
             /\ Elems(s.ready) \cup Elems(s.blocked) \subseteq Elems(ready_q) \cup Seen(i)
             /\ \A p \in Seen(i) :
                  p \in Elems(s.ready) \/ p \in Elems(s.blocked) \/ Dropped(p, open)
             /\ \A p \in PCB : \/ s.code[p] = blocked_code[p]
                               \/ s.code[p] = NOT_BLOCKED /\ p \in Elems(s.ready)
             /\ \A p \in PCB \ Seen(i) : AsBefore(s, p)
<1>1. PICK f \in [0 .. n -> States] :
           /\ f[0] = [Now EXCEPT !.blocked = <<>>]
           /\ \A i \in 1 .. n : f[i] = Requeue(f[i - 1], blocked_q[i], open)
           /\ Scanned(open) = f[n]
  BY ScanRuns
<1>2. /\ blocked_q \in Seq(Proc) /\ ready_q \in Seq(Proc) /\ n \in Nat
      /\ NoDup(blocked_q) /\ NoDup(ready_q) /\ Elems(ready_q) \cap Elems(blocked_q) = {}
      /\ \A i \in 1 .. n : blocked_q[i] \in Proc
      /\ Proc \subseteq PCB
  BY DEF States, Now, Apart, PCB
<1>3. Seen(0) = {} /\ Seen(n) = Elems(blocked_q)
  BY <1>2 DEF Elems
<1>4. Good(f[0], 0)
  <2>1. /\ f[0].ready = ready_q /\ f[0].blocked = <<>>
        /\ f[0].code = blocked_code /\ f[0].term = tty_terminal
    BY <1>1 DEF Now
  <2>2. Elems(<<>>) = {} /\ NoDup(<<>>)
    BY DEF Elems, NoDup
  <2> HIDE DEF Seen
  <2> QED
    BY <1>2, <1>3, <2>1, <2>2 DEF Apart, AsBefore
<1>5. ASSUME NEW i \in 1 .. n, Good(f[i - 1], i - 1)
      PROVE  Good(f[i], i)
  <2> DEFINE p == blocked_q[i]
             s == f[i - 1]
             t == f[i]
  <2>1. s \in States /\ t = Requeue(s, p, open) /\ p \in Proc /\ p \in PCB
    <3>1. i - 1 \in 0 .. n /\ i \in 1 .. n
      BY <1>2
    <3> QED
      BY <1>1, <1>2, <3>1
  <2>2. Seen(i) = Seen(i - 1) \cup {p}
    <3>1. 1 .. i = (1 .. i - 1) \cup {i}
      BY <1>2
    <3> QED
      BY <3>1
  <2>3. p \notin Seen(i - 1) /\ p \notin Elems(ready_q)
    <3>1. p \in Elems(blocked_q)
      BY <1>2 DEF Elems
    <3>2. \A j \in 1 .. i - 1 : j \in DOMAIN blocked_q /\ i \in DOMAIN blocked_q /\ j # i
      BY <1>2
    <3> QED
      BY <1>2, <3>1, <3>2 DEF NoDup
  <2> HIDE DEF p, s, t, Seen
  <2>4. Good(s, i - 1)
    BY <1>5 DEF s
  <2>5. p \notin Elems(s.ready) /\ p \notin Elems(s.blocked) /\ AsBefore(s, p) /\ Apart(s)
    BY <2>1, <2>3, <2>4
  <2>6. /\ Apart(t)
        /\ \/ Elems(t.ready) = Elems(s.ready) \cup {p} /\ Elems(t.blocked) = Elems(s.blocked)
           \/ Elems(t.ready) = Elems(s.ready) /\ Elems(t.blocked) = Elems(s.blocked) \cup {p}
           \/ /\ Elems(t.ready) = Elems(s.ready) /\ Elems(t.blocked) = Elems(s.blocked)
              /\ Dropped(p, open)
        /\ \A q \in PCB \ {p} : t.code[q] = s.code[q] /\ t.term[q] = s.term[q]
        /\ \/ t.code[p] = blocked_code[p] /\ t.ready = s.ready
           \/ t.code[p] = NOT_BLOCKED /\ p \in Elems(t.ready)
    BY <2>1, <2>5, RequeueQueues
  <2>7. Elems(s.ready) \subseteq Elems(t.ready) /\ Elems(s.blocked) \subseteq Elems(t.blocked)
    BY <2>6
  <2>8. \A q \in PCB : \/ t.code[q] = blocked_code[q]
                       \/ t.code[q] = NOT_BLOCKED /\ q \in Elems(t.ready)
    BY <2>4, <2>6, <2>7
  <2>9. \A q \in PCB \ Seen(i) : AsBefore(t, q)
    BY <2>2, <2>4, <2>6 DEF AsBefore
  <2>10. \A q \in Seen(i) : q \in Elems(t.ready) \/ q \in Elems(t.blocked) \/ Dropped(q, open)
    BY <2>2, <2>4, <2>6, <2>7
  <2>11. /\ Elems(ready_q) \subseteq Elems(t.ready)
         /\ Elems(t.ready) \cup Elems(t.blocked) \subseteq Elems(ready_q) \cup Seen(i)
    BY <2>2, <2>4, <2>6, <2>7
  <2> QED
    BY <2>6, <2>8, <2>9, <2>10, <2>11 DEF t
<1> DEFINE I == {i \in 0 .. n : Good(f[i], i)}
<1> HIDE DEF Good
<1>6. 0 \in I /\ I \in SUBSET (0 .. n)
  BY <1>2, <1>4
<1>7. \A i \in 1 .. n : i - 1 \in I => i \in I
  BY <1>2, <1>5
<1> HIDE DEF I
<1>8. I = 0 .. n
  BY <1>2, <1>6, <1>7, UpTo
<1>9. Good(f[n], n) /\ f[n] \in States
  BY <1>1, <1>2, <1>8 DEF I
<1> HIDE DEF Seen
<1> QED
  BY <1>1, <1>3, <1>9 DEF Good

\* The scan keeps the types.
LEMMA ScanType ==
  ASSUME Now \in States, NEW open
  PROVE  Scanned(open) \in States
<1>1. Len(blocked_q) \in 0 .. Len(blocked_q)
  BY DEF States, Now
<1> QED
  BY <1>1, ScanRuns

-----------------------------------------------------------------------------
(* The steps of the scheduler.                                             *)

\* The scheduler has each process once at most.
SchedOnce ==
  /\ NoDup(ready_q) /\ NoDup(blocked_q)
  /\ Elems(ready_q) \cap Elems(blocked_q) = {}
  /\ activePCB \notin Elems(ready_q) /\ activePCB \notin Elems(blocked_q)

\* The processes it has.
Members == ({activePCB} \cup Elems(ready_q) \cup Elems(blocked_q)) \ {idle}

\* A step of the scheduler itself.
SchedStep(open) ==
  TrapClock \/ TrapClockIdle(open) \/ ResumeClock(open) \/ ResumeUser \/ Delay

\* A queue holds processes, and never idle.
LEMMA QueueHolds ==
  ASSUME NEW q \in Seq(Proc)
  PROVE  Elems(q) \subseteq Proc /\ idle \notin Elems(q) /\ idle \notin Proc
<1>1. Elems(q) \subseteq Proc
  BY DEF Elems
<1>2. idle \notin Proc
  BY NProcAssumption DEF idle, Proc
<1> QED
  BY <1>1, <1>2

\* The queue that is left and the process that runs, after a pop.
LEMMA PopNext ==
  ASSUME NEW r \in Seq(Proc)
  PROVE  /\ PopOr(r, idle) \in PCB /\ AfterPop(r) \in Seq(Proc)
         /\ Elems(r) = (Elems(AfterPop(r)) \cup {PopOr(r, idle)}) \ {idle}
         /\ NoDup(r) => NoDup(AfterPop(r)) /\ PopOr(r, idle) \notin Elems(AfterPop(r))
         /\ Elems(r) \subseteq Proc /\ Elems(AfterPop(r)) \subseteq Elems(r)
<1>0. Elems(r) \subseteq Proc /\ idle \notin Proc
  BY QueueHolds
<1>1. CASE r = <<>>
  <2>1. Elems(<<>>) = {} /\ NoDup(<<>>) /\ <<>> \in Seq(Proc)
    BY DEF Elems, NoDup
  <2> QED
    BY <1>1, <2>1 DEF PopOr, AfterPop, PCB
<1>2. CASE r # <<>>
  <2>1. /\ Head(r) \in Elems(r) /\ Head(r) \in Proc /\ Tail(r) \in Seq(Proc)
        /\ Elems(r) = Elems(Tail(r)) \cup {Head(r)}
        /\ NoDup(r) => NoDup(Tail(r)) /\ Head(r) \notin Elems(Tail(r))
    BY <1>2, PopQueue
  <2> QED
    BY <1>0, <1>2, <2>1 DEF PopOr, AfterPop, PCB
<1> QED
  BY <1>1, <1>2

\* Joining a queue.
LEMMA JoinQueue ==
  ASSUME NEW q \in Seq(Proc), activePCB \in PCB
  PROVE  /\ Joined(q) \in Seq(Proc)
         /\ Elems(Joined(q)) = Elems(q) \cup ({activePCB} \ {idle})
         /\ NoDup(q) /\ activePCB \notin Elems(q) => NoDup(Joined(q))
<1>1. CASE activePCB = idle
  BY <1>1 DEF Joined
<1>2. CASE activePCB # idle
  <2>1. activePCB \in Proc
    BY <1>2 DEF PCB
  <2>2. /\ Append(q, activePCB) \in Seq(Proc)
        /\ Elems(Append(q, activePCB)) = Elems(q) \cup {activePCB}
        /\ NoDup(q) /\ activePCB \notin Elems(q) => NoDup(Append(q, activePCB))
    BY <2>1, AppendQueue
  <2> QED
    BY <1>2, <2>2 DEF Joined
<1> QED
  BY <1>1, <1>2

\* What the handlers work on has its type.
LEMMA NowTyped ==
  ASSUME NEW C, SchedTypeOK(C)
  PROVE  Now \in States
  BY DEF SchedTypeOK, Now, States

\* The steps of the scheduler keep its types.
LEMMA SchedStepType ==
  ASSUME NEW C, SchedTypeOK(C), NEW open, SchedStep(open)
  PROVE  SchedTypeOK(C)'
<1> USE DEF SchedTypeOK
<1>1. CASE TrapClock
  <2>1. /\ PopOr(ready_q, idle) \in PCB /\ AfterPop(ready_q) \in Seq(Proc)
    BY PopNext
  <2>2. Joined(AfterPop(ready_q)) \in Seq(Proc)
    BY <2>1, JoinQueue
  <2> QED
    BY <1>1, <2>1, <2>2 DEF TrapClock, SwapToReady
<1>2. CASE TrapClockIdle(open) \/ ResumeClock(open)
  <2>1. Scanned(open) \in States
    BY NowTyped, ScanType
  <2>2. ScanBlocked(open) /\ activePCB' = activePCB
        /\ (pc' = pc \/ pc' = [pc EXCEPT ![activePCB] = "user"])
    BY <1>2 DEF TrapClockIdle, ResumeClock, ToUser
  <2>3. /\ ready_q' \in Seq(Proc) /\ blocked_q' \in Seq(Proc)
        /\ blocked_code' \in [PCB -> BlockedCodes]
        /\ clock_ticks' \in [PCB -> 0 .. MaxDelay]
        /\ tty_terminal' \in [PCB -> 0 .. 3]
    BY <2>1, <2>2 DEF ScanBlocked, States
  <2> QED
    BY <2>2, <2>3
<1>3. CASE ResumeUser
  BY <1>3 DEF ResumeUser, ToUser
<1>4. CASE Delay
  <2>1. PICK n \in 0 .. MaxDelay : KernelDelay(n)
    BY <1>4 DEF Delay
  <2>2. PopOr(ready_q, idle) \in PCB /\ AfterPop(ready_q) \in Seq(Proc)
    BY PopNext
  <2>3. Joined(blocked_q) \in Seq(Proc)
    BY JoinQueue
  <2>4. BLOCKED_DELAY \in BlockedCodes
    BY DEF BlockedCodes
  <2> QED
    BY <2>1, <2>2, <2>3, <2>4 DEF KernelDelay, SwapProcess
<1> QED
  BY <1>1, <1>2, <1>3, <1>4 DEF SchedStep

\* Only the running process moves in its code.
LEMMA SchedStepContext ==
  ASSUME NEW C, SchedTypeOK(C), NEW open, SchedStep(open)
  PROVE  /\ pc[activePCB] \in {"user", "start", "clock", "delay"}
         /\ pc'[activePCB] \in {"user", "start", "clock", "delay"}
         /\ \A p \in PCB : p # activePCB => pc'[p] = pc[p]
         /\ activePCB = idle => pc'[idle] \in {"user", "clock", "start"}
  BY DEF SchedTypeOK, SchedStep, TrapClock, TrapClockIdle, ResumeClock, ResumeUser,
         Delay, KernelDelay, SwapToReady, SwapProcess, ToUser, UserMode, UserProgram,
         ContinuesAt

\* The scheduler keeps the processes it has, each once, as long as none is
\* waiting for a terminal; a process that is ready stays so until it runs.
LEMMA SchedStepMembers ==
  ASSUME NEW C, SchedTypeOK(C), NEW open, SchedStep(open), SchedOnce,
         \A p \in PCB : blocked_code[p] # BLOCKED_TTY_TRANSMIT
  PROVE  /\ SchedOnce' /\ Members' = Members
         /\ Elems(ready_q) \subseteq Elems(ready_q') \cup {activePCB'}
         /\ \A p \in PCB : blocked_code'[p] \in {blocked_code[p], NOT_BLOCKED, BLOCKED_DELAY}
<1> USE DEF SchedTypeOK
<1>0. /\ Elems(ready_q) \subseteq Proc /\ Elems(blocked_q) \subseteq Proc
      /\ idle \notin Proc
  BY QueueHolds
<1> DEFINE a == PopOr(ready_q, idle)
           r == AfterPop(ready_q)
<1>p. /\ a \in PCB /\ r \in Seq(Proc)
      /\ Elems(ready_q) = (Elems(r) \cup {a}) \ {idle}
      /\ NoDup(r) /\ a \notin Elems(r) /\ Elems(r) \subseteq Elems(ready_q)
  BY PopNext DEF SchedOnce
<1>1. CASE TrapClock
  <2>1. /\ activePCB' = a /\ ready_q' = Joined(r) /\ blocked_q' = blocked_q
        /\ blocked_code' = blocked_code
        /\ ~(activePCB = idle /\ ready_q = <<>>)
    BY <1>1 DEF TrapClock, SwapToReady, NothingToRun
  <2> HIDE DEF a, r
  <2>2. /\ Elems(Joined(r)) = Elems(r) \cup ({activePCB} \ {idle})
        /\ NoDup(r) /\ activePCB \notin Elems(r) => NoDup(Joined(r))
    BY <1>p, JoinQueue
  <2>3. activePCB \notin Elems(r) /\ activePCB \notin Elems(ready_q)
    BY <1>p DEF SchedOnce
  <2>4. NoDup(Joined(r)) /\ Elems(ready_q') = Elems(r) \cup ({activePCB} \ {idle})
    BY <1>p, <2>1, <2>2, <2>3
  <2>5. a \notin Elems(ready_q') /\ a \notin Elems(blocked_q')
    BY <1>0, <1>p, <2>1, <2>3, <2>4 DEF SchedOnce
  <2>6. Elems(ready_q') \cap Elems(blocked_q') = {}
    BY <1>0, <1>p, <2>1, <2>4 DEF SchedOnce
  <2>7. SchedOnce'
    BY <2>1, <2>4, <2>5, <2>6 DEF SchedOnce
  <2>8. Members' = Members
    BY <1>0, <1>p, <2>1, <2>4 DEF Members
  <2> QED
    BY <1>p, <2>1, <2>4, <2>7, <2>8
<1>2. CASE TrapClockIdle(open) \/ ResumeClock(open)
  <2> DEFINE s == Scanned(open)
  <2>1. Now \in States
    BY NowTyped
  <2>2. Apart(Now)
    BY DEF Apart, SchedOnce, Now
  <2>3. /\ s \in States /\ Apart(s)
        /\ Elems(ready_q) \subseteq Elems(s.ready)
        /\ Elems(s.ready) \cup Elems(s.blocked) \subseteq Elems(ready_q) \cup Elems(blocked_q)
        /\ \A p \in Elems(blocked_q) :
             p \in Elems(s.ready) \/ p \in Elems(s.blocked) \/ Dropped(p, open)
        /\ \A p \in PCB : \/ s.code[p] = blocked_code[p]
                          \/ s.code[p] = NOT_BLOCKED /\ p \in Elems(s.ready)
    BY <2>1, <2>2, ScanQueues
  <2>4. /\ blocked_code' = s.code /\ ready_q' = s.ready /\ blocked_q' = s.blocked
        /\ activePCB' = activePCB
    BY <1>2 DEF TrapClockIdle, ResumeClock, ScanBlocked
  <2>5. \A p \in Elems(blocked_q) : ~Dropped(p, open)
    BY <1>0 DEF Dropped, PCB
  <2> HIDE DEF s
  <2>6. Elems(ready_q') \cup Elems(blocked_q') = Elems(ready_q) \cup Elems(blocked_q)
    BY <2>3, <2>4, <2>5
  <2>7. SchedOnce'
    BY <2>3, <2>4, <2>6 DEF SchedOnce, Apart
  <2>8. Members' = Members
    BY <2>4, <2>6 DEF Members
  <2> QED
    BY <2>3, <2>4, <2>7, <2>8
<1>3. CASE ResumeUser
  BY <1>3 DEF ResumeUser, SchedOnce, Members
<1>4. CASE Delay
  <2>1. PICK n \in 0 .. MaxDelay : KernelDelay(n)
    BY <1>4 DEF Delay
  <2>2. /\ activePCB' = a /\ ready_q' = r /\ blocked_q' = Joined(blocked_q)
        /\ blocked_code' = [blocked_code EXCEPT ![activePCB] = BLOCKED_DELAY]
    BY <2>1 DEF KernelDelay, SwapProcess
  <2> HIDE DEF a, r
  <2>3. /\ Elems(Joined(blocked_q)) = Elems(blocked_q) \cup ({activePCB} \ {idle})
        /\ NoDup(Joined(blocked_q))
    BY JoinQueue DEF SchedOnce
  <2>4. SchedOnce'
    <3>1. a \notin Elems(blocked_q')
      BY <1>0, <1>p, <2>2, <2>3 DEF SchedOnce
    <3>2. Elems(ready_q') \cap Elems(blocked_q') = {}
      BY <1>p, <2>2, <2>3 DEF SchedOnce
    <3> QED
      BY <1>p, <2>2, <2>3, <3>1, <3>2 DEF SchedOnce
  <2>5. Members' = Members
    BY <1>0, <1>p, <2>2, <2>3 DEF Members
  <2>6. \A p \in PCB : blocked_code'[p] \in {blocked_code[p], NOT_BLOCKED, BLOCKED_DELAY}
    BY <2>2
  <2> QED
    BY <1>p, <2>2, <2>4, <2>5, <2>6
<1> QED
  BY <1>1, <1>2, <1>3, <1>4 DEF SchedStep

\* SwapProcess with ready_q at r, when the process that was running has left
\* the scheduler's queues.
LEMMA SwapOut ==
  ASSUME NEW r \in Seq(Proc), NoDup(r), blocked_q \in Seq(Proc), NoDup(blocked_q),
         Elems(r) \cap Elems(blocked_q) = {},
         activePCB' = PopOr(r, idle), ready_q' = AfterPop(r), blocked_q' = blocked_q
  PROVE  /\ SchedOnce' /\ Members' = Elems(r) \cup Elems(blocked_q)
         /\ Elems(r) \subseteq Elems(ready_q') \cup {activePCB'}
<1> DEFINE a == PopOr(r, idle)
           q == AfterPop(r)
<1>1. /\ Elems(r) = (Elems(q) \cup {a}) \ {idle}
      /\ NoDup(q) /\ a \notin Elems(q) /\ Elems(q) \subseteq Elems(r)
  BY PopNext
<1>2. idle \notin Elems(r) /\ idle \notin Elems(blocked_q)
  BY QueueHolds
<1> HIDE DEF a, q
<1>3. activePCB' = a /\ ready_q' = q /\ blocked_q' = blocked_q
  BY DEF a, q
<1>4. a \notin Elems(blocked_q)
  BY <1>1, <1>2
<1> QED
  BY <1>1, <1>2, <1>3, <1>4 DEF SchedOnce, Members

\* Processes that the scheduler did not have become ready.
LEMMA MadeReady ==
  ASSUME ready_q \in Seq(Proc), SchedOnce, NEW w \in Seq(Proc), NoDup(w),
         Elems(w) \cap Members = {},
         ready_q' = ready_q \o w, activePCB' = activePCB, blocked_q' = blocked_q
  PROVE  /\ SchedOnce' /\ Members' = Members \cup Elems(w)
         /\ Elems(ready_q') = Elems(ready_q) \cup Elems(w)
<1>0. idle \notin Elems(w) /\ idle \notin Elems(ready_q)
  BY QueueHolds
<1>1. Elems(w) \cap Elems(ready_q) = {} /\ Elems(w) \cap Elems(blocked_q) = {}
      /\ activePCB \notin Elems(w)
  BY <1>0 DEF Members
<1>2. /\ Elems(ready_q') = Elems(ready_q) \cup Elems(w) /\ NoDup(ready_q')
  BY <1>1, ConcatQueue DEF SchedOnce
<1> QED
  BY <1>0, <1>1, <1>2 DEF SchedOnce, Members

\* A scan changes nothing when nobody is in Delay or waits for a terminal.
LEMMA ScanKeeps ==
  ASSUME Now \in States, NEW open,
         \A p \in Elems(blocked_q) : blocked_code[p] \notin {BLOCKED_DELAY, BLOCKED_TTY_TRANSMIT}
  PROVE  Scanned(open) = Now
<1> DEFINE n == Len(blocked_q)
           At(i) == [Now EXCEPT !.blocked = SubSeq(blocked_q, 1, i)]
<1>1. PICK f \in [0 .. n -> States] :
         /\ f[0] = [Now EXCEPT !.blocked = <<>>]
         /\ \A i \in 1 .. n : f[i] = Requeue(f[i - 1], blocked_q[i], open)
         /\ Scanned(open) = f[n]
  BY ScanRuns
<1>2. blocked_q \in Seq(Proc) /\ n \in Nat
  BY DEF States, Now
<1>3. ASSUME NEW i \in 1 .. n, f[i - 1] = At(i - 1)
      PROVE  f[i] = At(i)
  <2> DEFINE p == blocked_q[i]
             b == SubSeq(blocked_q, 1, i - 1)
  <2>1. blocked_code[p] \notin {BLOCKED_DELAY, BLOCKED_TTY_TRANSMIT}
    BY <1>2 DEF Elems
  <2>2. Append(b, p) = SubSeq(blocked_q, 1, i)
    <3>1. i \in 1 .. Len(blocked_q) /\ 1 \in 1 .. i
      BY <1>2
    <3>2. SubSeq(blocked_q, 1, i) = b \o <<p>>
      BY <1>2, <3>1, SubSeqRecursiveSecond
    <3>3. b \in Seq(Proc) /\ p \in Proc
      BY <1>2, <3>1, SubSeqProperties
    <3> QED
      BY <3>2, <3>3
  <2>3. f[i] = Requeue(At(i - 1), p, open)
    BY <1>1, <1>3
  <2> HIDE DEF p, b
  <2>4. Requeue([Now EXCEPT !.blocked = b], p, open) = [Now EXCEPT !.blocked = Append(b, p)]
    BY <2>1 DEF Requeue, Now
  <2> QED
    BY <2>2, <2>3, <2>4 DEF b
<1>4. f[0] = At(0)
  <2>1. SubSeq(blocked_q, 1, 0) = <<>>
    BY <1>2
  <2> QED
    BY <1>1, <2>1
<1> HIDE DEF At, n
<1> DEFINE I == {i \in 0 .. n : f[i] = At(i)}
<1>5. 0 \in I /\ I \in SUBSET (0 .. n) /\ \A i \in 1 .. n : i - 1 \in I => i \in I
  <2>1. \A i \in 1 .. n : i \in 0 .. n
    BY <1>2
  <2> QED
    BY <1>2, <1>3, <1>4, <2>1
<1> HIDE DEF I
<1>6. I = 0 .. n
  BY <1>2, <1>5, UpTo
<1>7. f[n] = At(n)
  BY <1>2, <1>6 DEF I
<1>8. At(n) = Now
  <2>1. SubSeq(blocked_q, 1, n) = blocked_q
    BY <1>2, SubSeqFull DEF n
  <2>2. [Now EXCEPT !.blocked = blocked_q] = Now
    BY DEF Now
  <2> QED
    BY <2>1, <2>2 DEF At
<1> QED
  BY <1>1, <1>7, <1>8

=============================================================================
