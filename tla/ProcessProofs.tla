---------------------------- MODULE ProcessProofs ---------------------------
(***************************************************************************)
(* Theorems about Process, DelayTiming and ProcessTty, for every number of *)
(* processes and lines, every exit code, every length of Delay, and with   *)
(* or without failing Forks and faults.                                    *)
(*                                                                         *)
(* The lemmas about types, births and places are stated for a kernel in    *)
(* which some processes, the set A, wait in queues that Process does not   *)
(* know, and contexts are in a set C that may be larger than Contexts.     *)
(***************************************************************************)
EXTENDS DelayTiming, ProcessTty, QueueTheorems

\* What is assumed of the constants.
LEMMA Constants ==
  /\ MaxPid \in Nat /\ MaxPid >= 1 /\ MaxDelay \in Nat
  /\ ExitCodes \subseteq Int
  /\ idle \in Pid /\ init \in Pid /\ Pid \subseteq Nat
  /\ idle = 0 /\ init = 1
  BY MaxPidAssumption, MaxDelayAssumption, ExitCodesAssumption
  DEF idle, init, Pid

-----------------------------------------------------------------------------
(* Types.                                                                  *)

\* TypeOK, with contexts in C.
Typed(C) ==
  /\ activePCB \in Pid
  /\ ready_q \in Seq(Pid) /\ blocked_q \in Seq(Pid) /\ defunct_q \in Seq(Pid)
  /\ ppid \in [Pid -> Pid]
  /\ num_children \in [Pid -> Int]
  /\ blocked_code \in [Pid -> Int]
  /\ clock_ticks \in [Pid -> 0 .. MaxDelay]
  /\ exit_code \in [Pid -> Int]
  /\ pc \in [Pid -> C]
  /\ life \in [Pid -> Lives]
  /\ nextpid \in 2 .. MaxPid + 1
  /\ crashed \in BOOLEAN

\* SwapProcess leaves queues of processes and an active process.
LEMMA SwapType ==
  ASSUME NEW C, Typed(C), NEW move, NEW r \in Seq(Pid), NEW b \in Seq(Pid),
         NEW d \in Seq(Pid), SwapProcess(move, r, b, d)
  PROVE  /\ activePCB' \in Pid
         /\ ready_q' \in Seq(Pid) /\ blocked_q' \in Seq(Pid)
         /\ defunct_q' \in Seq(Pid)
<1>1. PopOr(r, idle) \in Pid /\ AfterPop(r) \in Seq(Pid)
  BY Constants, PopQueue DEF PopOr, AfterPop
<1>2. activePCB \in Pid
  BY DEF Typed
<1>3. \A q \in Seq(Pid) : Append(q, activePCB) \in Seq(Pid)
  BY <1>2
<1> QED
  BY <1>1, <1>3 DEF SwapProcess

\* So does a scan of the blocked queue, which also keeps the PCB fields.
LEMMA ScanType ==
  ASSUME NEW C, Typed(C), ScanBlocked
  PROVE  /\ ready_q' \in Seq(Pid) /\ blocked_q' \in Seq(Pid)
         /\ blocked_code' \in [Pid -> Int]
         /\ clock_ticks' \in [Pid -> 0 .. MaxDelay]
<1>1. ready_q \in Seq(Pid) /\ blocked_q \in Seq(Pid)
  BY DEF Typed
<1>2. Keep(blocked_q, Expired) \in Seq(Pid) /\ Keep(blocked_q, Pid \ Expired) \in Seq(Pid)
  BY <1>1, KeepType
<1>3. ready_q' \in Seq(Pid) /\ blocked_q' \in Seq(Pid)
  BY <1>1, <1>2, ConcatQueue DEF ScanBlocked
<1>4. blocked_code' \in [Pid -> Int]
  BY DEF ScanBlocked, Typed, NOT_BLOCKED
<1>5. clock_ticks' \in [Pid -> 0 .. MaxDelay]
  <2>1. ASSUME NEW p \in Pid
        PROVE  (IF p \in Ticking THEN clock_ticks[p] - 1 ELSE clock_ticks[p])
                  \in 0 .. MaxDelay
    <3>1. clock_ticks[p] \in 0 .. MaxDelay /\ MaxDelay \in Nat
      BY Constants DEF Typed
    <3>2. p \in Ticking => clock_ticks[p] > 0
      BY DEF Ticking
    <3> QED
      BY <3>1, <3>2
  <2> QED
    BY <2>1 DEF ScanBlocked
<1> QED
  BY <1>3, <1>4, <1>5

\* Typed is inductive.
LEMMA TypeStepIn ==
  ASSUME NEW C, Contexts \subseteq C, Typed(C), [Next]_vars
  PROVE  Typed(C)'
<1>c. {"user", "clock", "fork", "exit", "fault", "wait", "delay"} \subseteq C
  BY DEF Contexts
<1> USE <1>c DEF Lives
<1>0. /\ activePCB \in Pid
      /\ ready_q \in Seq(Pid) /\ blocked_q \in Seq(Pid) /\ defunct_q \in Seq(Pid)
  BY DEF Typed
<1>1. CASE TrapClock
  <2>1. /\ activePCB' \in Pid
        /\ ready_q' \in Seq(Pid) /\ blocked_q' \in Seq(Pid) /\ defunct_q' \in Seq(Pid)
    BY <1>0, <1>1, SwapType DEF TrapClock
  <2> QED
    BY <1>1, <2>1 DEF TrapClock, Typed, SaveContext, fields
<1>2. CASE TrapClockIdle
  BY <1>2, ScanType DEF TrapClockIdle, Typed
<1>3. CASE ResumeClock
  BY <1>3, ScanType DEF ResumeClock, Typed
<1>4. CASE ResumeNew \/ ResumeDelay
  <2>1. /\ pc' = [pc EXCEPT ![activePCB] = "user"]
        /\ UNCHANGED <<queues, fields, life, nextpid, crashed>>
    BY <1>4 DEF ResumeNew, ResumeDelay
  <2> QED
    BY <2>1 DEF Typed, queues, fields
<1>5. CASE ResumeWait
  BY <1>5 DEF ResumeWait, Typed, queues, NOT_BLOCKED
<1>6. ASSUME NEW outcome \in Lives, init_process(outcome)
      PROVE  /\ nextpid \in Pid /\ nextpid' \in 2 .. MaxPid + 1
             /\ ppid' \in [Pid -> Pid] /\ num_children' \in [Pid -> Int]
             /\ life' \in [Pid -> Lives]
             /\ UNCHANGED <<blocked_code, clock_ticks, exit_code>>
  <2>1. nextpid \in Pid /\ nextpid' \in 2 .. MaxPid + 1
    BY <1>6, Constants DEF init_process, Typed, Pid
  <2> QED
    BY <1>0, <1>6, <2>1, SMTT(40) DEF init_process, Typed
<1>7. CASE KernelFork
  <2>1. /\ nextpid \in Pid /\ nextpid' \in 2 .. MaxPid + 1
        /\ ppid' \in [Pid -> Pid] /\ num_children' \in [Pid -> Int]
        /\ life' \in [Pid -> Lives]
        /\ UNCHANGED <<blocked_code, clock_ticks, exit_code>>
    BY <1>6, <1>7 DEF KernelFork
  <2>2. Append(ready_q, nextpid) \in Seq(Pid)
    BY <1>0, <2>1
  <2> QED
    BY <1>7, <2>1, <2>2 DEF KernelFork, Typed
<1>8. CASE KernelForkError \/ KernelForkNull
  <2>1. /\ nextpid' \in 2 .. MaxPid + 1
        /\ ppid' \in [Pid -> Pid] /\ num_children' \in [Pid -> Int]
        /\ life' \in [Pid -> Lives]
        /\ UNCHANGED <<blocked_code, clock_ticks, exit_code>>
    BY <1>6, <1>8 DEF KernelForkError, KernelForkNull
  <2> QED
    BY <1>8, <2>1 DEF KernelForkError, KernelForkNull, Typed, queues
<1>9. ASSUME NEW code \in Int, KernelExit(code)
      PROVE  Typed(C)'
  <2> DEFINE par == ppid[activePCB]
             r == IF ParentWaits THEN Append(ready_q, par) ELSE ready_q
             b == IF ParentWaits THEN Keep(blocked_q, Pid \ {par}) ELSE blocked_q
             d == Keep(defunct_q, Pid \ ChildrenIn(defunct_q))
  <2>1. par \in Pid
    BY <1>0 DEF Typed
  <2>2. r \in Seq(Pid) /\ b \in Seq(Pid) /\ d \in Seq(Pid)
    BY <1>0, <2>1, KeepType
  <2>3. \E move : SwapProcess(move, r, b, d)
    BY <1>9 DEF KernelExit
  <2> HIDE DEF r, b, d
  <2>4. /\ activePCB' \in Pid
        /\ ready_q' \in Seq(Pid) /\ blocked_q' \in Seq(Pid) /\ defunct_q' \in Seq(Pid)
    BY <2>2, <2>3, SwapType
  <2>5. ppid' \in [Pid -> Pid] /\ exit_code' \in [Pid -> Int]
    BY <1>9, Constants DEF KernelExit, Typed
  <2>6. num_children' \in [Pid -> Int] /\ blocked_code' \in [Pid -> Int]
    BY <1>9, SMTT(40) DEF KernelExit, Typed, OneFewer
  <2>7. life' \in [Pid -> Lives]
    BY <1>9 DEF KernelExit, Typed
  <2>8. pc' \in [Pid -> C]
    BY <1>9 DEF KernelExit, Typed, SaveContext
  <2>9. clock_ticks' = clock_ticks /\ nextpid' = nextpid /\ crashed' = crashed
    BY <1>9 DEF KernelExit
  <2> QED
    BY <2>4, <2>5, <2>6, <2>7, <2>8, <2>9 DEF Typed
<1>10. CASE Exit \/ Abort
  BY <1>9, <1>10, Constants DEF Exit, Abort, ERROR
<1>11. CASE TrapFault
  <2>1. /\ activePCB' \in Pid
        /\ ready_q' \in Seq(Pid) /\ blocked_q' \in Seq(Pid) /\ defunct_q' \in Seq(Pid)
    BY <1>0, <1>11, SwapType DEF TrapFault
  <2> QED
    <3>1. exit_code' \in [Pid -> Int]
      BY <1>11 DEF TrapFault, Typed, ERROR
    <3>2. life' \in [Pid -> Lives] /\ pc' \in [Pid -> C]
      BY <1>11 DEF TrapFault, Typed, SaveContext
    <3> QED
      BY <1>11, <2>1, <3>1, <3>2 DEF TrapFault, Typed
<1>12. CASE KernelWaitReap
  <2> DEFINE z == FirstIn(defunct_q, Zombies(activePCB))
  <2>1. z \in 1 .. Len(defunct_q)
    BY <1>0, <1>12, FirstInLeast DEF KernelWaitReap, Zombies
  <2>2. SubSeq(defunct_q, z + 1, Len(defunct_q)) \in Seq(Pid) /\ SubSeq(defunct_q, 1, z - 1) \in Seq(Pid)
    <3> HIDE DEF z
    <3> QED BY <1>0, <2>1, SubSeqProperties
  <2>3. RotateOut(defunct_q, z) \in Seq(Pid)
    BY <2>2, ConcatQueue DEF RotateOut
  <2>4. num_children' \in [Pid -> Int]
    BY <1>12 DEF KernelWaitReap, Typed, OneFewer
  <2>5. life' \in [Pid -> Lives]
    BY <1>12 DEF KernelWaitReap, Typed
  <2>6. defunct_q' = RotateOut(defunct_q, z)
    BY <1>12 DEF KernelWaitReap
  <2>7. UNCHANGED <<activePCB, ready_q, blocked_q, ppid, blocked_code,
                    clock_ticks, exit_code, pc, nextpid, crashed>>
    BY <1>12 DEF KernelWaitReap
  <2> HIDE DEF z
  <2> QED
    BY <2>3, <2>4, <2>5, <2>6, <2>7 DEF Typed
<1>13. CASE KernelWaitBlock
  <2>1. /\ activePCB' \in Pid
        /\ ready_q' \in Seq(Pid) /\ blocked_q' \in Seq(Pid) /\ defunct_q' \in Seq(Pid)
    BY <1>0, <1>13, SwapType DEF KernelWaitBlock
  <2> QED
    BY <1>13, <2>1, SMTT(40) DEF KernelWaitBlock, Typed, SaveContext, BLOCKED_WAIT
<1>14. CASE Delay
  <2>1. PICK n \in 0 .. MaxDelay : KernelDelay(n)
    BY <1>14 DEF Delay
  <2>2. /\ activePCB' \in Pid
        /\ ready_q' \in Seq(Pid) /\ blocked_q' \in Seq(Pid) /\ defunct_q' \in Seq(Pid)
    BY <1>0, <2>1, SwapType DEF KernelDelay
  <2> QED
    BY <2>1, <2>2, SMTT(40) DEF KernelDelay, Typed, SaveContext, BLOCKED_DELAY
<1>15. CASE UNCHANGED vars
  BY <1>15 DEF vars, queues, fields, Typed
<1> QED
  BY <1>1, <1>2, <1>3, <1>4, <1>5, <1>7, <1>8, <1>10, <1>11, <1>12, <1>13,
     <1>14, <1>15 DEF Next, Untimed

\* The first state has the types.
LEMMA TypeInit == Init => TypeOK
  BY Constants DEF Init, TypeOK, Contexts, Lives, NOT_BLOCKED

\* TypeOK is inductive.
LEMMA TypeStep ==
  ASSUME TypeOK, [Next]_vars
  PROVE  TypeOK'
<1>1. Typed(Contexts)
  BY DEF TypeOK, Typed
<1>2. Typed(Contexts)'
  BY <1>1, TypeStepIn
<1> QED
  BY <1>2 DEF TypeOK, Typed

\* In every state the queues hold processes, the PCB fields are in range and
\* the count-down of a Delay never goes below zero.
THEOREM TypeCorrect == Spec => []TypeOK
<1>1. TypeOK /\ [Next]_vars => TypeOK'
  BY TypeStep
<1> QED
  BY TypeInit, <1>1, PTL DEF Spec

-----------------------------------------------------------------------------
(* Pids and parents.                                                       *)

\* The first state satisfies Births.
LEMMA BirthsInit == Init => Births
  BY Constants DEF Init, Births, NOT_BLOCKED, Pid

\* The processes whose fields a scan changes are in blocked_q; the others
\* keep theirs.
LEMMA ScanFields ==
  ASSUME NEW C, Typed(C), ScanBlocked
  PROVE  \A p \in Pid \ Elems(blocked_q) :
           blocked_code'[p] = blocked_code[p] /\ clock_ticks'[p] = clock_ticks[p]
  BY DEF ScanBlocked, Expired, Ticking

\* OnePlace, when the processes in A are in other queues.
Placing(A) ==
  /\ NoDup(ready_q) /\ NoDup(blocked_q) /\ NoDup(defunct_q)
  /\ Elems(ready_q) \cap Elems(blocked_q) = {}
  /\ activePCB \notin Elems(ready_q) \cup Elems(blocked_q)
  /\ A \cap ({activePCB, idle} \cup Elems(ready_q) \cup Elems(blocked_q)) = {}
  /\ {activePCB, idle} \cup Elems(ready_q) \cup Elems(blocked_q) \cup A
       = {p \in Pid : life[p] = "live"}
  /\ Elems(defunct_q) = {p \in Pid : life[p] \in {"zombie", "faulted"}}
  /\ idle \notin Elems(ready_q) \cup Elems(blocked_q)

\* Births is preserved, given that only live processes are scheduled.
LEMMA BirthsStepIn ==
  ASSUME NEW C, Typed(C), Births, NEW A, Placing(A), [Next]_vars
  PROVE  Births'
<1> USE Constants DEF NOT_BLOCKED
<1>0. /\ activePCB \in Pid /\ life[activePCB] = "live"
      /\ \A p \in Elems(blocked_q) \cup Elems(ready_q) : p \in Pid /\ life[p] = "live"
      /\ \A p \in Elems(defunct_q) : p \in Pid /\ life[p] \in {"zombie", "faulted"}
  BY DEF Typed, Placing
<1>1. ASSUME UNCHANGED <<ppid, num_children, life, nextpid>>,
             \A p \in Pid : life[p] = "unborn" =>
                blocked_code'[p] = blocked_code[p] /\ clock_ticks'[p] = clock_ticks[p]
      PROVE  Births'
  BY <1>1 DEF Births
<1>2. CASE TrapClock
  BY <1>1, <1>2 DEF TrapClock, fields
<1>3. CASE TrapClockIdle \/ ResumeClock
  BY <1>0, <1>1, <1>3, ScanFields DEF TrapClockIdle, ResumeClock
<1>4. CASE ResumeNew \/ ResumeDelay
  BY <1>1, <1>4 DEF ResumeNew, ResumeDelay, fields
<1>5. CASE ResumeWait
  BY <1>0, <1>1, <1>5 DEF ResumeWait, Typed
<1>6. ASSUME NEW outcome \in {"live", "stillborn"}, init_process(outcome),
             UserProgram
      PROVE  Births'
  <2>1. /\ nextpid \in Pid /\ nextpid' = nextpid + 1 /\ nextpid >= 2
        /\ life' = [life EXCEPT ![nextpid] = outcome]
        /\ ppid' = [ppid EXCEPT ![nextpid] = activePCB]
        /\ num_children' = [num_children EXCEPT ![activePCB] = @ + 1]
        /\ blocked_code' = blocked_code /\ clock_ticks' = clock_ticks
    BY <1>6 DEF init_process, Typed, Pid
  <2>2. activePCB < nextpid /\ activePCB # idle
    BY <1>0, <1>6 DEF Births, UserProgram
  <2>3. life'[idle] = "live"
    BY <2>1 DEF Births, Typed
  <2>4. \A p \in Pid : p < nextpid' <=> life'[p] # "unborn"
    <3> TAKE p \in Pid
    <3>1. p \in Nat /\ nextpid \in Nat
      BY <2>1
    <3>2. p < nextpid <=> life[p] # "unborn"
      BY DEF Births
    <3>3. CASE p = nextpid
      BY <2>1, <3>1, <3>3 DEF Typed
    <3>4. CASE p # nextpid
      <4>1. life'[p] = life[p]
        BY <2>1, <3>4 DEF Typed
      <4> QED
        BY <2>1, <3>1, <3>2, <3>4, <4>1
    <3> QED
      BY <3>3, <3>4
  <2>5. \A p \in Pid : ppid'[p] = 0 \/ ppid'[p] < p
    BY <2>1, <2>2 DEF Births, Typed
  <2>6. \A p \in Pid : life'[p] = "unborn" =>
          /\ ppid'[p] = 0 /\ num_children'[p] = 0
          /\ blocked_code'[p] = NOT_BLOCKED /\ clock_ticks'[p] = 0
    BY <1>0, <2>1 DEF Births, Typed
  <2> QED
    BY <2>3, <2>4, <2>5, <2>6 DEF Births
<1>7. CASE KernelFork \/ KernelForkError \/ KernelForkNull
  BY <1>6, <1>7 DEF KernelFork, KernelForkError, KernelForkNull
<1>8. ASSUME NEW code, KernelExit(code)
      PROVE  Births'
  <2> DEFINE par == ppid[activePCB]
  <2>1. par \in Pid /\ activePCB # idle
    BY <1>0, <1>8 DEF Typed, KernelExit, UserProgram
  <2>2. ParentWaits => life[par] = "live"
    BY <1>0 DEF ParentWaits
  <2>3. \A p \in Pid : life'[p] = "unborn" <=> life[p] = "unborn"
    BY <1>0, <1>8 DEF KernelExit, ChildrenIn
  <2>4. life'[idle] = "live"
    BY <1>0, <1>8, <2>1 DEF KernelExit, ChildrenIn, Births
  <2>5. \A p \in Pid : ppid'[p] = 0 \/ ppid'[p] = ppid[p]
    BY <1>8 DEF KernelExit
  <2>6. \A p \in Pid : life[p] # "live" =>
          num_children'[p] = num_children[p] /\ blocked_code'[p] = blocked_code[p]
    BY <1>8, <2>1, <2>2 DEF KernelExit, OneFewer, Typed
  <2>7. clock_ticks' = clock_ticks /\ nextpid' = nextpid
    BY <1>8 DEF KernelExit
  <2> QED
    BY <2>3, <2>4, <2>5, <2>6, <2>7 DEF Births
<1>9. CASE Exit \/ Abort
  BY <1>8, <1>9 DEF Exit, Abort
<1>10. CASE TrapFault
  <2>1. /\ life' = [life EXCEPT ![activePCB] = "faulted"] /\ activePCB # idle
        /\ UNCHANGED <<ppid, num_children, blocked_code, clock_ticks, nextpid>>
    BY <1>10 DEF TrapFault, UserProgram
  <2>2. \A p \in Pid : life'[p] = "unborn" <=> life[p] = "unborn"
    BY <1>0, <2>1 DEF Typed
  <2>3. life'[idle] = "live"
    BY <2>1 DEF Births, Typed
  <2> QED
    BY <2>1, <2>2, <2>3 DEF Births
<1>11. CASE KernelWaitReap
  <2> DEFINE z == FirstIn(defunct_q, Zombies(activePCB))
  <2>1. z \in 1 .. Len(defunct_q)
    BY <1>11, FirstInLeast, SMTT(40) DEF KernelWaitReap, Zombies, Typed
  <2>2. defunct_q[z] \in Elems(defunct_q)
    <3> HIDE DEF z
    <3> QED BY <2>1, SMTT(40) DEF Elems, Typed
  <2>3. /\ life' = [life EXCEPT ![defunct_q[z]] = "reaped"]
        /\ num_children' = OneFewer(activePCB)
        /\ UNCHANGED <<ppid, blocked_code, clock_ticks, nextpid>>
    BY <1>11 DEF KernelWaitReap
  <2> HIDE DEF z
  <2>4. \A p \in Pid : life'[p] = "unborn" <=> life[p] = "unborn"
    BY <1>0, <2>2, <2>3 DEF Typed
  <2>5. life'[idle] = "live"
    BY <1>0, <2>2, <2>3 DEF Births, Typed
  <2>6. \A p \in Pid : life[p] # "live" => num_children'[p] = num_children[p]
    BY <1>0, <2>3 DEF OneFewer, Typed
  <2> QED
    BY <2>3, <2>4, <2>5, <2>6 DEF Births
<1>12. CASE KernelWaitBlock
  BY <1>0, <1>1, <1>12 DEF KernelWaitBlock, Typed
<1>13. CASE Delay
  BY <1>0, <1>1, <1>13 DEF Delay, KernelDelay, Typed
<1>14. CASE UNCHANGED vars
  BY <1>1, <1>14 DEF vars, fields
<1> QED
  BY <1>2, <1>3, <1>4, <1>5, <1>7, <1>9, <1>10, <1>11, <1>12, <1>13, <1>14
  DEF Next, Untimed

-----------------------------------------------------------------------------
(* Every process is in one place.                                          *)

\* What SwapProcess does to the places of processes: the head of r leaves it
\* and becomes active, the process that was active joins the queue `move`.
LEMMA SwapPlacesIn ==
  ASSUME NEW C, Typed(C), NEW move, NEW r \in Seq(Pid), NEW b \in Seq(Pid),
         NEW d \in Seq(Pid), SwapProcess(move, r, b, d),
         NoDup(r), NoDup(b), NoDup(d), idle \notin Elems(r),
         activePCB \notin Elems(r) \cup Elems(b) \cup Elems(d)
  PROVE  /\ NoDup(ready_q') /\ NoDup(blocked_q') /\ NoDup(defunct_q')
         /\ activePCB' = idle \/ activePCB' \in Elems(r)
         /\ Elems(ready_q') = IF move = "ready" /\ activePCB # idle
                              THEN (Elems(r) \ {activePCB'}) \cup {activePCB}
                              ELSE Elems(r) \ {activePCB'}
         /\ Elems(blocked_q') = IF move = "blocked" /\ activePCB # idle
                                THEN Elems(b) \cup {activePCB} ELSE Elems(b)
         /\ Elems(defunct_q') = IF move = "defunct" /\ activePCB # idle
                                THEN Elems(d) \cup {activePCB} ELSE Elems(d)
<1> DEFINE Moved(name, q) == IF move = name /\ activePCB # idle
                             THEN Append(q, activePCB) ELSE q
<1>1. activePCB \in Pid
  BY DEF Typed
<1>2. ASSUME NEW name, NEW q \in Seq(Pid), NoDup(q), activePCB \notin Elems(q)
      PROVE  /\ NoDup(Moved(name, q))
             /\ Elems(Moved(name, q)) = IF move = name /\ activePCB # idle
                                        THEN Elems(q) \cup {activePCB} ELSE Elems(q)
  BY <1>1, <1>2, AppendQueue, ZenonT(60)
<1>3. /\ AfterPop(r) \in Seq(Pid) /\ NoDup(AfterPop(r))
      /\ IF r = <<>> THEN PopOr(r, idle) = idle ELSE PopOr(r, idle) \in Elems(r)
      /\ Elems(AfterPop(r)) = Elems(r) \ {PopOr(r, idle)}
  <2>1. CASE r = <<>>
    BY <2>1 DEF AfterPop, PopOr
  <2>2. CASE r # <<>>
    BY <2>2, PopQueue DEF AfterPop, PopOr
  <2> QED
    BY <2>1, <2>2
<1>4. /\ activePCB' = PopOr(r, idle)
      /\ ready_q' = Moved("ready", AfterPop(r))
      /\ blocked_q' = Moved("blocked", b)
      /\ defunct_q' = Moved("defunct", d)
  BY DEF SwapProcess
<1> HIDE DEF Moved
<1>5. activePCB \notin Elems(AfterPop(r))
  BY <1>3
<1> QED
  BY <1>2, <1>3, <1>4, <1>5

\* A scan moves the processes whose Delay is over from blocked_q to ready_q.
LEMMA ScanPlacesIn ==
  ASSUME NEW C, Typed(C), NEW A, Placing(A), ScanBlocked
  PROVE  /\ NoDup(ready_q') /\ NoDup(blocked_q')
         /\ Elems(ready_q') = Elems(ready_q) \cup Expired
         /\ Elems(blocked_q') = Elems(blocked_q) \ Expired
         /\ Expired \subseteq Elems(blocked_q)
<1>1. /\ ready_q \in Seq(Pid) /\ blocked_q \in Seq(Pid)
      /\ NoDup(ready_q) /\ NoDup(blocked_q)
      /\ Elems(ready_q) \cap Elems(blocked_q) = {}
  BY DEF Typed, Placing
<1>2. Elems(blocked_q) \subseteq Pid /\ Expired \subseteq Elems(blocked_q)
  BY <1>1 DEF Elems, Expired
<1>3. /\ Keep(blocked_q, Expired) \in Seq(Pid)
      /\ NoDup(Keep(blocked_q, Expired))
      /\ Elems(Keep(blocked_q, Expired)) = Expired
  <2>1. Elems(blocked_q) \cap Expired = Expired
    BY <1>2
  <2> QED
    BY <1>1, <2>1, KeepType, KeepNoDup, KeepElems
<1>4. /\ NoDup(Keep(blocked_q, Pid \ Expired))
      /\ Elems(Keep(blocked_q, Pid \ Expired)) = Elems(blocked_q) \ Expired
  BY <1>1, <1>2, KeepNoDup, KeepElems
<1>5. /\ NoDup(ready_q \o Keep(blocked_q, Expired))
      /\ Elems(ready_q \o Keep(blocked_q, Expired)) = Elems(ready_q) \cup Expired
  <2>1. Elems(ready_q) \cap Elems(Keep(blocked_q, Expired)) = {}
    BY <1>1, <1>2, <1>3
  <2> QED
    BY <1>1, <1>3, <2>1, ConcatQueue
<1> QED
  BY <1>2, <1>4, <1>5 DEF ScanBlocked

\* The first state satisfies OnePlace.
LEMMA OnePlaceInit == Init => OnePlace
<1> SUFFICES ASSUME Init PROVE OnePlace
  OBVIOUS
<1>1. Elems(<<>>) = {} /\ NoDup(<<>>)
  BY DEF Elems, NoDup
<1>2. Elems(<<init>>) = {init} /\ NoDup(<<init>>)
  BY DEF Elems, NoDup
<1> QED
  BY <1>1, <1>2, Constants DEF Init, OnePlace

\* Membership facts that Placing implies.
LEMMA PlacedIn ==
  ASSUME NEW C, Typed(C), NEW A, Placing(A)
  PROVE  /\ activePCB \in Pid /\ life[activePCB] = "live"
         /\ ready_q \in Seq(Pid) /\ blocked_q \in Seq(Pid) /\ defunct_q \in Seq(Pid)
         /\ NoDup(ready_q) /\ NoDup(blocked_q) /\ NoDup(defunct_q)
         /\ \A p \in Elems(blocked_q) \cup Elems(ready_q) :
              p \in Pid /\ life[p] = "live" /\ p # idle /\ p # activePCB
         /\ \A p \in Elems(defunct_q) : p \in Pid /\ life[p] \in {"zombie", "faulted"}
         /\ \A p \in A : /\ p \in Pid /\ life[p] = "live" /\ p # idle /\ p # activePCB
                        /\ p \notin Elems(ready_q) \cup Elems(blocked_q)
         /\ Elems(ready_q) \cap Elems(blocked_q) = {}
         /\ idle \notin Elems(ready_q)
         /\ activePCB \notin Elems(ready_q) \cup Elems(blocked_q) \cup Elems(defunct_q)
  BY DEF Typed, Placing

\* Placing is preserved.
LEMMA PlaceStepIn ==
  ASSUME NEW C, Typed(C), Births, NEW A, Placing(A), [Next]_vars
  PROVE  Placing(A)'
<1> USE PlacedIn, Constants
<1>1. CASE TrapClock
  <2>1. SwapProcess("ready", ready_q, blocked_q, defunct_q) /\ life' = life
    BY <1>1 DEF TrapClock
  <2>2. /\ NoDup(ready_q') /\ NoDup(blocked_q') /\ NoDup(defunct_q')
        /\ activePCB' = idle \/ activePCB' \in Elems(ready_q)
        /\ Elems(ready_q') = IF activePCB # idle
                             THEN (Elems(ready_q) \ {activePCB'}) \cup {activePCB}
                             ELSE Elems(ready_q) \ {activePCB'}
        /\ Elems(blocked_q') = Elems(blocked_q)
        /\ Elems(defunct_q') = Elems(defunct_q)
    BY <2>1, SwapPlacesIn
  <2>3. /\ Elems(ready_q') \cap Elems(blocked_q') = {}
        /\ activePCB' \notin Elems(ready_q') \cup Elems(blocked_q')
        /\ idle \notin Elems(ready_q') \cup Elems(blocked_q')
    BY <2>2
  <2>4. {activePCB', idle} \cup Elems(ready_q') \cup Elems(blocked_q')
          = {activePCB, idle} \cup Elems(ready_q) \cup Elems(blocked_q)
    BY <2>2
  <2> QED
    BY <2>1, <2>2, <2>3, <2>4 DEF Placing
<1>2. CASE TrapClockIdle \/ ResumeClock
  <2>1. ScanBlocked /\ UNCHANGED <<activePCB, defunct_q, life>>
    BY <1>2 DEF TrapClockIdle, ResumeClock
  <2>2. /\ NoDup(ready_q') /\ NoDup(blocked_q')
        /\ Elems(ready_q') = Elems(ready_q) \cup Expired
        /\ Elems(blocked_q') = Elems(blocked_q) \ Expired
        /\ Expired \subseteq Elems(blocked_q)
    BY <2>1, ScanPlacesIn
  <2>3. Elems(ready_q') \cup Elems(blocked_q') = Elems(ready_q) \cup Elems(blocked_q)
        /\ Elems(ready_q') \cap Elems(blocked_q') = {}
    BY <2>2
  <2> QED
    BY <2>1, <2>2, <2>3 DEF Placing
<1>3. CASE ResumeNew \/ ResumeDelay \/ ResumeWait
  BY <1>3 DEF ResumeNew, ResumeDelay, ResumeWait, queues, Placing
<1>4. ASSUME NEW outcome, init_process(outcome)
      PROVE  /\ nextpid \in Pid /\ life[nextpid] = "unborn"
             /\ life' = [life EXCEPT ![nextpid] = outcome]
  BY <1>4 DEF init_process, Typed, Births, Pid
<1>5. CASE KernelFork
  <2>1. /\ nextpid \in Pid /\ life[nextpid] = "unborn"
        /\ life' = [life EXCEPT ![nextpid] = "live"]
        /\ ready_q' = Append(ready_q, nextpid)
        /\ UNCHANGED <<activePCB, blocked_q, defunct_q>>
    BY <1>4, <1>5 DEF KernelFork
  <2>2. nextpid \notin Elems(ready_q) \cup Elems(blocked_q) /\ nextpid # idle
        /\ nextpid # activePCB
    BY <2>1 DEF Births
  <2>3. NoDup(ready_q') /\ Elems(ready_q') = Elems(ready_q) \cup {nextpid}
    BY <2>1, <2>2, AppendQueue
  <2>4. {p \in Pid : life'[p] = "live"} = {p \in Pid : life[p] = "live"} \cup {nextpid}
    <3>1. life'[nextpid] = "live" /\ \A p \in Pid : p # nextpid => life'[p] = life[p]
      BY <2>1 DEF Typed
    <3> QED
      BY <2>1, <3>1
  <2>5. {p \in Pid : life'[p] \in {"zombie", "faulted"}}
          = {p \in Pid : life[p] \in {"zombie", "faulted"}}
    BY <2>1 DEF Typed
  <2>6. nextpid \notin A
    BY <2>1
  <2>7. {activePCB, idle} \cup Elems(ready_q') \cup Elems(blocked_q) \cup A
          = {p \in Pid : life'[p] = "live"}
    BY <2>3, <2>4 DEF Placing
  <2>8. A \cap ({activePCB, idle} \cup Elems(ready_q') \cup Elems(blocked_q)) = {}
    BY <2>3, <2>6
  <2> QED
    BY <2>1, <2>2, <2>3, <2>5, <2>7, <2>8 DEF Placing
<1>6. CASE KernelForkError \/ KernelForkNull
  <2>1. /\ nextpid \in Pid /\ life[nextpid] = "unborn"
        /\ life' = [life EXCEPT ![nextpid] = "stillborn"]
        /\ UNCHANGED queues
    BY <1>4, <1>6 DEF KernelForkError, KernelForkNull
  <2>2. \A p \in Pid : p # nextpid => life'[p] = life[p]
    BY <2>1 DEF Typed
  <2>3. life'[nextpid] = "stillborn"
    BY <2>1 DEF Typed
  <2>4. {p \in Pid : life'[p] = "live"} = {p \in Pid : life[p] = "live"}
    BY <2>1, <2>2, <2>3
  <2>5. {p \in Pid : life'[p] \in {"zombie", "faulted"}}
          = {p \in Pid : life[p] \in {"zombie", "faulted"}}
    BY <2>1, <2>2, <2>3
  <2> QED
    BY <2>1, <2>4, <2>5 DEF Placing, queues
<1>7. ASSUME NEW code, KernelExit(code)
      PROVE  Placing(A)'
  <2> DEFINE me == activePCB
             par == ppid[me]
             r == IF ParentWaits THEN Append(ready_q, par) ELSE ready_q
             b == IF ParentWaits THEN Keep(blocked_q, Pid \ {par}) ELSE blocked_q
             d == Keep(defunct_q, Pid \ ChildrenIn(defunct_q))
             dropped == ChildrenIn(defunct_q)
             move == IF ParentMayWait THEN "defunct" ELSE "none"
  <2>1. /\ par \in Pid /\ me # idle /\ SwapProcess(move, r, b, d)
        /\ dropped \subseteq Elems(defunct_q)
    BY <1>7 DEF KernelExit, UserProgram, Typed, ChildrenIn
  <2>2. ParentWaits => par \in Elems(blocked_q)
    BY DEF ParentWaits
  <2>3. /\ r \in Seq(Pid) /\ NoDup(r)
        /\ Elems(r) = Elems(ready_q) \cup IF ParentWaits THEN {par} ELSE {}
    BY <2>1, <2>2, AppendQueue
  <2>4. /\ b \in Seq(Pid) /\ NoDup(b)
        /\ Elems(b) = Elems(blocked_q) \ IF ParentWaits THEN {par} ELSE {}
    BY KeepType, KeepNoDup, KeepElems
  <2>5. /\ d \in Seq(Pid) /\ NoDup(d)
        /\ Elems(d) = Elems(defunct_q) \ dropped
    BY KeepType, KeepNoDup, KeepElems
  <2> HIDE DEF r, b, d, move
  <2>6. /\ idle \notin Elems(r)
        /\ activePCB \notin Elems(r) \cup Elems(b) \cup Elems(d)
    BY <2>1, <2>2, <2>3, <2>4, <2>5
  <2>7. /\ NoDup(ready_q') /\ NoDup(blocked_q') /\ NoDup(defunct_q')
        /\ activePCB' = idle \/ activePCB' \in Elems(r)
        /\ Elems(ready_q') = Elems(r) \ {activePCB'}
        /\ Elems(blocked_q') = Elems(b)
        /\ Elems(defunct_q') = Elems(d) \cup IF ParentMayWait THEN {me} ELSE {}
    BY <2>1, <2>3, <2>4, <2>5, <2>6, SwapPlacesIn DEF move
  <2>8. /\ life'[me] = IF ParentMayWait THEN "zombie" ELSE "freed"
        /\ \A p \in dropped : life'[p] = "dropped"
        /\ \A p \in Pid \ dropped : p # me => life'[p] = life[p]
    BY <1>7, <2>1 DEF KernelExit
  <2>9. {p \in Pid : life'[p] = "live"} = {p \in Pid : life[p] = "live"} \ {me}
    BY <2>1, <2>8
  <2>10. {p \in Pid : life'[p] \in {"zombie", "faulted"}}
           = Elems(d) \cup IF ParentMayWait THEN {me} ELSE {}
    <3>1. \A p \in Pid : p \in Elems(defunct_q) <=> life[p] \in {"zombie", "faulted"}
      BY DEF Placing
    <3> HIDE DEF dropped
    <3> QED
      BY <2>1, <2>5, <2>8, <3>1, ZenonT(60)
  <2>11. Elems(r) \cup Elems(b) = Elems(ready_q) \cup Elems(blocked_q)
    BY <2>2, <2>3, <2>4
  <2>12. Elems(r) \cap Elems(b) = {}
    BY <2>2, <2>3, <2>4
  <2>13. {me, idle} \cup Elems(ready_q) \cup Elems(blocked_q) \cup A
           = {p \in Pid : life[p] = "live"}
    BY DEF Placing
  <2>14. {activePCB', idle} \cup Elems(ready_q') \cup Elems(blocked_q') \cup A
           = {p \in Pid : life'[p] = "live"}
    BY <2>1, <2>6, <2>7, <2>9, <2>11, <2>13
  <2>15. activePCB' \notin Elems(ready_q') \cup Elems(blocked_q')
    BY <2>2, <2>4, <2>7, <2>12
  <2>16. /\ Elems(ready_q') \cap Elems(blocked_q') = {}
         /\ idle \notin Elems(ready_q') \cup Elems(blocked_q')
    BY <2>4, <2>6, <2>7, <2>12
  <2>17. A \cap ({activePCB', idle} \cup Elems(ready_q') \cup Elems(blocked_q')) = {}
    BY <2>1, <2>7, <2>11
  <2> QED
    BY <2>7, <2>10, <2>14, <2>15, <2>16, <2>17 DEF Placing
<1>8. CASE Exit \/ Abort
  BY <1>7, <1>8 DEF Exit, Abort
<1>9. CASE TrapFault
  <2>1. /\ SwapProcess("defunct", ready_q, blocked_q, defunct_q)
        /\ activePCB # idle
        /\ life' = [life EXCEPT ![activePCB] = "faulted"]
    BY <1>9 DEF TrapFault, UserProgram
  <2>2. /\ NoDup(ready_q') /\ NoDup(blocked_q') /\ NoDup(defunct_q')
        /\ activePCB' = idle \/ activePCB' \in Elems(ready_q)
        /\ Elems(ready_q') = Elems(ready_q) \ {activePCB'}
        /\ Elems(blocked_q') = Elems(blocked_q)
        /\ Elems(defunct_q') = Elems(defunct_q) \cup {activePCB}
    BY <2>1, SwapPlacesIn
  <2>3. {p \in Pid : life'[p] = "live"} = {p \in Pid : life[p] = "live"} \ {activePCB}
    BY <2>1 DEF Typed
  <2>4. {p \in Pid : life'[p] \in {"zombie", "faulted"}}
          = {p \in Pid : life[p] \in {"zombie", "faulted"}} \cup {activePCB}
    BY <2>1, SMTT(40) DEF Typed
  <2> QED
    BY <2>1, <2>2, <2>3, <2>4 DEF Placing
<1>10. CASE KernelWaitReap
  <2> DEFINE z == FirstIn(defunct_q, Zombies(activePCB))
             c == defunct_q[z]
  <2>1. z \in 1 .. Len(defunct_q)
    BY <1>10, FirstInLeast DEF KernelWaitReap, Zombies
  <2>2. /\ defunct_q' = RotateOut(defunct_q, z)
        /\ life' = [life EXCEPT ![c] = "reaped"]
        /\ UNCHANGED <<activePCB, ready_q, blocked_q>>
    BY <1>10 DEF KernelWaitReap
  <2> HIDE DEF z
  <2>3. c \in Elems(defunct_q)
    BY <2>1 DEF Elems
  <2>4. NoDup(defunct_q') /\ Elems(defunct_q') = Elems(defunct_q) \ {c}
    BY <2>1, <2>2, RotateOutQueue
  <2> HIDE DEF c
  <2>5. {p \in Pid : life'[p] = "live"} = {p \in Pid : life[p] = "live"}
    BY <2>2, <2>3 DEF Typed
  <2>6. {p \in Pid : life'[p] \in {"zombie", "faulted"}}
          = {p \in Pid : life[p] \in {"zombie", "faulted"}} \ {c}
    BY <2>2, <2>3 DEF Typed
  <2> QED
    BY <2>2, <2>4, <2>5, <2>6 DEF Placing
<1>11. CASE KernelWaitBlock \/ Delay
  <2>1. /\ SwapProcess("blocked", ready_q, blocked_q, defunct_q)
        /\ activePCB # idle /\ life' = life
    BY <1>11 DEF KernelWaitBlock, Delay, KernelDelay, UserProgram
  <2>2. /\ NoDup(ready_q') /\ NoDup(blocked_q') /\ NoDup(defunct_q')
        /\ activePCB' = idle \/ activePCB' \in Elems(ready_q)
        /\ Elems(ready_q') = Elems(ready_q) \ {activePCB'}
        /\ Elems(blocked_q') = Elems(blocked_q) \cup {activePCB}
        /\ Elems(defunct_q') = Elems(defunct_q)
    BY <2>1, SwapPlacesIn
  <2> QED
    BY <2>1, <2>2 DEF Placing
<1>12. CASE UNCHANGED vars
  BY <1>12 DEF vars, queues, Placing
<1> QED
  BY <1>1, <1>2, <1>3, <1>5, <1>6, <1>8, <1>9, <1>10, <1>11, <1>12
  DEF Next, Untimed

-----------------------------------------------------------------------------
(* The same for Process, where there are no other queues.                  *)

LEMMA NoneAway ==
  ASSUME TypeOK, OnePlace
  PROVE  Typed(Contexts) /\ Placing({})
  BY DEF TypeOK, Typed, OnePlace, Placing

LEMMA SwapPlaces ==
  ASSUME TypeOK, NEW move, NEW r \in Seq(Pid), NEW b \in Seq(Pid),
         NEW d \in Seq(Pid), SwapProcess(move, r, b, d),
         NoDup(r), NoDup(b), NoDup(d), idle \notin Elems(r),
         activePCB \notin Elems(r) \cup Elems(b) \cup Elems(d)
  PROVE  /\ NoDup(ready_q') /\ NoDup(blocked_q') /\ NoDup(defunct_q')
         /\ activePCB' = idle \/ activePCB' \in Elems(r)
         /\ Elems(ready_q') = IF move = "ready" /\ activePCB # idle
                              THEN (Elems(r) \ {activePCB'}) \cup {activePCB}
                              ELSE Elems(r) \ {activePCB'}
         /\ Elems(blocked_q') = IF move = "blocked" /\ activePCB # idle
                                THEN Elems(b) \cup {activePCB} ELSE Elems(b)
         /\ Elems(defunct_q') = IF move = "defunct" /\ activePCB # idle
                                THEN Elems(d) \cup {activePCB} ELSE Elems(d)
<1>1. Typed(Contexts)
  BY DEF TypeOK, Typed
<1> QED
  BY <1>1, SwapPlacesIn

LEMMA ScanPlaces ==
  ASSUME TypeOK, OnePlace, ScanBlocked
  PROVE  /\ NoDup(ready_q') /\ NoDup(blocked_q')
         /\ Elems(ready_q') = Elems(ready_q) \cup Expired
         /\ Elems(blocked_q') = Elems(blocked_q) \ Expired
         /\ Expired \subseteq Elems(blocked_q)
  BY NoneAway, ScanPlacesIn

LEMMA Placed ==
  ASSUME TypeOK, OnePlace
  PROVE  /\ activePCB \in Pid /\ life[activePCB] = "live"
         /\ ready_q \in Seq(Pid) /\ blocked_q \in Seq(Pid) /\ defunct_q \in Seq(Pid)
         /\ NoDup(ready_q) /\ NoDup(blocked_q) /\ NoDup(defunct_q)
         /\ \A p \in Elems(blocked_q) \cup Elems(ready_q) :
              p \in Pid /\ life[p] = "live" /\ p # idle /\ p # activePCB
         /\ \A p \in Elems(defunct_q) : p \in Pid /\ life[p] \in {"zombie", "faulted"}
         /\ Elems(ready_q) \cap Elems(blocked_q) = {}
         /\ idle \notin Elems(ready_q)
         /\ activePCB \notin Elems(ready_q) \cup Elems(blocked_q) \cup Elems(defunct_q)
  BY DEF TypeOK, OnePlace

LEMMA BirthsStep ==
  ASSUME TypeOK, Births, OnePlace, [Next]_vars
  PROVE  Births'
  BY NoneAway, BirthsStepIn

LEMMA OnePlaceStep ==
  ASSUME TypeOK, Births, OnePlace, [Next]_vars
  PROVE  OnePlace'
<1>1. Placing({})'
  BY NoneAway, PlaceStepIn
<1> QED
  BY <1>1 DEF Placing, OnePlace

\* The queues neither lose nor duplicate a process: in every state each
\* process is in the one place that fits what became of it.
THEOREM OnePlaceCorrect == Spec => [](TypeOK /\ Births /\ OnePlace)
<1>1. Init => TypeOK /\ Births /\ OnePlace
  BY TypeInit, BirthsInit, OnePlaceInit
<1>2. TypeOK /\ Births /\ OnePlace /\ [Next]_vars => (TypeOK /\ Births /\ OnePlace)'
  BY TypeStep, BirthsStep, OnePlaceStep
<1> QED
  BY <1>1, <1>2, PTL DEF Spec

-----------------------------------------------------------------------------
(* The kernel contexts: a process continues only in the handler it was     *)
(* swapped out of and for the reason it blocked for (ContextMatches), and  *)
(* a woken Wait returns the status of one of its own children (WaitStatus, *)
(* StatusKept).                                                            *)

\* Idle is swapped out by the clock only and never blocks.
IdleContext ==
  /\ pc[idle] \in {"user", "clock"}
  /\ blocked_code[idle] = NOT_BLOCKED /\ clock_ticks[idle] = 0

\* Who is inside Wait is not being counted down.
WaitTicks == \A p \in Pid : pc[p] = "wait" => clock_ticks[p] = 0

\* What ContextMatches says of a process that is ready or running.
Clean(p) ==
  /\ pc[p] \notin {"exit", "fault"}
  /\ pc[p] # "wait" => blocked_code[p] = NOT_BLOCKED /\ clock_ticks[p] = 0

\* What it says of a blocked process.
Blocked(p) ==
  \/ blocked_code[p] = BLOCKED_DELAY /\ pc[p] = "delay"
  \/ blocked_code[p] = BLOCKED_WAIT /\ pc[p] = "wait"

Contexted ==
  /\ ContextMatches
  /\ IdleContext
  /\ WaitTicks

\* ContextMatches, process by process.
LEMMA ContextParts ==
  ContextMatches <=>
    /\ Clean(activePCB)
    /\ \A p \in Elems(blocked_q) : Blocked(p)
    /\ \A p \in Elems(ready_q) : Clean(p) /\ pc[p] # "user"
  BY DEF ContextMatches, Clean, Blocked

\* The same after a step.
LEMMA ContextPartsNext ==
  ContextMatches' <=>
    /\ Clean(activePCB)'
    /\ \A p \in Elems(blocked_q') : Blocked(p)'
    /\ \A p \in Elems(ready_q') : Clean(p)' /\ pc'[p] # "user"
  BY DEF ContextMatches, Clean, Blocked

\* The first state.
LEMMA ContextInit == Init => Contexted
<1> SUFFICES ASSUME Init PROVE Contexted
  OBVIOUS
<1>1. Elems(<<>>) = {} /\ Elems(<<init>>) = {init}
  BY DEF Elems
<1> QED
  BY <1>1, Constants
  DEF Init, Contexted, ContextMatches, IdleContext, WaitTicks, NOT_BLOCKED

\* SwapProcess with the queues as they are: who runs next, and that nobody
\* but the process that was running joins a queue.
LEMMA SwapNow ==
  ASSUME TypeOK, OnePlace, NEW move \in {"ready", "blocked", "defunct"},
         SwapProcess(move, ready_q, blocked_q, defunct_q)
  PROVE  /\ activePCB' = idle \/ activePCB' \in Elems(ready_q)
         /\ Elems(ready_q') \subseteq
              Elems(ready_q) \cup IF move = "ready" /\ activePCB # idle
                                  THEN {activePCB} ELSE {}
         /\ Elems(blocked_q') =
              Elems(blocked_q) \cup IF move = "blocked" /\ activePCB # idle
                                    THEN {activePCB} ELSE {}
  BY Placed, SwapPlaces

\* What KernelExit does to the processes that stay: a parent in Wait becomes
\* ready with the exit code as its blocked_code, and somebody else runs.
LEMMA ExitPlaces ==
  ASSUME TypeOK, OnePlace, NEW code, KernelExit(code)
  PROVE  LET par == ppid[activePCB] IN
         /\ activePCB # idle /\ par \in Pid
         /\ ParentWaits => par \in Elems(blocked_q) /\ blocked_code[par] = BLOCKED_WAIT
         /\ activePCB' = idle \/ activePCB' \in Elems(ready_q)
              \/ (ParentWaits /\ activePCB' = par)
         /\ Elems(ready_q') \subseteq
              Elems(ready_q) \cup IF ParentWaits THEN {par} ELSE {}
         /\ Elems(blocked_q') =
              Elems(blocked_q) \ IF ParentWaits THEN {par} ELSE {}
         /\ pc' = [pc EXCEPT ![activePCB] = "exit"]
         /\ clock_ticks' = clock_ticks
         /\ \A p \in Pid : blocked_code'[p] =
              IF ParentWaits /\ p = par THEN code ELSE blocked_code[p]
<1> USE Placed, Constants
<1> DEFINE par == ppid[activePCB]
           r == IF ParentWaits THEN Append(ready_q, par) ELSE ready_q
           b == IF ParentWaits THEN Keep(blocked_q, Pid \ {par}) ELSE blocked_q
           d == Keep(defunct_q, Pid \ ChildrenIn(defunct_q))
           move == IF ParentMayWait THEN "defunct" ELSE "none"
<1>1. /\ par \in Pid /\ activePCB # idle /\ SwapProcess(move, r, b, d)
      /\ pc' = [pc EXCEPT ![activePCB] = "exit"] /\ clock_ticks' = clock_ticks
      /\ blocked_code' = IF ParentWaits THEN [blocked_code EXCEPT ![par] = code]
                                        ELSE blocked_code
  BY DEF KernelExit, UserProgram, TypeOK, SaveContext
<1>2. ParentWaits => par \in Elems(blocked_q) /\ blocked_code[par] = BLOCKED_WAIT
  BY DEF ParentWaits
<1>3. /\ r \in Seq(Pid) /\ NoDup(r)
      /\ Elems(r) = Elems(ready_q) \cup IF ParentWaits THEN {par} ELSE {}
  BY <1>1, <1>2, AppendQueue
<1>4. /\ b \in Seq(Pid) /\ NoDup(b)
      /\ Elems(b) = Elems(blocked_q) \ IF ParentWaits THEN {par} ELSE {}
  BY KeepType, KeepNoDup, KeepElems
<1>5. /\ d \in Seq(Pid) /\ NoDup(d) /\ Elems(d) \subseteq Elems(defunct_q)
  BY KeepType, KeepNoDup, KeepElems
<1> HIDE DEF r, b, d, move
<1>6. /\ idle \notin Elems(r)
      /\ activePCB \notin Elems(r) \cup Elems(b) \cup Elems(d)
  BY <1>1, <1>2, <1>3, <1>4, <1>5
<1>7. /\ activePCB' = idle \/ activePCB' \in Elems(r)
      /\ Elems(ready_q') = Elems(r) \ {activePCB'}
      /\ Elems(blocked_q') = Elems(b)
  BY <1>1, <1>3, <1>4, <1>5, <1>6, SwapPlaces DEF move
<1>8. \A p \in Pid : blocked_code'[p] =
        IF ParentWaits /\ p = par THEN code ELSE blocked_code[p]
  BY <1>1 DEF TypeOK
<1> HIDE DEF par
<1>9. /\ activePCB' = idle \/ activePCB' \in Elems(ready_q)
           \/ (ParentWaits /\ activePCB' = par)
      /\ Elems(ready_q') \subseteq
           Elems(ready_q) \cup IF ParentWaits THEN {par} ELSE {}
      /\ Elems(blocked_q') =
           Elems(blocked_q) \ IF ParentWaits THEN {par} ELSE {}
  BY <1>3, <1>4, <1>7
<1> QED
  BY <1>1, <1>2, <1>8, <1>9 DEF par

-----------------------------------------------------------------------------

\* A step that changes the context, blocked_code and clock_ticks of the
\* running process only, and after which somebody from ready_q runs.
LEMMA OthersKeep ==
  ASSUME TypeOK, OnePlace, Contexted,
         activePCB' = idle \/ activePCB' \in Elems(ready_q),
         \A p \in Pid \ {activePCB} :
           /\ pc'[p] = pc[p] /\ blocked_code'[p] = blocked_code[p]
           /\ clock_ticks'[p] = clock_ticks[p],
         activePCB = idle => IdleContext'
  PROVE  /\ Clean(activePCB)'
         /\ IdleContext'
         /\ \A p \in Elems(ready_q) : Clean(p)' /\ pc'[p] # "user"
         /\ \A p \in Elems(blocked_q) : Blocked(p)'
<1> USE Placed, Constants
<1>1. IdleContext'
  BY DEF Contexted, IdleContext
<1>2. \A p \in Elems(ready_q) : Clean(p)' /\ pc'[p] # "user"
  BY ContextParts, ZenonT(60) DEF Contexted, Clean
<1>3. \A p \in Elems(blocked_q) : Blocked(p)'
  BY ContextParts DEF Contexted, Blocked
<1>4. Clean(activePCB)'
  BY <1>1, <1>2 DEF IdleContext, Clean
<1> QED
  BY <1>1, <1>2, <1>3, <1>4

\* A scan makes ready only those that wait in Delay.
LEMMA ScanContext ==
  ASSUME TypeOK, OnePlace, Contexted, ScanBlocked, activePCB' = activePCB,
         pc' = pc \/ (pc[activePCB] = "clock" /\ pc' = [pc EXCEPT ![activePCB] = "user"])
  PROVE  Contexted'
<1> USE Placed, Constants
<1>1. /\ Elems(ready_q') = Elems(ready_q) \cup Expired
      /\ Elems(blocked_q') = Elems(blocked_q) \ Expired
      /\ Expired \subseteq Elems(blocked_q)
  BY ScanPlaces
<1>2. /\ \A p \in Pid : blocked_code'[p] = IF p \in Expired THEN NOT_BLOCKED
                                                            ELSE blocked_code[p]
      /\ \A p \in Pid : clock_ticks'[p] = IF p \in Ticking THEN clock_ticks[p] - 1
                                                           ELSE clock_ticks[p]
  BY DEF ScanBlocked
<1>3. \A p \in Expired : /\ blocked_code[p] = BLOCKED_DELAY /\ clock_ticks[p] = 0
                         /\ p \notin Ticking
  BY SMTT(40) DEF Expired, Ticking, TypeOK
<1>4. \A p \in Ticking : p \in Elems(blocked_q) /\ blocked_code[p] = BLOCKED_DELAY
  BY DEF Ticking
<1>5. \A p \in Elems(blocked_q) : Blocked(p)
  BY ContextParts DEF Contexted
<1>6. \A p \in Pid \ {activePCB} : pc'[p] = pc[p]
  <2>1. CASE pc' = [pc EXCEPT ![activePCB] = "user"]
    BY <2>1 DEF TypeOK
  <2>2. CASE pc' = pc
    BY <2>2
  <2> QED
    BY <2>1, <2>2
<1>7. Clean(activePCB) /\ (pc'[activePCB] = pc[activePCB]
                           \/ (pc[activePCB] = "clock" /\ pc'[activePCB] = "user"))
  BY ContextParts, SMTT(40) DEF Contexted, TypeOK
<1>8. Clean(activePCB)'
  BY <1>1, <1>2, <1>4, <1>7 DEF Clean
<1>9. \A p \in Elems(ready_q) : Clean(p)' /\ pc'[p] # "user"
  BY <1>1, <1>2, <1>4, <1>6, ContextParts, ZenonT(60) DEF Contexted, Clean
<1>10. \A p \in Expired : Clean(p)' /\ pc'[p] # "user"
  BY <1>1, <1>2, <1>3, <1>5, <1>6, ZenonT(60)
  DEF Clean, Blocked, BLOCKED_DELAY, BLOCKED_WAIT
<1>11. \A p \in Elems(blocked_q) \ Expired : Blocked(p)'
  BY <1>2, <1>5, <1>6 DEF Blocked
<1>12. IdleContext'
  BY <1>1, <1>2, <1>4, <1>6, <1>7 DEF Contexted, IdleContext
<1>13. WaitTicks'
  <2>1. \A p \in Pid : pc'[p] = "wait" => pc[p] = "wait" /\ p \notin Ticking
    BY <1>4, <1>5, <1>6, <1>7 DEF Blocked, BLOCKED_DELAY, BLOCKED_WAIT
  <2> QED
    BY <1>2, <2>1 DEF Contexted, WaitTicks
<1> QED
  BY <1>1, <1>8, <1>9, <1>10, <1>11, <1>12, <1>13, ContextPartsNext DEF Contexted

\* Contexted is preserved.
LEMMA ContextStep ==
  ASSUME TypeOK, Births, OnePlace, Contexted, [Next]_vars
  PROVE  Contexted'
<1> USE Placed, Constants
<1>0. Clean(activePCB)
  BY ContextParts DEF Contexted
<1>1. CASE TrapClock
  <2>1. /\ SwapProcess("ready", ready_q, blocked_q, defunct_q)
        /\ pc' = [pc EXCEPT ![activePCB] = "clock"] /\ pc[activePCB] = "user"
        /\ blocked_code' = blocked_code /\ clock_ticks' = clock_ticks
    BY <1>1 DEF TrapClock, SaveContext, UserMode, fields
  <2>2. /\ pc'[activePCB] = "clock"
        /\ \A p \in Pid \ {activePCB} : pc'[p] = pc[p]
    BY <2>1 DEF TypeOK
  <2>3. /\ activePCB' = idle \/ activePCB' \in Elems(ready_q)
        /\ Elems(ready_q') \subseteq Elems(ready_q) \cup {activePCB}
        /\ Elems(blocked_q') = Elems(blocked_q)
    BY <2>1, SwapNow
  <2>4. Clean(activePCB)' /\ IdleContext' /\ WaitTicks'
        /\ (\A p \in Elems(ready_q) : Clean(p)' /\ pc'[p] # "user")
        /\ (\A p \in Elems(blocked_q) : Blocked(p)')
    <3>1. activePCB = idle => IdleContext'
      BY <2>1, <2>2 DEF Contexted, IdleContext
    <3>2. WaitTicks'
      BY <2>1, <2>2 DEF Contexted, WaitTicks
    <3> QED
      BY <2>1, <2>2, <2>3, <3>1, <3>2, OthersKeep
  <2>5. blocked_code'[activePCB] = NOT_BLOCKED /\ clock_ticks'[activePCB] = 0
    BY <1>0, <2>1 DEF Clean
  <2>6. \A p \in Elems(ready_q') : Clean(p)' /\ pc'[p] # "user"
    BY <2>2, <2>3, <2>4, <2>5 DEF Clean
  <2> QED
    BY <2>3, <2>4, <2>6, ContextPartsNext DEF Contexted
<1>2. CASE TrapClockIdle
  BY <1>2, ScanContext DEF TrapClockIdle
<1>3. CASE ResumeClock
  BY <1>3, ScanContext DEF ResumeClock, ContinuesAt
<1>4. CASE ResumeNew \/ ResumeDelay \/ ResumeWait
  <2>1. /\ activePCB' = activePCB /\ ready_q' = ready_q /\ blocked_q' = blocked_q
        /\ pc' = [pc EXCEPT ![activePCB] = "user"] /\ clock_ticks' = clock_ticks
        /\ pc[activePCB] \in {"boot", "fork", "delay", "wait"}
    BY <1>4 DEF ResumeNew, ResumeDelay, ResumeWait, ContinuesAt, queues, fields
  <2>2. /\ pc'[activePCB] = "user"
        /\ \A p \in Pid \ {activePCB} : pc'[p] = pc[p]
    BY <2>1 DEF TypeOK
  <2>3. /\ \A p \in Pid \ {activePCB} : blocked_code'[p] = blocked_code[p]
        /\ blocked_code'[activePCB] = NOT_BLOCKED
    <3>1. CASE ResumeNew \/ ResumeDelay
      BY <1>0, <3>1 DEF ResumeNew, ResumeDelay, ContinuesAt, fields, Clean
    <3>2. CASE ResumeWait
      BY <3>2 DEF ResumeWait, TypeOK
    <3> QED
      BY <1>4, <3>1, <3>2
  <2>4. clock_ticks'[activePCB] = 0
    BY <1>0, <2>1 DEF Clean, Contexted, WaitTicks
  <2>5. Clean(activePCB)'
    BY <2>1, <2>2, <2>3, <2>4 DEF Clean
  <2>6. \A p \in Elems(ready_q) : Clean(p)' /\ pc'[p] # "user"
    BY <2>1, <2>2, <2>3, ContextParts DEF Contexted, Clean
  <2>7. \A p \in Elems(blocked_q) : Blocked(p)'
    BY <2>1, <2>2, <2>3, ContextParts DEF Contexted, Blocked
  <2>8. IdleContext' /\ WaitTicks'
    BY <2>1, <2>2, <2>3, <2>4 DEF Contexted, IdleContext, WaitTicks
  <2> QED
    BY <2>1, <2>5, <2>6, <2>7, <2>8, ContextPartsNext DEF Contexted
<1>5. CASE KernelFork
  <2>1. /\ nextpid \in Pid /\ life[nextpid] = "unborn"
        /\ ready_q' = Append(ready_q, nextpid)
        /\ pc' = [pc EXCEPT ![nextpid] = "fork"]
        /\ UNCHANGED <<activePCB, blocked_q, blocked_code, clock_ticks>>
    BY <1>5 DEF KernelFork, init_process, TypeOK, Births, Pid
  <2>2. /\ nextpid # idle /\ nextpid # activePCB
        /\ nextpid \notin Elems(ready_q) \cup Elems(blocked_q)
        /\ blocked_code[nextpid] = NOT_BLOCKED /\ clock_ticks[nextpid] = 0
    BY <2>1 DEF Births
  <2>3. /\ pc'[nextpid] = "fork"
        /\ \A p \in Pid \ {nextpid} : pc'[p] = pc[p]
    BY <2>1 DEF TypeOK
  <2>4. Elems(ready_q') = Elems(ready_q) \cup {nextpid}
    BY <2>1, <2>2, AppendQueue
  <2>5. Clean(activePCB)'
    BY <1>0, <2>1, <2>2, <2>3 DEF Clean
  <2>6. \A p \in Elems(ready_q') : Clean(p)' /\ pc'[p] # "user"
    BY <2>1, <2>2, <2>3, <2>4, ContextParts DEF Contexted, Clean
  <2>7. \A p \in Elems(blocked_q) : Blocked(p)'
    BY <2>1, <2>2, <2>3, ContextParts DEF Contexted, Blocked
  <2>8. IdleContext' /\ WaitTicks'
    BY <2>1, <2>2, <2>3 DEF Contexted, IdleContext, WaitTicks
  <2> QED
    BY <2>1, <2>5, <2>6, <2>7, <2>8, ContextPartsNext DEF Contexted
<1>6. ASSUME UNCHANGED <<activePCB, ready_q, blocked_q, pc, blocked_code, clock_ticks>>
      PROVE  Contexted'
  BY <1>6 DEF Contexted, ContextMatches, IdleContext, WaitTicks
<1>7. CASE KernelForkError \/ KernelForkNull \/ KernelWaitReap \/ UNCHANGED vars
  BY <1>6, <1>7
  DEF KernelForkError, KernelForkNull, KernelWaitReap, init_process, queues, vars, fields
<1>8. ASSUME NEW code, KernelExit(code)
      PROVE  Contexted'
  <2>0. PICK par \in Pid : par = ppid[activePCB]
    BY DEF TypeOK
  <2>1. /\ activePCB # idle
        /\ ParentWaits => par \in Elems(blocked_q) /\ blocked_code[par] = BLOCKED_WAIT
        /\ activePCB' = idle \/ activePCB' \in Elems(ready_q)
             \/ (ParentWaits /\ activePCB' = par)
        /\ Elems(ready_q') \subseteq
             Elems(ready_q) \cup IF ParentWaits THEN {par} ELSE {}
        /\ Elems(blocked_q') =
             Elems(blocked_q) \ IF ParentWaits THEN {par} ELSE {}
        /\ pc' = [pc EXCEPT ![activePCB] = "exit"]
        /\ clock_ticks' = clock_ticks
        /\ \A p \in Pid : blocked_code'[p] =
             IF ParentWaits /\ p = par THEN code ELSE blocked_code[p]
    BY <1>8, <2>0, ExitPlaces
  <2>2. pc'[activePCB] = "exit" /\ \A p \in Pid \ {activePCB} : pc'[p] = pc[p]
    BY <2>1 DEF TypeOK
  <2>3. ParentWaits => par # activePCB /\ pc[par] = "wait"
    BY <2>1, ContextParts DEF Contexted, Blocked, BLOCKED_DELAY, BLOCKED_WAIT
  <2>4. \A p \in Elems(ready_q) : Clean(p)' /\ pc'[p] # "user"
    BY <2>1, <2>2, ContextParts, ZenonT(60) DEF Contexted, Clean
  <2>5. ParentWaits => Clean(par)' /\ pc'[par] # "user"
    BY <2>1, <2>2, <2>3 DEF Clean
  <2>6. \A p \in Elems(blocked_q') : Blocked(p)'
    BY <2>1, <2>2, ContextParts, ZenonT(60) DEF Contexted, Blocked
  <2>7. IdleContext' /\ WaitTicks'
    BY <2>1, <2>2 DEF Contexted, IdleContext, WaitTicks
  <2>8. Clean(idle)'
    BY <2>7 DEF IdleContext, Clean
  <2>9. Clean(activePCB)'
    BY <2>1, <2>4, <2>5, <2>8 DEF Clean
  <2>10. \A p \in Elems(ready_q') : Clean(p)' /\ pc'[p] # "user"
    BY <2>1, <2>4, <2>5
  <2> QED
    BY <2>6, <2>7, <2>9, <2>10, ContextPartsNext DEF Contexted
<1>9. CASE Exit \/ Abort
  BY <1>8, <1>9 DEF Exit, Abort
<1>10. CASE TrapFault
  <2>1. /\ SwapProcess("defunct", ready_q, blocked_q, defunct_q) /\ activePCB # idle
        /\ pc' = [pc EXCEPT ![activePCB] = "fault"]
        /\ blocked_code' = blocked_code /\ clock_ticks' = clock_ticks
    BY <1>10 DEF TrapFault, SaveContext, UserProgram
  <2>2. /\ pc'[activePCB] = "fault"
        /\ \A p \in Pid \ {activePCB} : pc'[p] = pc[p]
    BY <2>1 DEF TypeOK
  <2>3. /\ activePCB' = idle \/ activePCB' \in Elems(ready_q)
        /\ Elems(ready_q') \subseteq Elems(ready_q)
        /\ Elems(blocked_q') = Elems(blocked_q)
    BY <2>1, SwapNow
  <2>4. WaitTicks'
    BY <2>1, <2>2 DEF Contexted, WaitTicks
  <2> QED
    BY <2>1, <2>2, <2>3, <2>4, OthersKeep, ContextPartsNext DEF Contexted
<1>11. ASSUME KernelWaitBlock \/ Delay
       PROVE  Contexted'
  <2>1. /\ SwapProcess("blocked", ready_q, blocked_q, defunct_q) /\ activePCB # idle
        /\ pc[activePCB] = "user"
    BY <1>11 DEF KernelWaitBlock, Delay, KernelDelay, UserProgram, UserMode
  <2>2. PICK me \in Pid : me = activePCB
    BY DEF TypeOK
  <2>3. /\ \A p \in Pid \ {me} :
             /\ pc'[p] = pc[p] /\ blocked_code'[p] = blocked_code[p]
             /\ clock_ticks'[p] = clock_ticks[p]
        /\ Blocked(me)'
        /\ pc'[me] = "wait" => clock_ticks'[me] = 0
    <3>1. CASE KernelWaitBlock
      <4>1. /\ pc' = [pc EXCEPT ![me] = "wait"]
            /\ blocked_code' = [blocked_code EXCEPT ![me] = BLOCKED_WAIT]
            /\ clock_ticks' = clock_ticks
        BY <2>2, <3>1 DEF KernelWaitBlock, SaveContext
      <4>2. clock_ticks[me] = 0
        BY <1>0, <2>1, <2>2 DEF Clean
      <4>3. Blocked(me)'
        BY <4>1 DEF TypeOK, Blocked
      <4> QED
        BY <4>1, <4>2, <4>3 DEF TypeOK
    <3>2. CASE Delay
      <4>1. PICK n \in 0 .. MaxDelay : KernelDelay(n)
        BY <3>2 DEF Delay
      <4>2. /\ pc' = [pc EXCEPT ![me] = "delay"]
            /\ blocked_code' = [blocked_code EXCEPT ![me] = BLOCKED_DELAY]
            /\ clock_ticks' = [clock_ticks EXCEPT ![me] = n]
        BY <2>2, <4>1 DEF KernelDelay, SaveContext
      <4>3. Blocked(me)'
        BY <4>2 DEF TypeOK, Blocked
      <4> QED
        BY <4>2, <4>3 DEF TypeOK
    <3> QED
      BY <1>11, <3>1, <3>2
  <2>4. WaitTicks'
    BY <2>3 DEF Contexted, WaitTicks
  <2>5. /\ activePCB' = idle \/ activePCB' \in Elems(ready_q)
        /\ Elems(ready_q') \subseteq Elems(ready_q)
        /\ Elems(blocked_q') = Elems(blocked_q) \cup {me}
    BY <2>1, <2>2, SwapNow
  <2>6. /\ Clean(activePCB)' /\ IdleContext'
        /\ \A p \in Elems(ready_q) : Clean(p)' /\ pc'[p] # "user"
        /\ \A p \in Elems(blocked_q) : Blocked(p)'
    BY <2>1, <2>2, <2>3, <2>5, OthersKeep
  <2> QED
    BY <2>3, <2>4, <2>5, <2>6, ContextPartsNext DEF Contexted
<1> QED
  BY <1>1, <1>2, <1>3, <1>4, <1>5, <1>7, <1>9, <1>10, <1>11 DEF Next, Untimed

\* A process continues only in the handler it was swapped out of and for the
\* reason it blocked for: TrapClockHandler, KernelExit and SwapProcess never
\* make a process ready whose blocked_code or clock_ticks say otherwise.
THEOREM ContextCorrect == Spec => []ContextMatches
<1> DEFINE Inv == TypeOK /\ Births /\ OnePlace /\ Contexted
<1>1. Init => Inv
  BY TypeInit, BirthsInit, OnePlaceInit, ContextInit
<1>2. Inv /\ [Next]_vars => Inv'
  BY TypeStep, BirthsStep, OnePlaceStep, ContextStep
<1>3. Inv => ContextMatches
  BY DEF Contexted
<1> QED
  BY <1>1, <1>2, <1>3, PTL DEF Spec

-----------------------------------------------------------------------------
(* The status of Wait.                                                     *)

\* Nothing is written to a PCB after it was deleted.
LEMMA FreedKeeps ==
  ASSUME TypeOK, Births, OnePlace, [Next]_vars, NEW c \in Pid, life[c] = "freed"
  PROVE  life'[c] = "freed" /\ ppid'[c] = ppid[c] /\ exit_code'[c] = exit_code[c]
<1> USE Placed, Constants
<1>0. /\ c # activePCB
      /\ c \notin Elems(ready_q) \cup Elems(blocked_q) \cup Elems(defunct_q)
  OBVIOUS
<1>1. CASE TrapClock \/ TrapClockIdle \/ ResumeClock
  BY <1>1 DEF TrapClock, TrapClockIdle, ResumeClock, fields
<1>2. CASE ResumeNew \/ ResumeDelay \/ ResumeWait
  BY <1>2 DEF ResumeNew, ResumeDelay, ResumeWait, fields
<1>3. ASSUME NEW outcome, init_process(outcome)
      PROVE  life'[c] = "freed" /\ ppid'[c] = ppid[c] /\ exit_code' = exit_code
  <2>1. nextpid \in Pid /\ life[nextpid] = "unborn"
    BY <1>3 DEF init_process, TypeOK, Births, Pid
  <2>2. nextpid # c
    BY <2>1
  <2> QED
    BY <1>3, <2>1, <2>2 DEF init_process, TypeOK
<1>4. CASE KernelFork \/ KernelForkError \/ KernelForkNull
  BY <1>3, <1>4 DEF KernelFork, KernelForkError, KernelForkNull
<1>5. ASSUME NEW code, KernelExit(code)
      PROVE  life'[c] = "freed" /\ ppid'[c] = ppid[c] /\ exit_code'[c] = exit_code[c]
  <2>1. c \notin ChildrenIn(ready_q) \cup ChildrenIn(blocked_q) \cup ChildrenIn(defunct_q)
    BY <1>0 DEF ChildrenIn
  <2> QED
    BY <1>0, <1>5, <2>1 DEF KernelExit, TypeOK
<1>6. CASE Exit \/ Abort
  BY <1>5, <1>6 DEF Exit, Abort
<1>7. CASE TrapFault
  BY <1>0, <1>7 DEF TrapFault, TypeOK
<1>8. CASE KernelWaitReap
  <2> DEFINE z == FirstIn(defunct_q, Zombies(activePCB))
  <2>1. z \in 1 .. Len(defunct_q)
    <3>1. Zombies(activePCB) \subseteq Elems(defunct_q) /\ Zombies(activePCB) # {}
      BY <1>8 DEF KernelWaitReap, Zombies
    <3> QED
      BY <3>1, FirstInLeast
  <2>2. defunct_q[z] # c
    BY <1>0, <2>1 DEF Elems
  <2> QED
    BY <1>8, <2>2 DEF KernelWaitReap, TypeOK
<1>9. CASE KernelWaitBlock \/ Delay
  BY <1>9 DEF KernelWaitBlock, Delay, KernelDelay
<1>10. CASE UNCHANGED vars
  BY <1>10 DEF vars, fields
<1> QED
  BY <1>1, <1>2, <1>4, <1>6, <1>7, <1>8, <1>9, <1>10 DEF Next, Untimed

\* The status of a woken waiter is not overwritten.
LEMMA StatusStep ==
  ASSUME TypeOK, OnePlace, [Next]_vars, NEW p \in Pid, Woken(p), Woken(p)'
  PROVE  blocked_code'[p] = blocked_code[p]
<1> USE Placed, Constants
<1>0. p \notin Elems(blocked_q) /\ pc[p] = "wait" /\ pc'[p] = "wait"
  BY DEF Woken
<1>1. CASE TrapClock \/ ResumeNew \/ ResumeDelay \/ UNCHANGED vars
  BY <1>1 DEF TrapClock, ResumeNew, ResumeDelay, vars, fields
<1>2. CASE TrapClockIdle \/ ResumeClock
  <2>1. ScanBlocked /\ p \notin Expired
    BY <1>0, <1>2 DEF TrapClockIdle, ResumeClock, Expired
  <2> QED
    BY <2>1 DEF ScanBlocked
<1>3. CASE ResumeWait
  <2>1. p # activePCB
    BY <1>0, <1>3 DEF ResumeWait, TypeOK
  <2> QED
    BY <1>3, <2>1 DEF ResumeWait, TypeOK
<1>4. CASE KernelFork \/ KernelForkError \/ KernelForkNull
  BY <1>4 DEF KernelFork, KernelForkError, KernelForkNull, init_process
<1>5. ASSUME NEW code, KernelExit(code)
      PROVE  blocked_code'[p] = blocked_code[p]
  BY <1>0, <1>5, ExitPlaces
<1>6. CASE Exit \/ Abort
  BY <1>5, <1>6 DEF Exit, Abort
<1>7. CASE TrapFault \/ KernelWaitReap
  BY <1>7 DEF TrapFault, KernelWaitReap
<1>8. CASE KernelWaitBlock \/ Delay
  <2>1. p # activePCB
    BY <1>0, <1>8 DEF KernelWaitBlock, Delay, KernelDelay, UserProgram, UserMode
  <2>2. blocked_code' = [blocked_code EXCEPT ![activePCB] = BLOCKED_WAIT]
        \/ blocked_code' = [blocked_code EXCEPT ![activePCB] = BLOCKED_DELAY]
    BY <1>8 DEF KernelWaitBlock, Delay, KernelDelay
  <2>3. CASE blocked_code' = [blocked_code EXCEPT ![activePCB] = BLOCKED_WAIT]
    BY <2>1, <2>3 DEF TypeOK
  <2>4. CASE blocked_code' = [blocked_code EXCEPT ![activePCB] = BLOCKED_DELAY]
    BY <2>1, <2>4 DEF TypeOK
  <2> QED
    BY <2>2, <2>3, <2>4
<1> QED
  BY <1>1, <1>2, <1>3, <1>4, <1>6, <1>7, <1>8 DEF Next, Untimed

\* Only the exit of a child makes a process a woken waiter.
LEMMA WokenBy ==
  ASSUME TypeOK, Births, OnePlace, Contexted, [Next]_vars,
         NEW p \in Pid, Woken(p)', ~Woken(p)
  PROVE  \E c \in Pid : /\ ppid'[c] = p /\ life'[c] = "freed"
                        /\ exit_code'[c] = blocked_code'[p]
<1> USE Placed, Constants
<1>0. /\ pc'[p] = "wait" /\ (p = activePCB' \/ p \in Elems(ready_q'))
      /\ pc[p] = "wait" => p # activePCB /\ p \notin Elems(ready_q)
      /\ pc[idle] # "wait"
  BY DEF Woken, Contexted, IdleContext
<1>1. CASE TrapClock
  <2>1. /\ SwapProcess("ready", ready_q, blocked_q, defunct_q)
        /\ pc' = [pc EXCEPT ![activePCB] = "clock"]
    BY <1>1 DEF TrapClock, SaveContext
  <2>2. p # activePCB /\ pc[p] = "wait"
    BY <1>0, <2>1 DEF TypeOK
  <2>3. /\ activePCB' = idle \/ activePCB' \in Elems(ready_q)
        /\ Elems(ready_q') \subseteq Elems(ready_q) \cup {activePCB}
    BY <2>1, SwapNow
  <2> QED
    BY <1>0, <2>2, <2>3
<1>2. CASE TrapClockIdle \/ ResumeClock
  <2>1. ScanBlocked /\ activePCB' = activePCB /\ pc[p] = "wait"
    <3>1. CASE TrapClockIdle
      BY <1>0, <3>1 DEF TrapClockIdle
    <3>2. CASE ResumeClock
      BY <1>0, <3>2 DEF ResumeClock, TypeOK
    <3> QED
      BY <1>2, <3>1, <3>2
  <2>2. Elems(ready_q') = Elems(ready_q) \cup Expired
    BY <2>1, ScanPlaces
  <2>3. p \in Elems(blocked_q) /\ blocked_code[p] = BLOCKED_DELAY
    BY <1>0, <2>1, <2>2 DEF Expired
  <2> QED
    BY <2>1, <2>3 DEF Contexted, ContextMatches, BLOCKED_DELAY, BLOCKED_WAIT
<1>3. CASE ResumeNew \/ ResumeDelay \/ ResumeWait
  <2>1. /\ activePCB' = activePCB /\ ready_q' = ready_q
        /\ pc' = [pc EXCEPT ![activePCB] = "user"]
    BY <1>3 DEF ResumeNew, ResumeDelay, ResumeWait, queues
  <2>2. pc[p] = "wait"
    BY <1>0, <2>1 DEF TypeOK
  <2> QED
    BY <1>0, <2>1, <2>2
<1>4. CASE KernelFork
  <2>1. /\ nextpid \in Pid /\ life[nextpid] = "unborn"
        /\ ready_q' = Append(ready_q, nextpid) /\ activePCB' = activePCB
        /\ pc' = [pc EXCEPT ![nextpid] = "fork"]
    BY <1>4 DEF KernelFork, init_process, TypeOK, Births, Pid
  <2>2. p # nextpid /\ pc[p] = "wait"
    BY <1>0, <2>1 DEF TypeOK
  <2>3. Elems(ready_q') = Elems(ready_q) \cup {nextpid}
    BY <2>1, AppendQueue
  <2> QED
    BY <1>0, <2>1, <2>2, <2>3
<1>5. CASE KernelForkError \/ KernelForkNull \/ KernelWaitReap \/ UNCHANGED vars
  <2>1. activePCB' = activePCB /\ ready_q' = ready_q /\ pc' = pc
    BY <1>5 DEF KernelForkError, KernelForkNull, KernelWaitReap, queues, vars
  <2> QED
    BY <1>0, <2>1
<1>6. ASSUME NEW code \in Int, KernelExit(code)
      PROVE  \E c \in Pid : /\ ppid'[c] = p /\ life'[c] = "freed"
                            /\ exit_code'[c] = blocked_code'[p]
  <2>1. PICK par \in Pid : par = ppid[activePCB]
    BY DEF TypeOK
  <2>2. /\ activePCB # idle
        /\ ParentWaits => par \in Elems(blocked_q)
        /\ activePCB' = idle \/ activePCB' \in Elems(ready_q)
             \/ (ParentWaits /\ activePCB' = par)
        /\ Elems(ready_q') \subseteq
             Elems(ready_q) \cup IF ParentWaits THEN {par} ELSE {}
        /\ pc' = [pc EXCEPT ![activePCB] = "exit"]
        /\ \A q \in Pid : blocked_code'[q] =
             IF ParentWaits /\ q = par THEN code ELSE blocked_code[q]
    BY <1>6, <2>1, ExitPlaces
  <2>3. p # activePCB /\ pc[p] = "wait"
    BY <1>0, <2>2 DEF TypeOK
  <2>4. ParentWaits /\ p = par
    BY <1>0, <2>2, <2>3
  <2>5. /\ ~ParentMayWait
        /\ activePCB \notin ChildrenIn(ready_q) \cup ChildrenIn(blocked_q)
    BY <2>4 DEF ParentMayWait, ChildrenIn
  <2>6. /\ ppid'[activePCB] = p /\ life'[activePCB] = "freed"
        /\ exit_code'[activePCB] = code
    <3>1. ppid'[activePCB] = p
      BY <1>6, <2>1, <2>4, <2>5 DEF KernelExit
    <3>2. life'[activePCB] = "freed"
      BY <1>6, <2>5 DEF KernelExit
    <3>3. exit_code'[activePCB] = code
      BY <1>6 DEF KernelExit, TypeOK
    <3> QED
      BY <3>1, <3>2, <3>3
  <2> QED
    BY <2>2, <2>4, <2>6
<1>7. CASE Exit \/ Abort
  BY <1>6, <1>7 DEF Exit, Abort, ERROR
<1>8. CASE TrapFault
  <2>1. /\ SwapProcess("defunct", ready_q, blocked_q, defunct_q)
        /\ pc' = [pc EXCEPT ![activePCB] = "fault"]
    BY <1>8 DEF TrapFault, SaveContext
  <2>2. pc[p] = "wait"
    BY <1>0, <2>1 DEF TypeOK
  <2>3. /\ activePCB' = idle \/ activePCB' \in Elems(ready_q)
        /\ Elems(ready_q') \subseteq Elems(ready_q)
    BY <2>1, SwapNow
  <2> QED
    BY <1>0, <2>2, <2>3
<1>9. CASE KernelWaitBlock \/ Delay
  <2>1. /\ SwapProcess("blocked", ready_q, blocked_q, defunct_q)
        /\ activePCB # idle
        /\ \/ pc' = [pc EXCEPT ![activePCB] = "wait"]
           \/ pc' = [pc EXCEPT ![activePCB] = "delay"]
    BY <1>9 DEF KernelWaitBlock, Delay, KernelDelay, SaveContext, UserProgram
  <2>2. /\ activePCB' = idle \/ activePCB' \in Elems(ready_q)
        /\ Elems(ready_q') \subseteq Elems(ready_q)
    BY <2>1, SwapNow
  <2>3. p # activePCB
    BY <1>0, <2>1, <2>2
  <2>4. pc[p] = "wait"
    <3>1. CASE pc' = [pc EXCEPT ![activePCB] = "wait"]
      BY <1>0, <2>3, <3>1 DEF TypeOK
    <3>2. CASE pc' = [pc EXCEPT ![activePCB] = "delay"]
      BY <1>0, <2>3, <3>2 DEF TypeOK
    <3> QED
      BY <2>1, <3>1, <3>2
  <2> QED
    BY <1>0, <2>2, <2>4
<1> QED
  BY <1>1, <1>2, <1>3, <1>4, <1>5, <1>7, <1>8, <1>9 DEF Next, Untimed

\* WaitStatus is preserved: the child whose status is kept stays deleted, and
\* the status is neither overwritten nor made up.
LEMMA WaitStatusStep ==
  ASSUME TypeOK, Births, OnePlace, Contexted, WaitStatus, [Next]_vars
  PROVE  WaitStatus'
<1> SUFFICES ASSUME NEW p \in Pid, Woken(p)'
             PROVE  \E c \in Pid : /\ ppid'[c] = p /\ life'[c] = "freed"
                                   /\ exit_code'[c] = blocked_code'[p]
  BY DEF WaitStatus
<1>1. CASE Woken(p)
  <2>1. PICK c \in Pid : /\ ppid[c] = p /\ life[c] = "freed"
                         /\ exit_code[c] = blocked_code[p]
    BY <1>1 DEF WaitStatus
  <2>2. life'[c] = "freed" /\ ppid'[c] = ppid[c] /\ exit_code'[c] = exit_code[c]
    BY <2>1, FreedKeeps
  <2>3. blocked_code'[p] = blocked_code[p]
    BY <1>1, StatusStep
  <2> QED
    BY <2>1, <2>2, <2>3
<1>2. CASE ~Woken(p)
  BY <1>2, WokenBy
<1> QED
  BY <1>1, <1>2

\* A woken Wait returns the exit code of a child of its own that was deleted:
\* KernelExit of that child is the only step that ends a Wait.
THEOREM WaitStatusCorrect == Spec => []WaitStatus
<1> DEFINE Inv == TypeOK /\ Births /\ OnePlace /\ Contexted /\ WaitStatus
<1>1. Init => Inv
  <2>1. Init => WaitStatus
    BY Constants DEF Init, WaitStatus, Woken
  <2> QED
    BY <2>1, TypeInit, BirthsInit, OnePlaceInit, ContextInit
<1>2. Inv /\ [Next]_vars => Inv'
  BY TypeStep, BirthsStep, OnePlaceStep, ContextStep, WaitStatusStep
<1> QED
  BY <1>1, <1>2, PTL DEF Spec

\* No step overwrites the status between the exit that wakes a waiter and the
\* moment KernelWait reads it.
THEOREM StatusKeptCorrect == Spec => StatusKept
<1>1. TypeOK /\ OnePlace /\ [Next]_vars =>
        [\A p \in Pid : Woken(p) /\ Woken(p)' => blocked_code'[p] = blocked_code[p]]_vars
  BY StatusStep
<1> QED
  BY <1>1, OnePlaceCorrect, PTL DEF Spec, StatusKept

-----------------------------------------------------------------------------
(* Parents and children: num_children is exact (ChildCount), no process    *)
(* keeps the pid of a parent that exited (NoExitedParent), and the exit of *)
(* a child is never lost on a parent in Wait (NoLostWakeup).               *)

\* The three hold together or not at all: KernelExit looks for its children
\* only if num_children says that there are some, and KernelWait blocks on
\* the strength of it.
Kin == ChildCount /\ NoExitedParent /\ NoLostWakeup

\* Children are finitely many.
LEMMA BroodFinite ==
  ASSUME NEW p
  PROVE  IsFiniteSet(Brood(p)) /\ Cardinality(Brood(p)) \in Nat
<1>1. IsFiniteSet(Pid)
  BY Constants, FS_Interval DEF Pid
<1>2. Brood(p) \in SUBSET Pid
  BY DEF Brood
<1> QED
  BY <1>1, <1>2, FS_Subset, FS_CardinalityType

\* The first state.
LEMMA KinInit == Init => Kin
<1> SUFFICES ASSUME Init PROVE Kin
  OBVIOUS
<1>1. ChildCount
  <2> SUFFICES ASSUME NEW p \in Pid \ {idle}
               PROVE  num_children[p] = Cardinality(Brood(p))
    BY DEF ChildCount
  <2>1. Brood(p) = {}
    BY Constants DEF Init, Brood
  <2> QED
    BY <2>1, FS_EmptySet DEF Init
<1>2. NoExitedParent /\ NoLostWakeup
  <2>1. Elems(<<>>) = {}
    BY DEF Elems
  <2> QED
    BY <2>1 DEF Init, NoExitedParent, NoLostWakeup, Waiting
<1> QED
  BY <1>1, <1>2 DEF Kin

\* Most actions leave the family alone.
LEMMA FamilyKept ==
  ASSUME [Next]_vars,
         ~ \E outcome \in {"live", "stillborn"} : init_process(outcome) /\ UserProgram,
         ~ \E code \in Int : KernelExit(code), ~TrapFault, ~KernelWaitReap
  PROVE  UNCHANGED <<ppid, num_children, life>>
<1>1. ~Exit /\ ~Abort
  BY Constants DEF Exit, Abort, ERROR
<1>2. ~KernelFork /\ ~KernelForkError /\ ~KernelForkNull
  BY DEF KernelFork, KernelForkError, KernelForkNull
<1>3. CASE TrapClock \/ TrapClockIdle \/ ResumeClock
  BY <1>3 DEF TrapClock, TrapClockIdle, ResumeClock, fields
<1>4. CASE ResumeNew \/ ResumeDelay \/ ResumeWait
  BY <1>4 DEF ResumeNew, ResumeDelay, ResumeWait, fields
<1>5. CASE KernelWaitBlock \/ Delay
  BY <1>5 DEF KernelWaitBlock, Delay, KernelDelay
<1>6. CASE UNCHANGED vars
  BY <1>6 DEF vars, fields
<1> QED
  BY <1>1, <1>2, <1>3, <1>4, <1>5, <1>6 DEF Next, Untimed

\* A birth: the child joins the children of the running process, and has
\* none of its own.
LEMMA BirthKinIn ==
  ASSUME NEW C, Typed(C), Births, NEW A, Placing(A), UserProgram,
         NEW outcome \in {"live", "stillborn"}, init_process(outcome)
  PROVE  /\ nextpid \in Pid /\ life[nextpid] = "unborn" /\ nextpid # activePCB
         /\ activePCB # idle
         /\ \A p \in Pid \ {idle} :
              Brood(p)' = IF p = activePCB THEN Brood(p) \cup {nextpid} ELSE Brood(p)
         /\ nextpid \notin Brood(activePCB)
         /\ Brood(nextpid) = {}
         /\ \A p \in Pid \ {activePCB} : num_children'[p] = num_children[p]
         /\ num_children'[activePCB] = num_children[activePCB] + 1
         /\ num_children[nextpid] = 0
         /\ ppid'[nextpid] = activePCB /\ life'[nextpid] = outcome
         /\ \A c \in Pid \ {nextpid} : ppid'[c] = ppid[c] /\ life'[c] = life[c]
<1> USE PlacedIn, Constants
<1>1. /\ nextpid \in Pid /\ life[nextpid] = "unborn" /\ activePCB # idle
      /\ ppid' = [ppid EXCEPT ![nextpid] = activePCB]
      /\ life' = [life EXCEPT ![nextpid] = outcome]
      /\ num_children' = [num_children EXCEPT ![activePCB] = @ + 1]
  BY DEF init_process, Typed, Births, Pid, UserProgram
<1>2. nextpid # activePCB /\ num_children[nextpid] = 0 /\ ppid[nextpid] = 0
  BY <1>1 DEF Births
<1>3. /\ ppid'[nextpid] = activePCB /\ life'[nextpid] = outcome
      /\ \A c \in Pid \ {nextpid} : ppid'[c] = ppid[c] /\ life'[c] = life[c]
  BY <1>1 DEF Typed
<1>4. /\ \A p \in Pid \ {activePCB} : num_children'[p] = num_children[p]
      /\ num_children'[activePCB] = num_children[activePCB] + 1
  BY <1>1 DEF Typed
<1>5. outcome \in Unreaped /\ life[nextpid] \notin Unreaped
  BY <1>1 DEF Unreaped
<1>6. \A p \in Pid : p = activePCB => Brood(p)' = Brood(p) \cup {nextpid}
  BY <1>1, <1>3, <1>5 DEF Brood
<1>7. nextpid \notin Brood(activePCB)
  BY <1>5 DEF Brood
<1>8. \A p \in Pid : p # activePCB /\ p # idle => Brood(p)' = Brood(p)
  BY <1>1, <1>3, <1>5 DEF Brood
<1>9. Brood(nextpid) = {}
  <2> SUFFICES ASSUME NEW c \in Pid, ppid[c] = nextpid PROVE FALSE
    BY DEF Brood
  <2>1. nextpid # 0 /\ nextpid \in Nat /\ c \in Nat
    BY <1>1 DEF Typed
  <2>2. nextpid < c
    BY <1>1, <2>1 DEF Births
  <2>3. life[c] = "unborn"
    BY <2>1, <2>2 DEF Births
  <2> QED
    BY <2>1, <2>3 DEF Births
<1> QED
  BY <1>1, <1>2, <1>3, <1>4, <1>6, <1>7, <1>8, <1>9

LEMMA BirthKin ==
  ASSUME TypeOK, Births, OnePlace, UserProgram,
         NEW outcome \in {"live", "stillborn"}, init_process(outcome)
  PROVE  /\ nextpid \in Pid /\ life[nextpid] = "unborn" /\ nextpid # activePCB
         /\ activePCB # idle
         /\ \A p \in Pid \ {idle} :
              Brood(p)' = IF p = activePCB THEN Brood(p) \cup {nextpid} ELSE Brood(p)
         /\ nextpid \notin Brood(activePCB)
         /\ Brood(nextpid) = {}
         /\ \A p \in Pid \ {activePCB} : num_children'[p] = num_children[p]
         /\ num_children'[activePCB] = num_children[activePCB] + 1
         /\ num_children[nextpid] = 0
         /\ ppid'[nextpid] = activePCB /\ life'[nextpid] = outcome
         /\ \A c \in Pid \ {nextpid} : ppid'[c] = ppid[c] /\ life'[c] = life[c]
  BY NoneAway, BirthKinIn

\* An exit: what it does to the children of the others.  A live parent is
\* told, at once when it waits and by a zombie when it does not, unless it is
\* in a queue that KernelExit does not search.
LEMMA ExitKinIn ==
  ASSUME NEW C, Typed(C), Births, NEW A, Placing(A), NEW code, KernelExit(code)
  PROVE  LET par == ppid[activePCB] IN
         /\ activePCB # idle /\ par \in Pid /\ par # activePCB
         /\ ppid'[activePCB] = par
         /\ life'[activePCB] = IF ParentMayWait THEN "zombie" ELSE "freed"
         /\ \A c \in Pid \ {activePCB} : ppid[c] # activePCB =>
              ppid'[c] = ppid[c] /\ life'[c] = life[c]
         /\ \A c \in Pid : ppid[c] = activePCB => ppid'[c] \in {0, activePCB}
         /\ \A c \in Pid \ {activePCB} : life'[c] \in {life[c], "dropped"}
         /\ \A p \in Pid : num_children'[p] =
              IF ParentWaits /\ p = par THEN num_children[p] - 1 ELSE num_children[p]
         /\ life[par] = "live" /\ par # idle /\ par \notin A =>
              (ParentWaits <=> ~ParentMayWait)
         /\ par \in A => ~ParentWaits /\ ~ParentMayWait
<1> USE PlacedIn, Constants
<1>1. PICK par \in Pid : par = ppid[activePCB]
  BY DEF Typed
<1>2. activePCB # idle /\ par # activePCB
  BY <1>1 DEF KernelExit, UserProgram, Births
<1>3. activePCB \notin ChildrenIn(ready_q) \cup ChildrenIn(blocked_q)
  BY DEF ChildrenIn
<1>4. ppid'[activePCB] = par
  BY <1>1, <1>3 DEF KernelExit
<1>5. life'[activePCB] = IF ParentMayWait THEN "zombie" ELSE "freed"
  BY DEF KernelExit
<1>6. \A c \in Pid \ {activePCB} : ppid[c] # activePCB =>
        ppid'[c] = ppid[c] /\ life'[c] = life[c]
  BY DEF KernelExit, ChildrenIn
<1>7. \A c \in Pid : ppid[c] = activePCB => ppid'[c] \in {0, activePCB}
  BY DEF KernelExit
<1>8. \A c \in Pid \ {activePCB} : life'[c] \in {life[c], "dropped"}
  BY DEF KernelExit
<1>9. \A p \in Pid : num_children'[p] =
        IF ParentWaits /\ p = par THEN num_children[p] - 1 ELSE num_children[p]
  BY <1>1 DEF KernelExit, OneFewer, Typed
<1>10. life[par] = "live" /\ par # idle /\ par \notin A =>
         (ParentWaits <=> ~ParentMayWait)
  <2> SUFFICES ASSUME life[par] = "live", par # idle, par \notin A
               PROVE  ParentWaits <=> ~ParentMayWait
    OBVIOUS
  <2>1. par \in Elems(ready_q) \cup Elems(blocked_q)
    BY <1>2 DEF Placing
  <2>2. HasKin
    BY <1>1 DEF HasKin
  <2> QED
    BY <1>1, <2>1, <2>2 DEF ParentMayWait, ParentWaits
<1>11. par \in A => ~ParentWaits /\ ~ParentMayWait
  BY <1>1 DEF ParentMayWait, ParentWaits
<1> QED
  BY <1>1, <1>2, <1>4, <1>5, <1>6, <1>7, <1>8, <1>9, <1>10, <1>11

LEMMA ExitKin ==
  ASSUME TypeOK, Births, OnePlace, NEW code, KernelExit(code)
  PROVE  LET par == ppid[activePCB] IN
         /\ activePCB # idle /\ par \in Pid /\ par # activePCB
         /\ ppid'[activePCB] = par
         /\ life'[activePCB] = IF ParentMayWait THEN "zombie" ELSE "freed"
         /\ \A c \in Pid \ {activePCB} : ppid[c] # activePCB =>
              ppid'[c] = ppid[c] /\ life'[c] = life[c]
         /\ \A c \in Pid : ppid[c] = activePCB => ppid'[c] \in {0, activePCB}
         /\ \A c \in Pid \ {activePCB} : life'[c] \in {life[c], "dropped"}
         /\ \A p \in Pid : num_children'[p] =
              IF ParentWaits /\ p = par THEN num_children[p] - 1 ELSE num_children[p]
         /\ life[par] = "live" /\ par # idle => (ParentWaits <=> ~ParentMayWait)
  BY NoneAway, ExitKinIn

\* A process reaped by Wait is one of the children of the running process.
LEMMA ReapKinIn ==
  ASSUME NEW C, Typed(C), NEW A, Placing(A), KernelWaitReap
  PROVE  \E z \in Pid :
           /\ ppid[z] = activePCB /\ life[z] \in {"zombie", "faulted"}
           /\ life' = [life EXCEPT ![z] = "reaped"] /\ ppid' = ppid
           /\ num_children' = [num_children EXCEPT ![activePCB] = @ - 1]
<1> USE PlacedIn
<1> DEFINE i == FirstIn(defunct_q, Zombies(activePCB))
<1>1. /\ Zombies(activePCB) # {}
      /\ life' = [life EXCEPT ![defunct_q[i]] = "reaped"] /\ ppid' = ppid
      /\ num_children' = [num_children EXCEPT ![activePCB] = @ - 1]
  BY DEF KernelWaitReap, OneFewer
<1>2. i \in 1 .. Len(defunct_q) /\ defunct_q[i] \in Zombies(activePCB)
  <2>1. Elems(defunct_q) \cap Zombies(activePCB) # {}
    BY <1>1 DEF Zombies
  <2> QED
    BY <2>1, FirstInLeast
<1> HIDE DEF i
<1>3. /\ defunct_q[i] \in Pid /\ ppid[defunct_q[i]] = activePCB
      /\ life[defunct_q[i]] \in {"zombie", "faulted"}
  BY <1>2 DEF Zombies
<1> QED
  BY <1>1, <1>3

LEMMA ReapKin ==
  ASSUME TypeOK, OnePlace, KernelWaitReap
  PROVE  \E z \in Pid :
           /\ ppid[z] = activePCB /\ life[z] \in {"zombie", "faulted"}
           /\ life' = [life EXCEPT ![z] = "reaped"] /\ ppid' = ppid
           /\ num_children' = [num_children EXCEPT ![activePCB] = @ - 1]
  BY NoneAway, ReapKinIn

-----------------------------------------------------------------------------
(* num_children.                                                           *)

\* The children that num_children of p counts, when those in M were missed.
Counted(p, M) == Brood(p) \cup {c \in M : ppid[c] = p}

\* They are finitely many.
LEMMA CountedFinite ==
  ASSUME NEW p, NEW M \in SUBSET Pid
  PROVE  IsFiniteSet(Counted(p, M)) /\ Cardinality(Counted(p, M)) \in Nat
<1>1. IsFiniteSet(Pid)
  BY Constants, FS_Interval DEF Pid
<1>2. Counted(p, M) \in SUBSET Pid
  BY DEF Brood, Counted
<1> QED
  BY <1>1, <1>2, FS_Subset, FS_CardinalityType

\* Those that were missed are gone.
Gone(M) == M \subseteq Pid /\ \A c \in M : life[c] \in {"freed", "reaped", "dropped"}

\* The count is preserved when some processes, A, are in queues that
\* KernelExit does not search: their children that exit are added to M.
LEMMA CountStepIn ==
  ASSUME NEW C, Typed(C), Births, NEW A, Placing(A), [Next]_vars,
         NEW M, Gone(M),
         \A p \in Pid \ {idle} : life[p] = "live" =>
           num_children[p] = Cardinality(Counted(p, M)),
         NEW N, N = M \cup {p \in Pid : /\ life[p] = "live" /\ life'[p] = "freed"
                                       /\ ppid[p] \in A}
  PROVE  /\ Gone(N)'
         /\ \A p \in Pid \ {idle} : life'[p] = "live" =>
              num_children'[p] = Cardinality(Counted(p, N)')
<1> USE PlacedIn, Constants
<1>0. M \in SUBSET Pid /\ N \subseteq Pid
  BY DEF Gone
<1>1. ASSUME NEW outcome \in {"live", "stillborn"}, init_process(outcome), UserProgram
      PROVE  /\ Gone(N)'
             /\ \A p \in Pid \ {idle} : life'[p] = "live" =>
                  num_children'[p] = Cardinality(Counted(p, N)')
  <2>1. /\ nextpid \in Pid /\ life[nextpid] = "unborn"
        /\ \A c \in Pid \ {nextpid} : ppid'[c] = ppid[c] /\ life'[c] = life[c]
    BY <1>1, BirthKinIn
  <2>2. N = M /\ nextpid \notin M
    BY <2>1 DEF Gone
  <2>3. Gone(N)'
    BY <2>1, <2>2 DEF Gone
  <2> SUFFICES ASSUME NEW p \in Pid \ {idle}, life'[p] = "live"
               PROVE  num_children'[p] = Cardinality(Counted(p, N)')
    BY <2>3
  <2>4. {c \in N : ppid'[c] = p} = {c \in M : ppid[c] = p}
    <3>1. \A c \in M : ppid'[c] = ppid[c]
      BY <1>0, <2>1, <2>2
    <3> QED
      BY <2>2, <3>1, Zenon
  <2>5. CASE p = activePCB
    <3>1. /\ Brood(p)' = Brood(p) \cup {nextpid} /\ nextpid \notin Brood(p)
          /\ num_children'[p] = num_children[p] + 1
      BY <1>1, <2>5, BirthKinIn
    <3>2. /\ Counted(p, N)' = Counted(p, M) \cup {nextpid}
          /\ nextpid \notin Counted(p, M)
      BY <2>2, <2>4, <3>1 DEF Counted
    <3>3. Cardinality(Counted(p, M) \cup {nextpid}) = Cardinality(Counted(p, M)) + 1
      BY <1>0, <3>2, CountedFinite, FS_AddElement
    <3> QED
      BY <2>5, <3>1, <3>2, <3>3
  <2>6. CASE p # activePCB
    <3>1. /\ Brood(p)' = Brood(p) /\ num_children'[p] = num_children[p]
          /\ p = nextpid => Brood(p) = {} /\ num_children[p] = 0
          /\ p # nextpid => life'[p] = life[p]
      BY <1>1, <2>6, BirthKinIn
    <3>2. Counted(p, N)' = Counted(p, M)
      BY <2>4, <3>1 DEF Counted
    <3>3. CASE p = nextpid
      <4>1. ASSUME NEW c \in M, ppid[c] = nextpid
            PROVE  FALSE
        <5>1. c \in Pid /\ nextpid # 0 /\ nextpid \in Nat /\ c \in Nat
          BY <1>0, <2>1 DEF Typed
        <5>2. nextpid < c
          BY <4>1, <5>1 DEF Births
        <5>3. life[c] = "unborn"
          BY <5>1, <5>2 DEF Births
        <5> QED
          BY <4>1, <5>3 DEF Gone
      <4>2. Counted(p, M) = {}
        BY <3>1, <3>3, <4>1 DEF Counted
      <4> QED
        BY <3>1, <3>2, <3>3, <4>2, FS_EmptySet
    <3>4. CASE p # nextpid
      BY <3>1, <3>2, <3>4
    <3> QED
      BY <3>3, <3>4
  <2> QED
    BY <2>5, <2>6
<1>2. ASSUME NEW code, KernelExit(code)
      PROVE  /\ Gone(N)'
             /\ \A p \in Pid \ {idle} : life'[p] = "live" =>
                  num_children'[p] = Cardinality(Counted(p, N)')
  <2>0. PICK par \in Pid : par = ppid[activePCB]
    BY DEF Typed
  <2>1. /\ par # activePCB /\ ppid'[activePCB] = par
        /\ life'[activePCB] = IF ParentMayWait THEN "zombie" ELSE "freed"
        /\ \A c \in Pid \ {activePCB} : ppid[c] # activePCB =>
              ppid'[c] = ppid[c] /\ life'[c] = life[c]
        /\ \A c \in Pid : ppid[c] = activePCB => ppid'[c] \in {0, activePCB}
        /\ \A c \in Pid \ {activePCB} : life'[c] \in {life[c], "dropped"}
        /\ \A p \in Pid : num_children'[p] =
              IF ParentWaits /\ p = par THEN num_children[p] - 1 ELSE num_children[p]
        /\ life[par] = "live" /\ par # idle /\ par \notin A =>
              (ParentWaits <=> ~ParentMayWait)
        /\ par \in A => ~ParentWaits /\ ~ParentMayWait
    BY <1>2, <2>0, ExitKinIn
  <2>2. /\ activePCB \notin M
        /\ \A c \in Pid \ {activePCB} : c \in N <=> c \in M
        /\ activePCB \in N <=> par \in A
    BY <1>0, <2>0, <2>1 DEF Gone
  <2>3. Gone(N)'
    BY <1>0, <2>1, <2>2 DEF Gone
  <2> SUFFICES ASSUME NEW p \in Pid \ {idle}, life'[p] = "live"
               PROVE  num_children'[p] = Cardinality(Counted(p, N)')
    BY <2>3
  <2>4. p # activePCB /\ life[p] = "live"
    BY <2>1
  <2>5. \A c \in Pid \ {activePCB} : c \in Counted(p, N)' <=> c \in Counted(p, M)
    <3> SUFFICES ASSUME NEW c \in Pid \ {activePCB}
                 PROVE  c \in Counted(p, N)' <=> c \in Counted(p, M)
      OBVIOUS
    <3>1. ppid'[c] = p <=> ppid[c] = p
      BY <2>1, <2>4
    <3>2. ppid[c] = p => life'[c] = life[c]
      BY <2>1, <2>4
    <3> QED
      BY <2>2, <3>1, <3>2 DEF Counted, Brood
  <2>6. activePCB \in Counted(p, M) <=> p = par
    BY <2>0, <2>2 DEF Counted, Brood, Unreaped
  <2>7. activePCB \in Counted(p, N)' <=> p = par /\ (ParentMayWait \/ par \in A)
    BY <2>1, <2>2 DEF Counted, Brood, Unreaped
  <2>8. Counted(p, N)' \subseteq Pid /\ Counted(p, M) \subseteq Pid
    BY <1>0 DEF Counted, Brood
  <2>9. CASE p = par /\ ParentWaits
    <3>1. Counted(p, N)' = Counted(p, M) \ {activePCB}
      <4>1. activePCB \notin Counted(p, N)'
        BY <2>1, <2>4, <2>7, <2>9
      <4> QED
        BY <2>5, <2>8, <4>1
    <3>2. Cardinality(Counted(p, M) \ {activePCB}) = Cardinality(Counted(p, M)) - 1
      <4>1. IsFiniteSet(Counted(p, M)) /\ activePCB \in Counted(p, M)
        BY <1>0, <2>6, <2>9, CountedFinite
      <4> QED
        BY <4>1, FS_RemoveElement
    <3>3. num_children'[p] = num_children[p] - 1 /\ num_children[p] = Cardinality(Counted(p, M))
      BY <2>1, <2>4, <2>9
    <3> QED
      BY <3>1, <3>2, <3>3
  <2>10. CASE ~(p = par /\ ParentWaits)
    <3>1. \A c \in Pid : c \in Counted(p, N)' <=> c \in Counted(p, M)
      BY <2>1, <2>4, <2>5, <2>6, <2>7, <2>10
    <3>2. Counted(p, N)' = Counted(p, M)
      BY <2>8, <3>1
    <3> QED
      BY <2>1, <2>4, <2>10, <3>2
  <2> QED
    BY <2>9, <2>10
<1>3. CASE TrapFault
  <2>1. /\ life' = [life EXCEPT ![activePCB] = "faulted"]
        /\ ppid' = ppid /\ num_children' = num_children
    BY <1>3 DEF TrapFault
  <2>2. \A c \in Pid : life'[c] = IF c = activePCB THEN "faulted" ELSE life[c]
    BY <2>1 DEF Typed
  <2>3. N = M
    BY <2>2
  <2>4. Gone(N)'
    BY <2>2, <2>3 DEF Gone
  <2>5. \A p \in Pid : Counted(p, N)' = Counted(p, M)
    BY <2>1, <2>2, <2>3 DEF Counted, Brood, Unreaped
  <2> QED
    BY <2>1, <2>2, <2>4, <2>5
<1>4. CASE KernelWaitReap
  <2>1. PICK z \in Pid :
           /\ ppid[z] = activePCB /\ life[z] \in {"zombie", "faulted"}
           /\ life' = [life EXCEPT ![z] = "reaped"] /\ ppid' = ppid
           /\ num_children' = [num_children EXCEPT ![activePCB] = @ - 1]
    BY <1>4, ReapKinIn
  <2>2. \A c \in Pid : life'[c] = IF c = z THEN "reaped" ELSE life[c]
    BY <2>1 DEF Typed
  <2>3. N = M /\ z \notin M
    BY <2>1, <2>2 DEF Gone
  <2>4. Gone(N)'
    BY <2>2, <2>3 DEF Gone
  <2> SUFFICES ASSUME NEW p \in Pid \ {idle}, life'[p] = "live"
               PROVE  num_children'[p] = Cardinality(Counted(p, N)')
    BY <2>4
  <2>5. life[p] = "live"
    BY <2>2
  <2>6. CASE p = activePCB
    <3>1. Brood(p)' = Brood(p) \ {z} /\ z \in Brood(p)
      BY <2>1, <2>2, <2>6 DEF Brood, Unreaped
    <3>2. Counted(p, N)' = Counted(p, M) \ {z} /\ z \in Counted(p, M)
      BY <2>1, <2>3, <3>1 DEF Counted
    <3>3. Cardinality(Counted(p, M) \ {z}) = Cardinality(Counted(p, M)) - 1
      <4>1. IsFiniteSet(Counted(p, M))
        BY <1>0, CountedFinite
      <4> QED
        BY <3>2, <4>1, FS_RemoveElement
    <3>4. num_children'[p] = num_children[p] - 1
      BY <2>1, <2>6 DEF Typed
    <3> QED
      BY <2>5, <3>2, <3>3, <3>4
  <2>7. CASE p # activePCB
    <3>1. Counted(p, N)' = Counted(p, M)
      BY <2>1, <2>2, <2>3, <2>7 DEF Counted, Brood, Unreaped
    <3>2. num_children'[p] = num_children[p]
      BY <2>1, <2>7 DEF Typed
    <3> QED
      BY <2>5, <3>1, <3>2
  <2> QED
    BY <2>6, <2>7
<1>5. ASSUME UNCHANGED <<ppid, num_children, life>>
      PROVE  /\ Gone(N)'
             /\ \A p \in Pid \ {idle} : life'[p] = "live" =>
                  num_children'[p] = Cardinality(Counted(p, N)')
  <2>1. N = M
    BY <1>5
  <2> QED
    <3>1. \A p : Counted(p, N)' = Counted(p, M)
      BY <1>5, <2>1 DEF Counted, Brood
    <3>2. Gone(N)'
      BY <1>5, <2>1 DEF Gone
    <3> QED
      BY <1>5, <3>1, <3>2
<1> QED
  BY <1>1, <1>2, <1>3, <1>4, <1>5, FamilyKept

\* ChildCount is preserved: nobody is missed when all queues are searched.
LEMMA ChildCountStep ==
  ASSUME TypeOK, Births, OnePlace, ChildCount, [Next]_vars
  PROVE  ChildCount'
<1>1. Typed(Contexts) /\ Placing({})
  BY NoneAway
<1>2. \A p : Counted(p, {}) = Brood(p) /\ Counted(p, {})' = Brood(p)'
  BY DEF Counted
<1>3. Gone({})
  BY DEF Gone
<1>4. \A p \in Pid \ {idle} : life[p] = "live" =>
        num_children[p] = Cardinality(Counted(p, {}))
  BY <1>2 DEF ChildCount
<1>5. {} = {} \cup {p \in Pid : life[p] = "live" /\ life'[p] = "freed" /\ ppid[p] \in {}}
  OBVIOUS
<1>6. \A p \in Pid \ {idle} : life'[p] = "live" =>
        num_children'[p] = Cardinality(Counted(p, {})')
  BY <1>1, <1>3, <1>4, <1>5, CountStepIn
<1> QED
  BY <1>2, <1>6 DEF ChildCount

-----------------------------------------------------------------------------
(* Parents that are gone.                                                  *)

\* The context of a process that exited is never used again, and the running
\* process is not one of them.
LEMMA ExitedStay ==
  ASSUME TypeOK, Births, OnePlace, Contexted, [Next]_vars, NEW p \in Pid,
         pc'[p] = "exit"
  PROVE  pc[p] = "exit" \/ (p = activePCB /\ \E code \in Int : KernelExit(code))
<1> USE Placed, Constants
<1>1. CASE TrapClock
  BY <1>1 DEF TrapClock, SaveContext, TypeOK
<1>2. CASE ResumeClock \/ ResumeNew \/ ResumeDelay \/ ResumeWait
  <2>1. pc' = [pc EXCEPT ![activePCB] = "user"]
    BY <1>2 DEF ResumeClock, ResumeNew, ResumeDelay, ResumeWait
  <2> QED
    BY <2>1 DEF TypeOK
<1>3. CASE KernelFork
  BY <1>3 DEF KernelFork, init_process, TypeOK, Pid
<1>4. CASE KernelForkError \/ KernelForkNull \/ KernelWaitReap \/ TrapClockIdle
           \/ UNCHANGED vars
  BY <1>4 DEF KernelForkError, KernelForkNull, KernelWaitReap, TrapClockIdle, vars
<1>5. ASSUME NEW code \in Int, KernelExit(code)
      PROVE  pc[p] = "exit" \/ p = activePCB
  BY <1>5 DEF KernelExit, SaveContext, TypeOK
<1>6. CASE Exit \/ Abort
  BY <1>5, <1>6 DEF Exit, Abort, ERROR
<1>7. CASE TrapFault
  BY <1>7 DEF TrapFault, SaveContext, TypeOK
<1>8. CASE KernelWaitBlock
  BY <1>8 DEF KernelWaitBlock, SaveContext, TypeOK
<1>9. CASE Delay
  BY <1>9 DEF Delay, KernelDelay, SaveContext, TypeOK
<1> QED
  BY <1>1, <1>2, <1>3, <1>4, <1>6, <1>7, <1>8, <1>9 DEF Next, Untimed

\* An exit leaves no process in a queue with the exiting process as parent.
LEMMA NoneLeft ==
  ASSUME TypeOK, Births, OnePlace, ChildCount, NEW code, KernelExit(code),
         NEW c \in Pid, life'[c] \in {"live", "zombie", "faulted"},
         ppid'[c] = activePCB
  PROVE  FALSE
<1> USE Placed, Constants
<1>0. activePCB \in Pid /\ activePCB \in Nat /\ life[activePCB] = "live"
  OBVIOUS
<1>1. activePCB # idle /\ ppid[c] = activePCB /\ c # activePCB
  BY ExitKin DEF KernelExit, Births
<1>2. life[c] \in {"live", "zombie", "faulted"} /\ life'[c] = life[c]
  BY <1>1, ExitKin
<1>3. c # idle
  BY <1>0, <1>1 DEF Births
<1>4. c \in Elems(ready_q) \cup Elems(blocked_q) \cup Elems(defunct_q)
  BY <1>1, <1>2, <1>3 DEF OnePlace
<1>5. HasKin
  <2>1. c \in Brood(activePCB)
    BY <1>1, <1>2 DEF Brood, Unreaped
  <2>2. Cardinality(Brood(activePCB)) # 0 /\ Cardinality(Brood(activePCB)) \in Nat
    BY <2>1, BroodFinite, FS_EmptySet
  <2>3. num_children[activePCB] = Cardinality(Brood(activePCB))
    BY <1>0, <1>1 DEF ChildCount
  <2> QED
    BY <2>2, <2>3 DEF HasKin
<1>6. CASE c \in Elems(ready_q) \cup Elems(blocked_q)
  <2>1. ppid'[c] = 0
    BY <1>1, <1>5, <1>6 DEF KernelExit, ChildrenIn
  <2> QED
    BY <1>1, <2>1
<1>7. CASE c \in Elems(defunct_q)
  <2>1. life'[c] = "dropped"
    BY <1>1, <1>5, <1>7 DEF KernelExit, ChildrenIn
  <2> QED
    BY <2>1
<1> QED
  BY <1>4, <1>6, <1>7

\* NoExitedParent is preserved.
LEMMA NoExitedParentStep ==
  ASSUME TypeOK, Births, OnePlace, Contexted, ChildCount, NoExitedParent,
         [Next]_vars
  PROVE  NoExitedParent'
<1> USE Placed, Constants
<1> SUFFICES ASSUME NEW c \in Pid, life'[c] \in {"live", "zombie", "faulted"},
                    ppid'[c] # 0, pc'[ppid'[c]] = "exit"
             PROVE  FALSE
  BY DEF NoExitedParent
<1>0. /\ ppid[c] \in Pid /\ ppid'[c] \in Pid
      /\ life[c] \in {"live", "zombie", "faulted"} /\ ppid[c] # 0 => pc[ppid[c]] # "exit"
      /\ pc[activePCB] # "exit"
  BY TypeStep DEF TypeOK, NoExitedParent, Contexted, ContextMatches
<1>1. ASSUME NEW outcome \in {"live", "stillborn"}, init_process(outcome), UserProgram
      PROVE  FALSE
  <2>1. ~ \E code \in Int : KernelExit(code)
    <3> SUFFICES ASSUME NEW code \in Int, KernelExit(code) PROVE FALSE
      OBVIOUS
    <3>1. nextpid' = nextpid
      BY DEF KernelExit
    <3>2. nextpid' = nextpid + 1
      BY <1>1 DEF init_process
    <3>3. nextpid \in Nat
      BY DEF TypeOK
    <3> QED
      BY <3>1, <3>2, <3>3
  <2>2. pc[ppid'[c]] = "exit"
    BY <1>0, <2>1, ExitedStay
  <2>3. /\ c = nextpid => ppid'[c] = activePCB
        /\ c # nextpid => ppid'[c] = ppid[c] /\ life'[c] = life[c]
    BY <1>1, BirthKin
  <2> QED
    BY <1>0, <2>2, <2>3
<1>2. ASSUME NEW code \in Int, KernelExit(code)
      PROVE  FALSE
  <2>1. ppid'[c] # activePCB
    BY <1>2, NoneLeft
  <2>2. pc[ppid'[c]] = "exit"
    BY <1>0, <2>1, ExitedStay
  <2>3. ppid'[c] = ppid[c] /\ life[c] \in {"live", "zombie", "faulted"}
    <3>1. CASE c = activePCB
      BY <1>2, <3>1, ExitKin
    <3>2. CASE c # activePCB
      BY <1>2, <2>1, <3>2, ExitKin
    <3> QED
      BY <3>1, <3>2
  <2> QED
    BY <1>0, <2>2, <2>3
<1>3. ASSUME ~ \E code \in Int : KernelExit(code),
             ppid' = ppid, life[c] \in {"live", "zombie", "faulted"}
      PROVE  FALSE
  BY <1>0, <1>3, ExitedStay
<1>4. CASE TrapFault
  <2>1. /\ ppid' = ppid /\ life' = [life EXCEPT ![activePCB] = "faulted"]
        /\ pc' = [pc EXCEPT ![activePCB] = "fault"]
    BY <1>4 DEF TrapFault, SaveContext
  <2>2. life[c] \in {"live", "zombie", "faulted"}
    BY <2>1 DEF TypeOK
  <2>3. pc[ppid[c]] = "exit"
    BY <1>0, <2>1 DEF TypeOK
  <2> QED
    BY <1>0, <2>1, <2>2, <2>3
<1>5. CASE KernelWaitReap
  <2>1. PICK z \in Pid : life' = [life EXCEPT ![z] = "reaped"] /\ ppid' = ppid
    BY <1>5, ReapKin
  <2>2. life[c] \in {"live", "zombie", "faulted"}
    BY <2>1 DEF TypeOK
  <2>3. pc' = pc
    BY <1>5 DEF KernelWaitReap
  <2> QED
    BY <1>0, <2>1, <2>2, <2>3
<1> QED
  BY <1>1, <1>2, <1>3, <1>4, <1>5, FamilyKept

-----------------------------------------------------------------------------
(* Wait.                                                                   *)

\* A process that is blocked in Wait after a step was so before, or is the
\* one that has just called Wait.
LEMMA WaitingBefore ==
  ASSUME TypeOK, Births, OnePlace, [Next]_vars, NEW p \in Pid, Waiting(p)'
  PROVE  Waiting(p) \/ (p = activePCB /\ KernelWaitBlock)
<1> USE Placed, Constants
<1>0. p \in Elems(blocked_q') /\ blocked_code'[p] = BLOCKED_WAIT
  BY DEF Waiting
<1>1. CASE TrapClock
  <2>1. SwapProcess("ready", ready_q, blocked_q, defunct_q) /\ blocked_code' = blocked_code
    BY <1>1 DEF TrapClock, fields
  <2> QED
    BY <1>0, <2>1, SwapNow DEF Waiting
<1>2. CASE TrapClockIdle \/ ResumeClock
  <2>1. ScanBlocked
    BY <1>2 DEF TrapClockIdle, ResumeClock
  <2>2. p \in Elems(blocked_q) \ Expired
    BY <1>0, <2>1, ScanPlaces
  <2>3. blocked_code'[p] = blocked_code[p]
    BY <2>1, <2>2 DEF ScanBlocked
  <2> QED
    BY <1>0, <2>2, <2>3 DEF Waiting
<1>3. CASE ResumeNew \/ ResumeDelay \/ ResumeWait
  <2>1. blocked_q' = blocked_q
    BY <1>3 DEF ResumeNew, ResumeDelay, ResumeWait, queues
  <2>2. blocked_code' = blocked_code
        \/ blocked_code' = [blocked_code EXCEPT ![activePCB] = NOT_BLOCKED]
    BY <1>3 DEF ResumeNew, ResumeDelay, ResumeWait, fields
  <2>3. p \in Elems(blocked_q) /\ p # activePCB
    BY <1>0, <2>1
  <2>4. blocked_code'[p] = blocked_code[p]
    <3>1. CASE blocked_code' = blocked_code
      BY <3>1
    <3>2. CASE blocked_code' = [blocked_code EXCEPT ![activePCB] = NOT_BLOCKED]
      BY <2>3, <3>2 DEF TypeOK
    <3> QED
      BY <2>2, <3>1, <3>2
  <2> QED
    BY <1>0, <2>3, <2>4 DEF Waiting
<1>4. CASE KernelFork \/ KernelForkError \/ KernelForkNull \/ KernelWaitReap
           \/ UNCHANGED vars
  <2>1. blocked_q' = blocked_q /\ blocked_code' = blocked_code
    BY <1>4 DEF KernelFork, KernelForkError, KernelForkNull, KernelWaitReap,
                init_process, queues, fields, vars
  <2> QED
    BY <1>0, <2>1 DEF Waiting
<1>5. ASSUME NEW code, KernelExit(code)
      PROVE  Waiting(p)
  BY <1>0, <1>5, ExitPlaces DEF Waiting
<1>6. CASE Exit \/ Abort
  BY <1>5, <1>6 DEF Exit, Abort
<1>7. CASE TrapFault
  <2>1. SwapProcess("defunct", ready_q, blocked_q, defunct_q) /\ blocked_code' = blocked_code
    BY <1>7 DEF TrapFault
  <2> QED
    BY <1>0, <2>1, SwapNow DEF Waiting
<1>8. CASE KernelWaitBlock
  <2>1. /\ SwapProcess("blocked", ready_q, blocked_q, defunct_q)
        /\ blocked_code' = [blocked_code EXCEPT ![activePCB] = BLOCKED_WAIT]
    BY <1>8 DEF KernelWaitBlock
  <2>2. p # activePCB => blocked_code'[p] = blocked_code[p]
    BY <2>1 DEF TypeOK
  <2>3. p \in Elems(blocked_q) \cup {activePCB}
    BY <1>0, <2>1, SwapNow
  <2> QED
    BY <1>0, <1>8, <2>2, <2>3 DEF Waiting
<1>9. CASE Delay
  <2>1. /\ SwapProcess("blocked", ready_q, blocked_q, defunct_q)
        /\ blocked_code' = [blocked_code EXCEPT ![activePCB] = BLOCKED_DELAY]
    BY <1>9 DEF Delay, KernelDelay
  <2>2. p # activePCB
    BY <1>0, <2>1 DEF TypeOK, BLOCKED_DELAY, BLOCKED_WAIT
  <2>3. p \in Elems(blocked_q) \cup {activePCB}
    BY <1>0, <2>1, SwapNow
  <2>4. blocked_code'[p] = blocked_code[p]
    BY <2>1, <2>2 DEF TypeOK
  <2> QED
    BY <1>0, <2>2, <2>3, <2>4 DEF Waiting
<1> QED
  BY <1>1, <1>2, <1>3, <1>4, <1>6, <1>7, <1>8, <1>9 DEF Next, Untimed

\* NoLostWakeup is preserved.
LEMMA NoLostWakeupStep ==
  ASSUME TypeOK, Births, OnePlace, ChildCount, NoLostWakeup, [Next]_vars
  PROVE  NoLostWakeup'
<1> USE Placed, Constants
<1> SUFFICES ASSUME NEW p \in Pid, Waiting(p)'
             PROVE  /\ \A c \in Pid : ppid'[c] = p => life'[c] # "zombie"
                    /\ num_children'[p] > 0
  BY DEF NoLostWakeup
<1>1. CASE KernelWaitBlock /\ p = activePCB
  <2>1. /\ p # idle /\ life[p] = "live" /\ num_children[p] # 0 /\ Zombies(p) = {}
        /\ UNCHANGED <<ppid, num_children, life>>
    BY <1>1 DEF KernelWaitBlock, UserProgram
  <2>2. num_children[p] = Cardinality(Brood(p)) /\ Cardinality(Brood(p)) \in Nat
    BY <2>1, BroodFinite DEF ChildCount
  <2>3. \A c \in Pid : ppid[c] = p => life[c] # "zombie"
    BY <2>1 DEF Zombies, OnePlace
  <2> QED
    BY <2>1, <2>2, <2>3
<1> SUFFICES ASSUME Waiting(p)
             PROVE  /\ \A c \in Pid : ppid'[c] = p => life'[c] # "zombie"
                    /\ num_children'[p] > 0
  BY <1>1, WaitingBefore
<1>2. /\ p \in Elems(blocked_q) /\ p # activePCB /\ p # idle /\ life[p] = "live"
      /\ blocked_code[p] = BLOCKED_WAIT
      /\ \A c \in Pid : ppid[c] = p => life[c] # "zombie"
      /\ num_children[p] > 0 /\ num_children[p] \in Int
  BY DEF Waiting, NoLostWakeup, TypeOK
<1>3. ASSUME NEW outcome \in {"live", "stillborn"}, init_process(outcome), UserProgram
      PROVE  /\ \A c \in Pid : ppid'[c] = p => life'[c] # "zombie"
             /\ num_children'[p] > 0
  BY <1>2, <1>3, BirthKin, ZenonT(60)
<1>4. ASSUME NEW code \in Int, KernelExit(code)
      PROVE  /\ \A c \in Pid : ppid'[c] = p => life'[c] # "zombie"
             /\ num_children'[p] > 0
  <2>0. PICK par \in Pid : par = ppid[activePCB]
    BY DEF TypeOK
  <2>1. /\ ppid'[activePCB] = par
        /\ life'[activePCB] = IF ParentMayWait THEN "zombie" ELSE "freed"
        /\ \A c \in Pid \ {activePCB} : ppid[c] # activePCB =>
             ppid'[c] = ppid[c] /\ life'[c] = life[c]
        /\ \A c \in Pid : ppid[c] = activePCB => ppid'[c] \in {0, activePCB}
        /\ num_children'[p] =
             IF ParentWaits /\ p = par THEN num_children[p] - 1 ELSE num_children[p]
    BY <1>4, <2>0, ExitKin
  <2>2. p # par
    <3> SUFFICES ASSUME p = par PROVE FALSE
      OBVIOUS
    <3>1. ParentWaits
      BY <1>2, <2>0 DEF ParentWaits, HasKin
    <3>2. p \notin Elems(blocked_q')
      BY <1>4, <2>0, <3>1, ExitPlaces
    <3> QED
      BY <3>2 DEF Waiting
  <2>3. num_children'[p] > 0
    BY <1>2, <2>1, <2>2
  <2>4. \A c \in Pid : ppid'[c] = p => life'[c] # "zombie"
    BY <1>2, <2>1, <2>2, SMTT(40)
  <2> QED
    BY <2>3, <2>4
<1>5. CASE TrapFault
  <2>1. /\ ppid' = ppid /\ num_children' = num_children
        /\ life' = [life EXCEPT ![activePCB] = "faulted"]
    BY <1>5 DEF TrapFault
  <2> QED
    BY <1>2, <2>1 DEF TypeOK
<1>6. CASE KernelWaitReap
  <2>1. PICK z \in Pid :
           /\ life' = [life EXCEPT ![z] = "reaped"] /\ ppid' = ppid
           /\ num_children' = [num_children EXCEPT ![activePCB] = @ - 1]
    BY <1>6, ReapKin
  <2> QED
    BY <1>2, <2>1 DEF TypeOK
<1>7. CASE UNCHANGED <<ppid, num_children, life>>
  BY <1>2, <1>7
<1> QED
  BY <1>3, <1>4, <1>5, <1>6, <1>7, FamilyKept

-----------------------------------------------------------------------------
(* The theorems.                                                           *)

KinInv == TypeOK /\ Births /\ OnePlace /\ Contexted /\ Kin

\* The invariant of parents and children holds throughout.
LEMMA KinHolds == Spec => []KinInv
<1>1. Init => KinInv
  BY TypeInit, BirthsInit, OnePlaceInit, ContextInit, KinInit DEF KinInv
<1>2. KinInv /\ [Next]_vars => KinInv'
  BY TypeStep, BirthsStep, OnePlaceStep, ContextStep, ChildCountStep,
     NoExitedParentStep, NoLostWakeupStep DEF KinInv, Kin
<1> QED
  BY <1>1, <1>2, PTL DEF Spec

\* num_children, on which KernelWait and KernelExit decide, counts exactly the
\* children that are not reaped yet.
THEOREM ChildCountCorrect == Spec => []ChildCount
<1>1. KinInv => ChildCount
  BY DEF KinInv, Kin
<1> QED
  BY <1>1, KinHolds, PTL

\* KernelExit makes orphans of all its children that are still in a queue: no
\* process keeps the pid of a parent that has exited.
THEOREM NoExitedParentCorrect == Spec => []NoExitedParent
<1>1. KinInv => NoExitedParent
  BY DEF KinInv, Kin
<1> QED
  BY <1>1, KinHolds, PTL

\* The exit of a child never goes unnoticed by a parent blocked in Wait, and a
\* parent blocks only while its num_children is positive.
THEOREM NoLostWakeupCorrect == Spec => []NoLostWakeup
<1>1. KinInv => NoLostWakeup
  BY DEF KinInv, Kin
<1> QED
  BY <1>1, KinHolds, PTL

\* No Fork has failed half way.
NoStillborn == \A c \in Pid : life[c] # "stillborn"

\* When Fork does not run out of frames, nothing else leaves a process that
\* was counted and never scheduled.
LEMMA NoStillbornStep ==
  ASSUME TypeOK, OnePlace, ~ForkMayFail, NoStillborn, [Next]_vars
  PROVE  NoStillborn'
<1> USE Placed, Constants
<1> SUFFICES ASSUME NEW c \in Pid PROVE life'[c] # "stillborn"
  BY DEF NoStillborn
<1>0. life[c] # "stillborn"
  BY DEF NoStillborn
<1>1. CASE KernelFork
  BY <1>0, <1>1 DEF KernelFork, init_process, TypeOK
<1>2. ~KernelForkError /\ ~KernelForkNull
  BY DEF KernelForkError, KernelForkNull
<1>3. CASE TrapClock \/ TrapClockIdle \/ ResumeClock \/ ResumeNew \/ ResumeDelay
           \/ ResumeWait \/ KernelWaitBlock \/ Delay \/ UNCHANGED vars
  BY <1>0, <1>3 DEF TrapClock, TrapClockIdle, ResumeClock, ResumeNew, ResumeDelay,
     ResumeWait, KernelWaitBlock, Delay, KernelDelay, vars
<1>4. CASE Exit \/ Abort
  BY <1>0, <1>4 DEF Exit, Abort, KernelExit
<1>5. CASE TrapFault
  BY <1>0, <1>5 DEF TrapFault, TypeOK
<1>6. CASE KernelWaitReap
  <2>1. PICK z \in Pid : life' = [life EXCEPT ![z] = "reaped"]
    BY <1>6, ReapKin
  <2> QED
    BY <1>0, <2>1 DEF TypeOK
<1> QED
  BY <1>1, <1>2, <1>3, <1>4, <1>5, <1>6 DEF Next, Untimed

\* A process waits only for a child that exists, if no Fork runs out of
\* frames: the comment of KernelWait is wrong only because a Fork that fails
\* leaves its child counted.
THEOREM WaitOnlyForChildrenCorrect ==
  ~ForkMayFail => (Spec => []WaitOnlyForChildren)
<1> SUFFICES ASSUME ~ForkMayFail PROVE Spec => []WaitOnlyForChildren
  OBVIOUS
<1>1. Init => NoStillborn
  BY DEF Init, NoStillborn
<1>2. KinInv /\ NoStillborn /\ [Next]_vars => NoStillborn'
  BY NoStillbornStep DEF KinInv
<1>3. KinInv /\ NoStillborn => WaitOnlyForChildren
  <2> SUFFICES ASSUME KinInv, NoStillborn, NEW p \in Pid, Waiting(p)
               PROVE  \E c \in Pid :
                        ppid[c] = p /\ life[c] \in {"live", "zombie", "faulted"}
    BY DEF WaitOnlyForChildren
  <2>1. TypeOK /\ OnePlace /\ ChildCount /\ NoLostWakeup
    BY DEF KinInv, Kin
  <2>2. p # idle /\ life[p] = "live" /\ num_children[p] > 0
    BY <2>1, Placed DEF Waiting, NoLostWakeup
  <2>3. Cardinality(Brood(p)) # 0
    BY <2>1, <2>2 DEF ChildCount
  <2>4. Brood(p) # {}
    BY <2>3, FS_EmptySet
  <2> QED
    BY <2>4 DEF Brood, Unreaped, NoStillborn
<1> QED
  BY <1>1, <1>2, <1>3, KinHolds, PTL DEF Spec

-----------------------------------------------------------------------------
(* The life cycle: Process implements LifeCycle.                           *)

\* What the variables of LifeCycle are.
Stages  == [p \in Pid |-> StageOf(life[p])]
Waiters == {p \in Pid : Waiting(p)}
Answers == [p \in Pid |-> IF Woken(p) THEN {blocked_code[p]} ELSE {}]

\* The stages tell apart what LifeCycle does.
LEMMA StageValues ==
  ASSUME NEW l \in Lives
  PROVE  /\ StageOf(l) = "unborn" <=> l = "unborn"
         /\ StageOf(l) = "alive" <=> l = "live"
         /\ StageOf(l) = "dead" <=> l \in {"zombie", "faulted"}
         /\ StageOf(l) = "lost" <=> l = "stillborn"
         /\ l \in {"freed", "reaped", "dropped"} => StageOf(l) = "gone"
  BY DEF StageOf, Lives

\* A process is inside KernelWait.
InWait(p) == life[p] = "live" /\ pc[p] = "wait"

\* It is blocked there, or has been woken.
TwoWaits ==
  \A p \in Pid : /\ Waiting(p) <=> InWait(p) /\ p \in Elems(blocked_q)
                 /\ Woken(p) <=> InWait(p) /\ p \notin Elems(blocked_q)

LEMMA WaitStates == KinInv => TwoWaits
<1> SUFFICES ASSUME KinInv, NEW p \in Pid
             PROVE  /\ Waiting(p) <=> InWait(p) /\ p \in Elems(blocked_q)
                    /\ Woken(p) <=> InWait(p) /\ p \notin Elems(blocked_q)
  BY DEF TwoWaits
<1>1. TypeOK /\ OnePlace /\ Contexted
  BY DEF KinInv
<1>2. p \in Elems(blocked_q) =>
        life[p] = "live" /\ (blocked_code[p] = BLOCKED_WAIT <=> pc[p] = "wait")
  <2> HAVE p \in Elems(blocked_q)
  <2>1. life[p] = "live"
    BY <1>1, Placed
  <2>2. \/ blocked_code[p] = BLOCKED_DELAY /\ pc[p] = "delay"
        \/ blocked_code[p] = BLOCKED_WAIT /\ pc[p] = "wait"
    BY <1>1 DEF Contexted, ContextMatches
  <2> QED
    BY <2>1, <2>2 DEF BLOCKED_WAIT, BLOCKED_DELAY
<1>3. life[p] = "live" <=> p \in {activePCB, idle} \cup Elems(ready_q) \cup Elems(blocked_q)
  BY <1>1 DEF OnePlace
<1>4. pc[idle] # "wait"
  BY <1>1 DEF Contexted, IdleContext
<1>5. p \in {activePCB} \cup Elems(ready_q) => p \notin Elems(blocked_q)
  BY <1>1, Placed
<1> QED
  BY <1>2, <1>3, <1>4, <1>5 DEF Waiting, Woken, InWait

\* The same after a step.
LEMMA WaitStatesNext == KinInv' => TwoWaits'
  BY WaitStates, PTL

\* A step that does not concern the Wait of p.
Unconcerned(p) ==
  /\ InWait(p)' <=> InWait(p)
  /\ InWait(p) => /\ p \in Elems(blocked_q') <=> p \in Elems(blocked_q)
                  /\ blocked_code'[p] = blocked_code[p]

LEMMA UnconcernedWait ==
  ASSUME KinInv, KinInv', NEW p \in Pid, Unconcerned(p)
  PROVE  (Waiting(p)' <=> Waiting(p)) /\ Answers'[p] = Answers[p]
<1>1. /\ Waiting(p) <=> InWait(p) /\ p \in Elems(blocked_q)
      /\ Woken(p) <=> InWait(p) /\ p \notin Elems(blocked_q)
  BY WaitStates DEF TwoWaits
<1>2. /\ Waiting(p)' <=> InWait(p)' /\ p \in Elems(blocked_q')
      /\ Woken(p)' <=> InWait(p)' /\ p \notin Elems(blocked_q')
  BY WaitStatesNext DEF TwoWaits
<1>3. /\ Answers[p] = IF Woken(p) THEN {blocked_code[p]} ELSE {}
      /\ Answers'[p] = IF Woken(p)' THEN {blocked_code'[p]} ELSE {}
  BY DEF Answers
<1> QED
  BY <1>1, <1>2, <1>3 DEF Unconcerned

\* A step that concerns nobody's Wait.
LEMMA WaitsKept ==
  ASSUME KinInv, KinInv', \A p \in Pid : Unconcerned(p)
  PROVE  Waiters' = Waiters /\ Answers' = Answers
<1>1. \A p \in Pid : (Waiting(p)' <=> Waiting(p)) /\ Answers'[p] = Answers[p]
  BY UnconcernedWait
<1>2. Waiters' = Waiters
  BY <1>1 DEF Waiters
<1>3. Answers' = Answers
  <2>1. /\ Answers = [p \in Pid |-> Answers[p]]
        /\ Answers' = [p \in Pid |-> Answers'[p]]
    BY DEF Answers
  <2> QED
    BY <1>1, <2>1
<1> QED
  BY <1>2, <1>3

\* The running process is in no Wait.
LEMMA RunsNow ==
  ASSUME KinInv, UserProgram
  PROVE  /\ activePCB \in Pid /\ activePCB # 0 /\ life[activePCB] = "live"
         /\ Stages[activePCB] = "alive"
         /\ activePCB \notin Waiters /\ Answers[activePCB] = {}
         /\ pc[activePCB] = "user" /\ activePCB \notin Elems(blocked_q)
<1>1. TypeOK /\ OnePlace
  BY DEF KinInv
<1>2. /\ activePCB \in Pid /\ life[activePCB] = "live" /\ activePCB \notin Elems(blocked_q)
  BY <1>1, Placed
<1>3. activePCB # 0 /\ pc[activePCB] = "user"
  BY DEF UserProgram, UserMode, idle
<1>4. ~Waiting(activePCB) /\ ~Woken(activePCB)
  BY <1>2, <1>3 DEF Waiting, Woken
<1>5. Stages[activePCB] = "alive"
  BY <1>2, StageValues DEF Stages, Lives
<1> QED
  BY <1>2, <1>3, <1>4, <1>5 DEF Waiters, Answers

\* Most steps are none of LifeCycle.
LEMMA LifeStutters ==
  ASSUME KinInv, KinInv',
         TrapClock \/ TrapClockIdle \/ ResumeClock \/ ResumeNew \/ ResumeDelay \/ Delay
         \/ UNCHANGED vars
  PROVE  UNCHANGED <<life, ppid, exit_code, Waiters, Answers>>
<1>0. TypeOK /\ OnePlace /\ Contexted
  BY DEF KinInv
<1>1. UNCHANGED <<life, ppid, exit_code>>
  BY DEF TrapClock, TrapClockIdle, ResumeClock, ResumeNew, ResumeDelay, Delay, KernelDelay,
         vars, fields
<1>2. \A p \in Elems(blocked_q) : p # activePCB
  BY <1>0, Placed
<1>3. \A p \in Pid : Unconcerned(p)
  <2>1. ASSUME NEW w, w # "wait", pc[activePCB] # "wait",
               pc' = [pc EXCEPT ![activePCB] = w], NEW p \in Pid
        PROVE  InWait(p)' <=> InWait(p)
    BY <1>0, <1>1, <2>1 DEF InWait, TypeOK
  <2>2. CASE TrapClock
    <3>1. /\ pc[activePCB] = "user" /\ pc' = [pc EXCEPT ![activePCB] = "clock"]
          /\ SwapProcess("ready", ready_q, blocked_q, defunct_q)
          /\ blocked_code' = blocked_code
      BY <2>2 DEF TrapClock, UserMode, SaveContext, fields
    <3>2. Elems(blocked_q') = Elems(blocked_q)
      BY <1>0, <3>1, SwapNow
    <3> QED
      BY <2>1, <3>1, <3>2 DEF Unconcerned
  <2>3. CASE TrapClockIdle \/ ResumeClock
    <3>1. ScanBlocked
      BY <2>3 DEF TrapClockIdle, ResumeClock
    <3>2. \A p \in Pid : InWait(p)' <=> InWait(p)
      <4>1. CASE TrapClockIdle
        BY <1>1, <4>1 DEF TrapClockIdle, InWait
      <4>2. CASE ResumeClock
        BY <2>1, <4>2 DEF ResumeClock, ContinuesAt
      <4> QED
        BY <2>3, <4>1, <4>2
    <3>3. Elems(blocked_q') = Elems(blocked_q) \ Expired
      BY <1>0, <3>1, ScanPlaces
    <3>4. \A p \in Pid : InWait(p) => p \notin Expired
      BY <1>0 DEF InWait, Expired, Contexted, ContextMatches, BLOCKED_WAIT, BLOCKED_DELAY
    <3>5. \A p \in Pid : p \notin Expired => blocked_code'[p] = blocked_code[p]
      BY <3>1 DEF ScanBlocked
    <3> QED
      BY <3>2, <3>3, <3>4, <3>5 DEF Unconcerned
  <2>4. CASE ResumeNew \/ ResumeDelay
    <3>1. /\ pc[activePCB] # "wait" /\ pc' = [pc EXCEPT ![activePCB] = "user"]
          /\ blocked_q' = blocked_q /\ blocked_code' = blocked_code
      BY <2>4 DEF ResumeNew, ResumeDelay, ContinuesAt, queues, fields
    <3> QED
      BY <2>1, <3>1 DEF Unconcerned
  <2>5. CASE Delay
    <3>1. /\ pc[activePCB] = "user" /\ pc' = [pc EXCEPT ![activePCB] = "delay"]
          /\ SwapProcess("blocked", ready_q, blocked_q, defunct_q)
          /\ blocked_code' = [blocked_code EXCEPT ![activePCB] = BLOCKED_DELAY]
      BY <2>5 DEF Delay, KernelDelay, UserProgram, UserMode, SaveContext
    <3>2. \A p \in Pid \ {activePCB} :
            /\ p \in Elems(blocked_q') <=> p \in Elems(blocked_q)
            /\ blocked_code'[p] = blocked_code[p]
      <4>1. \A p \in Pid \ {activePCB} : p \in Elems(blocked_q') <=> p \in Elems(blocked_q)
        BY <1>0, <3>1, SwapNow
      <4>2. \A p \in Pid \ {activePCB} : blocked_code'[p] = blocked_code[p]
        BY <1>0, <3>1 DEF TypeOK
      <4> QED
        BY <4>1, <4>2
    <3>3. ~InWait(activePCB)
      BY <3>1 DEF InWait
    <3> QED
      BY <2>1, <3>1, <3>2, <3>3 DEF Unconcerned
  <2>6. CASE UNCHANGED vars
    BY <2>6 DEF vars, queues, fields, Unconcerned, InWait
  <2> QED
    BY <2>2, <2>3, <2>4, <2>5, <2>6
<1> QED
  BY <1>1, <1>3, WaitsKept

\* A step that takes a process of one life to another.
LEMMA StageStep ==
  ASSUME TypeOK, NEW c \in Pid, NEW l, life' = [life EXCEPT ![c] = l]
  PROVE  Stages' = [Stages EXCEPT ![c] = StageOf(l)]
<1>1. \A p \in Pid : life'[p] = IF p = c THEN l ELSE life[p]
  BY DEF TypeOK
<1>2. Stages' = [p \in Pid |-> StageOf(life'[p])]
  BY DEF Stages
<1> DEFINE S == [Stages EXCEPT ![c] = StageOf(l)]
<1>3. S = [p \in Pid |-> IF p = c THEN StageOf(l) ELSE StageOf(life[p])]
  BY DEF Stages
<1> HIDE DEF S
<1> QED
  BY <1>1, <1>2, <1>3 DEF S

\* Fork, whether it fails or not.
LEMMA LifeFork ==
  ASSUME KinInv, KinInv', KernelFork \/ KernelForkError \/ KernelForkNull
  PROVE  Lifetimes!Fork(activePCB)
<1>0. TypeOK /\ Births /\ OnePlace
  BY DEF KinInv
<1>1. PICK outcome \in {"live", "stillborn"} : UserProgram /\ init_process(outcome)
  BY DEF KernelFork, KernelForkError, KernelForkNull
<1>2. /\ nextpid \in Pid /\ life[nextpid] = "unborn" /\ nextpid # activePCB
      /\ ppid' = [ppid EXCEPT ![nextpid] = activePCB]
      /\ life' = [life EXCEPT ![nextpid] = outcome]
      /\ blocked_code' = blocked_code /\ exit_code' = exit_code
  BY <1>0, <1>1, BirthKin DEF init_process
<1>3. blocked_q' = blocked_q /\ (pc' = pc \/ pc' = [pc EXCEPT ![nextpid] = "fork"])
  BY DEF KernelFork, KernelForkError, KernelForkNull, queues
<1>4. \A p \in Pid : Unconcerned(p)
  <2> TAKE p \in Pid
  <2>1. InWait(p)' <=> InWait(p)
    <3>1. CASE p # nextpid
      <4>1. life'[p] = life[p] /\ pc'[p] = pc[p]
        BY <1>0, <1>2, <1>3, <3>1 DEF TypeOK
      <4> QED
        BY <4>1 DEF InWait
    <3>2. CASE p = nextpid
      <4>1. life'[p] = outcome
        BY <1>0, <1>2, <3>2 DEF TypeOK
      <4>2. ~InWait(p)
        BY <1>2, <3>2 DEF InWait
      <4>3. outcome = "live" => pc'[p] = "fork"
        <5>1. CASE KernelFork
          BY <1>0, <1>2, <3>2, <5>1 DEF KernelFork, TypeOK
        <5>2. CASE KernelForkError \/ KernelForkNull
          <6>1. init_process("stillborn")
            BY <5>2 DEF KernelForkError, KernelForkNull
          <6>2. life' = [life EXCEPT ![nextpid] = "stillborn"]
            BY <6>1 DEF init_process
          <6> QED
            BY <1>0, <1>2, <6>2 DEF TypeOK
        <5> QED
          BY <5>1, <5>2
      <4> QED
        BY <4>1, <4>2, <4>3 DEF InWait
    <3> QED
      BY <3>1, <3>2
  <2> QED
    BY <1>2, <1>3, <2>1 DEF Unconcerned
<1>5. Waiters' = Waiters /\ Answers' = Answers
  BY <1>4, WaitsKept
<1>6. StageOf(outcome) \in {"alive", "lost"}
  BY <1>1, StageValues DEF Lives
<1>7. Stages' = [Stages EXCEPT ![nextpid] = StageOf(outcome)]
  BY <1>0, <1>2, StageStep
<1>8. \A d \in Pid : Stages[d] = "unborn" <=> d >= nextpid
  <2> TAKE d \in Pid
  <2>1. Stages[d] = "unborn" <=> life[d] = "unborn"
    BY <1>0, StageValues DEF Stages, TypeOK
  <2>2. d < nextpid <=> life[d] # "unborn"
    BY <1>0 DEF Births
  <2>3. d \in Nat /\ nextpid \in Nat
    BY <1>2, Constants
  <2> QED
    BY <2>1, <2>2, <2>3
<1>9. \E c \in Pid, st \in {"alive", "lost"} :
        /\ \A d \in Pid : Stages[d] = "unborn" <=> d >= c
        /\ Stages' = [Stages EXCEPT ![c] = st]
        /\ ppid' = [ppid EXCEPT ![c] = activePCB]
  BY <1>2, <1>6, <1>7, <1>8
<1>10. /\ activePCB # 0 /\ Stages[activePCB] = "alive" /\ activePCB \notin Waiters
       /\ Answers[activePCB] = {}
  BY <1>1, RunsNow
<1> QED
  BY <1>2, <1>5, <1>9, <1>10
  DEF Lifetimes!Fork, Lifetimes!Runs, Stages, Waiters, Answers

\* The traps that abort a process.
LEMMA LifeFault ==
  ASSUME KinInv, KinInv', TrapFault
  PROVE  Lifetimes!Fault(activePCB)
<1>0. TypeOK /\ Births /\ OnePlace
  BY DEF KinInv
<1>1. /\ UserProgram /\ exit_code' = [exit_code EXCEPT ![activePCB] = ERROR]
      /\ life' = [life EXCEPT ![activePCB] = "faulted"]
      /\ SwapProcess("defunct", ready_q, blocked_q, defunct_q)
      /\ pc' = [pc EXCEPT ![activePCB] = "fault"]
      /\ ppid' = ppid /\ blocked_code' = blocked_code
  BY DEF TrapFault, SaveContext
<1>2. /\ activePCB \in Pid /\ activePCB # 0 /\ Stages[activePCB] = "alive"
      /\ activePCB \notin Waiters /\ Answers[activePCB] = {} /\ pc[activePCB] = "user"
  BY <1>1, RunsNow
<1>3. Elems(blocked_q') = Elems(blocked_q)
  BY <1>0, <1>1, SwapNow
<1>4. \A p \in Pid : InWait(p)' <=> InWait(p)
  BY <1>0, <1>1, <1>2 DEF InWait, TypeOK
<1>5. Waiters' = Waiters /\ Answers' = Answers
  BY <1>1, <1>3, <1>4, WaitsKept DEF Unconcerned
<1>6. Stages' = [Stages EXCEPT ![activePCB] = "dead"]
  <2>1. StageOf("faulted") = "dead"
    BY StageValues DEF Lives
  <2> QED
    BY <1>0, <1>1, <1>2, <2>1, StageStep, ZenonT(60)
<1> QED
  BY <1>1, <1>2, <1>5, <1>6
  DEF Lifetimes!Fault, Lifetimes!Runs, Stages, Waiters, Answers

\* Wait with a dead child.
LEMMA LifeCollect ==
  ASSUME KinInv, KinInv', KernelWaitReap
  PROVE  Lifetimes!Collect(activePCB)
<1>0. TypeOK /\ OnePlace
  BY DEF KinInv
<1>1. /\ UserProgram /\ pc' = pc /\ blocked_q' = blocked_q
      /\ blocked_code' = blocked_code /\ exit_code' = exit_code
  BY DEF KernelWaitReap
<1>2. PICK z \in Pid : /\ ppid[z] = activePCB /\ life[z] \in {"zombie", "faulted"}
                       /\ life' = [life EXCEPT ![z] = "reaped"] /\ ppid' = ppid
  BY <1>0, ReapKin
<1>3. \A p \in Pid : InWait(p)' <=> InWait(p)
  BY <1>0, <1>1, <1>2 DEF InWait, TypeOK
<1>4. Waiters' = Waiters /\ Answers' = Answers
  BY <1>1, <1>3, WaitsKept DEF Unconcerned
<1>5. Stages[z] = "dead"
  BY <1>0, <1>2, StageValues DEF Stages, TypeOK
<1>6. Stages' = [Stages EXCEPT ![z] = "gone"]
  <2>1. StageOf("reaped") = "gone"
    BY StageValues DEF Lives
  <2> QED
    BY <1>0, <1>2, <2>1, StageStep
<1>7. /\ activePCB # 0 /\ Stages[activePCB] = "alive" /\ activePCB \notin Waiters
      /\ Answers[activePCB] = {}
  BY <1>1, RunsNow
<1>8. \E c \in {d \in Pid : ppid[d] = activePCB /\ Stages[d] \in {"dead"}} :
        Stages' = [Stages EXCEPT ![c] = "gone"]
  BY <1>2, <1>5, <1>6
<1> QED
  BY <1>1, <1>2, <1>4, <1>7, <1>8
  DEF Lifetimes!Collect, Lifetimes!Children, Lifetimes!Runs, Stages, Waiters, Answers

\* A process that counts children has some.
LEMMA SomeBrood ==
  ASSUME KinInv, UserProgram
  PROVE  /\ num_children[activePCB] \in Nat
         /\ num_children[activePCB] # 0 <=> Brood(activePCB) # {}
<1>1. TypeOK /\ OnePlace /\ ChildCount
  BY DEF KinInv, Kin
<1>2. num_children[activePCB] = Cardinality(Brood(activePCB))
  BY <1>1, RunsNow DEF ChildCount, idle
<1>3. IsFiniteSet(Brood(activePCB)) /\ Cardinality(Brood(activePCB)) \in Nat
  BY BroodFinite
<1> QED
  BY <1>2, <1>3, FS_EmptySet

\* Wait with none.
LEMMA LifeBlock ==
  ASSUME KinInv, KinInv', KernelWaitBlock
  PROVE  Lifetimes!Block(activePCB)
<1>0. TypeOK /\ OnePlace
  BY DEF KinInv
<1>1. /\ UserProgram /\ num_children[activePCB] # 0 /\ Zombies(activePCB) = {}
      /\ blocked_code' = [blocked_code EXCEPT ![activePCB] = BLOCKED_WAIT]
      /\ SwapProcess("blocked", ready_q, blocked_q, defunct_q)
      /\ pc' = [pc EXCEPT ![activePCB] = "wait"]
      /\ ppid' = ppid /\ exit_code' = exit_code /\ life' = life
  BY DEF KernelWaitBlock, SaveContext
<1>2. /\ activePCB \in Pid /\ activePCB # 0 /\ Stages[activePCB] = "alive"
      /\ activePCB \notin Waiters /\ Answers[activePCB] = {} /\ life[activePCB] = "live"
      /\ pc[activePCB] = "user" /\ activePCB \notin Elems(blocked_q)
  BY <1>1, RunsNow
<1>3. Elems(blocked_q') = Elems(blocked_q) \cup {activePCB}
  BY <1>0, <1>1, <1>2, SwapNow DEF idle
<1>4. \A p \in Pid \ {activePCB} : (Waiting(p)' <=> Waiting(p)) /\ Answers'[p] = Answers[p]
  <2>1. ASSUME NEW p \in Pid \ {activePCB} PROVE Unconcerned(p)
    BY <1>0, <1>1, <1>3 DEF Unconcerned, InWait, TypeOK
  <2> QED
    BY <2>1, UnconcernedWait
<1>5. PICK me \in Pid : me = activePCB
  BY <1>2
<1>6. InWait(me)' /\ me \in Elems(blocked_q')
  BY <1>0, <1>1, <1>2, <1>3, <1>5 DEF InWait, TypeOK
<1>7. Waiting(me)' /\ ~Woken(me)'
  BY <1>6, WaitStatesNext DEF TwoWaits
<1>8. Waiters' = Waiters \cup {me}
  BY <1>4, <1>5, <1>7 DEF Waiters
<1>9. Answers' = Answers
  <2>1. /\ Answers = [p \in Pid |-> Answers[p]]
        /\ Answers' = [p \in Pid |-> Answers'[p]]
    BY DEF Answers
  <2>2. Answers'[me] = {}
    BY <1>7 DEF Answers
  <2> QED
    BY <1>2, <1>4, <1>5, <2>1, <2>2
<1>10. Stages' = Stages
  BY <1>1 DEF Stages
<1>11. {d \in Pid : ppid[d] = me /\ Stages[d] \in {"dead"}} = {}
  <2> SUFFICES ASSUME NEW d \in Pid, ppid[d] = me, Stages[d] = "dead" PROVE FALSE
    OBVIOUS
  <2>1. life[d] \in {"zombie", "faulted"}
    BY <1>0, StageValues DEF Stages, TypeOK
  <2>2. d \in Elems(defunct_q)
    BY <1>0, <2>1 DEF OnePlace
  <2> QED
    BY <1>1, <1>5, <2>2 DEF Zombies
<1>12. {d \in Pid : ppid[d] = me /\ Stages[d] \in {"alive", "lost"}} # {}
  <2>1. PICK d \in Pid : ppid[d] = me /\ life[d] \in Unreaped
    BY <1>1, <1>5, SomeBrood DEF Brood
  <2>2. Stages[d] \in {"dead", "alive", "lost"}
    BY <1>0, <2>1, StageValues DEF Stages, Unreaped, TypeOK
  <2> QED
    BY <1>11, <2>1, <2>2
<1> QED
  BY <1>1, <1>2, <1>5, <1>8, <1>9, <1>10, <1>11, <1>12
  DEF Lifetimes!Block, Lifetimes!Children, Lifetimes!Runs, Stages, Waiters, Answers

\* The end of a Wait that blocked.
LEMMA LifeReturn ==
  ASSUME KinInv, KinInv', ResumeWait
  PROVE  \E p \in Pid : Lifetimes!Return(p)
<1>0. TypeOK /\ OnePlace
  BY DEF KinInv
<1>1. /\ pc[activePCB] = "wait" /\ pc' = [pc EXCEPT ![activePCB] = "user"]
      /\ blocked_code' = [blocked_code EXCEPT ![activePCB] = NOT_BLOCKED]
      /\ blocked_q' = blocked_q
      /\ ppid' = ppid /\ exit_code' = exit_code /\ life' = life
  BY DEF ResumeWait, ContinuesAt, queues
<1>2. PICK me \in Pid : me = activePCB
  BY <1>0, Placed
<1>3. me \notin Elems(blocked_q) /\ life[me] = "live"
  BY <1>0, <1>2, Placed
<1>4. Woken(me) /\ ~Waiting(me)
  BY <1>1, <1>2, <1>3 DEF Woken, Waiting
<1>5. ~InWait(me)'
  BY <1>0, <1>1, <1>2 DEF InWait, TypeOK
<1>6. ~Woken(me)' /\ ~Waiting(me)'
  BY <1>5, WaitStatesNext DEF TwoWaits
<1>7. \A p \in Pid \ {me} : (Waiting(p)' <=> Waiting(p)) /\ Answers'[p] = Answers[p]
  <2>1. ASSUME NEW p \in Pid \ {me} PROVE Unconcerned(p)
    BY <1>0, <1>1, <1>2 DEF Unconcerned, InWait, TypeOK
  <2> QED
    BY <2>1, UnconcernedWait
<1>8. Waiters' = Waiters
  BY <1>4, <1>6, <1>7 DEF Waiters
<1>9. Answers' = [Answers EXCEPT ![me] = {}]
  <2>1. /\ Answers = [p \in Pid |-> Answers[p]]
        /\ Answers' = [p \in Pid |-> Answers'[p]]
    BY DEF Answers
  <2>2. Answers'[me] = {}
    BY <1>6 DEF Answers
  <2> QED
    BY <1>7, <2>1, <2>2
<1>10. Answers[me] # {}
  BY <1>4 DEF Answers
<1>11. Stages' = Stages
  BY <1>1 DEF Stages
<1>12. Lifetimes!Return(me)
  BY <1>1, <1>8, <1>9, <1>10, <1>11 DEF Lifetimes!Return, Stages, Waiters, Answers
<1> QED
  BY <1>12

\* The kin that the loops of KernelExit find are all there are.
LEMMA KinFound ==
  ASSUME KinInv, UserProgram
  PROVE  LET par == ppid[activePCB] IN
         /\ par \in Pid /\ par # activePCB
         /\ ParentWaits <=> par \in Waiters
         /\ ParentMayWait <=> par # 0 /\ Stages[par] = "alive" /\ par \notin Waiters
         /\ \A c \in Pid :
              /\ c \in ChildrenIn(ready_q) \cup ChildrenIn(blocked_q)
                   <=> ppid[c] = activePCB /\ Stages[c] = "alive"
              /\ c \in ChildrenIn(defunct_q) <=> ppid[c] = activePCB /\ Stages[c] = "dead"
<1>0. TypeOK /\ OnePlace /\ Births
  BY DEF KinInv
<1>1. PICK me \in Pid : me = activePCB /\ me # 0
  BY RunsNow
<1>2. PICK par \in Pid : par = ppid[me]
  BY <1>0 DEF TypeOK
<1>3. par # me
  <2>1. par = 0 \/ par < me
    BY <1>0, <1>2 DEF Births
  <2>2. me \in Nat
    BY Constants
  <2> QED
    BY <1>1, <2>1, <2>2
<1>4. par \in Elems(blocked_q) \cup Elems(ready_q) => par # 0 /\ HasKin
  BY <1>0, <1>1, <1>2, Placed DEF HasKin, idle
<1>5. ParentWaits <=> par \in Waiters
  BY <1>1, <1>2, <1>4 DEF ParentWaits, Waiters, Waiting
<1>6. \A p \in Pid : Stages[p] = "alive" <=>
        p \in {activePCB, idle} \cup Elems(ready_q) \cup Elems(blocked_q)
  <2> TAKE p \in Pid
  <2>1. Stages[p] = "alive" <=> life[p] = "live"
    BY <1>0, StageValues DEF Stages, TypeOK
  <2> QED
    BY <1>0, <2>1 DEF OnePlace
<1>7. ParentMayWait <=> par # 0 /\ Stages[par] = "alive" /\ par \notin Waiters
  BY <1>1, <1>2, <1>3, <1>4, <1>5, <1>6 DEF ParentMayWait, idle
<1>8. \A p \in Pid : Stages[p] = "dead" <=> p \in Elems(defunct_q)
  <2> TAKE p \in Pid
  <2>1. Stages[p] = "dead" <=> life[p] \in {"zombie", "faulted"}
    BY <1>0, StageValues DEF Stages, TypeOK
  <2> QED
    BY <1>0, <2>1 DEF OnePlace
<1>9. \A c \in Pid : ppid[c] = me /\ Stages[c] \in {"alive", "dead"} => HasKin /\ c # me /\ c # 0
  <2> TAKE c \in Pid
  <2> HAVE ppid[c] = me /\ Stages[c] \in {"alive", "dead"}
  <2>1. life[c] \in Unreaped
    BY <1>0, StageValues DEF Stages, TypeOK, Unreaped
  <2>2. c \in Brood(activePCB)
    BY <1>1, <2>1 DEF Brood
  <2>3. num_children[activePCB] > 0
    BY <2>2, SomeBrood
  <2>4. me = 0 \/ me < c
    BY <1>0 DEF Births
  <2>5. me \in Nat /\ c \in Nat
    BY Constants
  <2> QED
    BY <1>1, <2>3, <2>4, <2>5 DEF HasKin
<1>10. ASSUME NEW c \in Pid
       PROVE  c \in ChildrenIn(ready_q) \cup ChildrenIn(blocked_q)
                <=> ppid[c] = activePCB /\ Stages[c] = "alive"
  BY <1>1, <1>6, <1>9 DEF ChildrenIn, idle
<1>11. ASSUME NEW c \in Pid
       PROVE  c \in ChildrenIn(defunct_q) <=> ppid[c] = activePCB /\ Stages[c] = "dead"
  BY <1>1, <1>8, <1>9 DEF ChildrenIn
<1> QED
  BY <1>1, <1>2, <1>3, <1>5, <1>7, <1>10, <1>11

\* Exit, and the traps that end in KernelExit.
LEMMA LifeExit ==
  ASSUME KinInv, KinInv', NEW x, KernelExit(x)
  PROVE  Lifetimes!Exit(activePCB, x)
<1>0. TypeOK /\ OnePlace /\ Births
  BY DEF KinInv
<1>1. UserProgram
  BY DEF KernelExit
<1>2. PICK me \in Pid : me = activePCB
  BY <1>1, RunsNow
<1>3. PICK par \in Pid : par = ppid[me]
  BY <1>0 DEF TypeOK
<1> DEFINE told == par \in Waiters
           kept == par # 0 /\ Stages[par] = "alive" /\ par \notin Waiters
<1>4. /\ par # me /\ (ParentWaits <=> told) /\ (ParentMayWait <=> kept)
      /\ \A c \in Pid :
           /\ c \in ChildrenIn(ready_q) \cup ChildrenIn(blocked_q)
                <=> ppid[c] = me /\ Stages[c] = "alive"
           /\ c \in ChildrenIn(defunct_q) <=> ppid[c] = me /\ Stages[c] = "dead"
  BY <1>1, <1>2, <1>3, KinFound
<1>5. /\ me # 0 /\ Stages[me] = "alive" /\ me \notin Waiters /\ Answers[me] = {}
      /\ pc[me] = "user" /\ life[me] = "live" /\ me \notin Elems(blocked_q)
  BY <1>1, <1>2, RunsNow
<1>6. exit_code' = [exit_code EXCEPT ![me] = x]
  BY <1>2 DEF KernelExit
<1>7. ppid' = [c \in Pid |-> IF ppid[c] = me /\ Stages[c] = "alive" THEN 0 ELSE ppid[c]]
  <2>1. ppid' = [c \in Pid |->
          IF c \in ChildrenIn(ready_q) \cup ChildrenIn(blocked_q) THEN 0 ELSE ppid[c]]
    BY DEF KernelExit
  <2> HIDE DEF told, kept
  <2> QED
    BY <1>4, <2>1
<1>8. Stages' = [c \in Pid |->
        IF c = me THEN (IF kept THEN "dead" ELSE "gone")
        ELSE IF ppid[c] = me /\ Stages[c] = "dead" THEN "gone" ELSE Stages[c]]
  <2>1. ASSUME NEW c \in Pid
        PROVE  Stages'[c] = IF c = me THEN (IF kept THEN "dead" ELSE "gone")
                            ELSE IF ppid[c] = me /\ Stages[c] = "dead" THEN "gone" ELSE Stages[c]
    <3>1. Stages'[c] = StageOf(life'[c]) /\ Stages[c] = StageOf(life[c])
      BY DEF Stages
    <3>2. CASE c = me
      <4>1. life'[c] = IF kept THEN "zombie" ELSE "freed"
        BY <1>0, <1>2, <1>4, <3>2, ExitKin
      <4>2. StageOf("zombie") = "dead" /\ StageOf("freed") = "gone"
        BY StageValues DEF Lives
      <4> QED
        BY <3>1, <3>2, <4>1, <4>2
    <3>3. CASE c # me /\ c \in ChildrenIn(defunct_q)
      <4>1. life'[c] = "dropped"
        BY <1>2, <3>3 DEF KernelExit
      <4>2. StageOf("dropped") = "gone"
        BY StageValues DEF Lives
      <4> QED
        BY <1>4, <3>1, <3>3, <4>1, <4>2
    <3>4. CASE c # me /\ c \notin ChildrenIn(defunct_q)
      <4>1. life'[c] = life[c]
        BY <1>2, <3>4 DEF KernelExit
      <4> QED
        BY <1>4, <3>1, <3>4, <4>1
    <3> QED
      BY <3>2, <3>3, <3>4
  <2>2. Stages' = [c \in Pid |-> Stages'[c]]
    BY DEF Stages
  <2> HIDE DEF kept
  <2> QED
    BY <2>1, <2>2
<1>9. /\ \A p \in Pid : p \in Waiters' <=> p \in Waiters /\ ~(told /\ p = par)
      /\ \A p \in Pid : Answers'[p] = IF told /\ p = par THEN {x} ELSE Answers[p]
  <2>1. /\ Elems(blocked_q') = Elems(blocked_q) \ IF told THEN {par} ELSE {}
        /\ pc' = [pc EXCEPT ![me] = "exit"]
        /\ \A p \in Pid : blocked_code'[p] = IF told /\ p = par THEN x ELSE blocked_code[p]
    BY <1>0, <1>2, <1>3, <1>4, ExitPlaces
  <2>2. \A p \in Pid \ {me} : life'[p] = life[p] \/ life[p] # "live"
    <3>1. ASSUME NEW p \in Pid \ {me} PROVE life'[p] = life[p] \/ life[p] # "live"
      <4>1. p \in ChildrenIn(defunct_q) => life[p] # "live"
        BY <1>0, Placed DEF ChildrenIn
      <4>2. p \notin ChildrenIn(defunct_q) => life'[p] = life[p]
        BY <1>2 DEF KernelExit
      <4> QED
        BY <4>1, <4>2
    <3> QED
      BY <3>1
  <2>3. ASSUME NEW p \in Pid PROVE InWait(p)' <=> InWait(p)
    <3>1. CASE p = me
      <4>1. pc'[p] = "exit" /\ pc[p] = "user"
        BY <1>0, <1>5, <2>1, <3>1 DEF TypeOK
      <4> QED
        BY <4>1 DEF InWait
    <3>2. CASE p # me
      <4>1. pc'[p] = pc[p]
        BY <1>0, <2>1, <3>2 DEF TypeOK
      <4>2. life'[p] \in {life[p], "dropped"}
        BY <1>0, <1>2, <3>2, ExitKin
      <4> QED
        BY <2>2, <3>2, <4>1, <4>2 DEF InWait
    <3> QED
      BY <3>1, <3>2
  <2>4. ASSUME NEW p \in Pid, ~(told /\ p = par)
        PROVE  (Waiting(p)' <=> Waiting(p)) /\ Answers'[p] = Answers[p]
    <3>1. Unconcerned(p)
      BY <2>1, <2>3, <2>4 DEF Unconcerned
    <3> QED
      BY <3>1, UnconcernedWait
  <2>5. ASSUME told PROVE ~Waiting(par)' /\ Answers'[par] = {x}
    <3>1. Waiting(par)
      BY <2>5 DEF Waiters
    <3>2. InWait(par)
      BY <3>1, WaitStates DEF TwoWaits
    <3>3. InWait(par)' /\ par \notin Elems(blocked_q') /\ blocked_code'[par] = x
      BY <2>1, <2>3, <2>5, <3>2
    <3>4. ~Waiting(par)' /\ Woken(par)'
      BY <3>3, WaitStatesNext DEF TwoWaits
    <3> QED
      BY <3>3, <3>4 DEF Answers
  <2>6. ASSUME NEW p \in Pid PROVE (p \in Waiters <=> Waiting(p)) /\ (p \in Waiters' <=> Waiting(p)')
    BY DEF Waiters
  <2>7. ASSUME NEW p \in Pid
        PROVE  /\ p \in Waiters' <=> p \in Waiters /\ ~(told /\ p = par)
               /\ Answers'[p] = IF told /\ p = par THEN {x} ELSE Answers[p]
    <3>1. CASE told /\ p = par
      BY <2>5, <2>6, <3>1
    <3>2. CASE ~(told /\ p = par)
      BY <2>4, <2>6, <3>2
    <3> QED
      BY <3>1, <3>2
  <2> HIDE DEF told
  <2> QED
    BY <2>7
<1>10. Waiters' = Waiters \ (IF told THEN {par} ELSE {})
  <2>1. Waiters' \subseteq Pid /\ Waiters \subseteq Pid
    BY DEF Waiters
  <2> HIDE DEF told
  <2> QED
    BY <1>9, <2>1
<1>11. Answers' = [c \in Pid |-> IF told /\ c = par THEN {x} ELSE Answers[c]]
  <2>1. Answers' = [p \in Pid |-> Answers'[p]]
    BY DEF Answers
  <2> HIDE DEF told
  <2> QED
    BY <1>9, <2>1
<1>12. /\ Lifetimes!Told(me) <=> told
       /\ Lifetimes!Kept(me) <=> kept
       /\ Lifetimes!Runs(me)
  BY <1>3, <1>5 DEF Lifetimes!Told, Lifetimes!Kept, Lifetimes!Runs, Stages, Waiters, Answers
<1>13. \A c \in Pid : /\ c \in Lifetimes!Children(me, {"alive"}) <=> ppid[c] = me /\ Stages[c] = "alive"
                      /\ c \in Lifetimes!Children(me, {"dead"}) <=> ppid[c] = me /\ Stages[c] = "dead"
  BY DEF Lifetimes!Children, Stages
<1> HIDE DEF told, kept
<1>14. /\ ppid' = [c \in Pid |-> IF c \in Lifetimes!Children(me, {"alive"}) THEN 0 ELSE ppid[c]]
       /\ Stages' = [c \in Pid |->
            IF c = me THEN (IF Lifetimes!Kept(me) THEN "dead" ELSE "gone")
            ELSE IF c \in Lifetimes!Children(me, {"dead"}) THEN "gone" ELSE Stages[c]]
       /\ Waiters' = Waiters \ (IF Lifetimes!Told(me) THEN {ppid[me]} ELSE {})
       /\ Answers' = [c \in Pid |->
            IF Lifetimes!Told(me) /\ c = ppid[me] THEN {x} ELSE Answers[c]]
  BY <1>3, <1>7, <1>8, <1>10, <1>11, <1>12, <1>13
<1> QED
  BY <1>2, <1>6, <1>12, <1>14 DEF Lifetimes!Exit, Stages, Waiters, Answers

\* Process implements LifeCycle: with its queues, its counting of children, and
\* handlers that continue in any order, KernelFork, KernelExit and KernelWait
\* deliver every exit code where the life cycle of processes says, and once.
THEOREM LivesAsPromisedCorrect == Spec => LivesAsPromised
<1>1. Init => Lifetimes!Init
  <2> SUFFICES ASSUME Init PROVE Lifetimes!Init
    OBVIOUS
  <2>1. Waiters = {}
    <3>1. Elems(<<>>) = {}
      BY DEF Elems
    <3> QED
      BY <3>1 DEF Init, Waiters, Waiting
  <2>2. Answers = [p \in Pid |-> {}]
    BY DEF Init, Answers, Woken
  <2>3. Stages = [p \in Pid |-> IF p \in {0, 1} THEN "alive" ELSE "unborn"]
    <3>1. StageOf("live") = "alive" /\ StageOf("unborn") = "unborn"
      BY StageValues DEF Lives
    <3>2. \A p \in Pid : life[p] = IF p \in {0, 1} THEN "live" ELSE "unborn"
      BY DEF Init, idle, init
    <3> QED
      BY <3>1, <3>2 DEF Stages
  <2> QED
    BY <2>1, <2>2, <2>3 DEF Init, Lifetimes!Init, Stages, Waiters, Answers
<1>2. KinInv /\ KinInv' /\ [Next]_vars => [Lifetimes!Next]_(Lifetimes!vars)
  <2> SUFFICES ASSUME KinInv, KinInv', [Next]_vars
               PROVE  [Lifetimes!Next]_(Lifetimes!vars)
    OBVIOUS
  <2>1. activePCB \in Pid
    BY Placed DEF KinInv
  <2>2. CASE TrapClock \/ TrapClockIdle \/ ResumeClock \/ ResumeNew \/ ResumeDelay \/ Delay
             \/ UNCHANGED vars
    <3>1. UNCHANGED <<life, ppid, exit_code, Waiters, Answers>>
      BY <2>2, LifeStutters
    <3> QED
      BY <3>1 DEF Lifetimes!vars, Waiters, Answers
  <2>3. CASE KernelFork \/ KernelForkError \/ KernelForkNull
    BY <2>1, <2>3, LifeFork DEF Lifetimes!Next
  <2>4. CASE Exit \/ Abort
    <3>1. PICK x \in ExitCodes \cup {ERROR} : KernelExit(x)
      BY <2>4 DEF Exit, Abort
    <3>2. Lifetimes!Exit(activePCB, x)
      BY <3>1, LifeExit
    <3> QED
      BY <2>1, <3>2 DEF Lifetimes!Next
  <2>5. CASE TrapFault
    BY <2>1, <2>5, LifeFault DEF Lifetimes!Next
  <2>6. CASE KernelWaitReap
    BY <2>1, <2>6, LifeCollect DEF Lifetimes!Next
  <2>7. CASE KernelWaitBlock
    BY <2>1, <2>7, LifeBlock DEF Lifetimes!Next
  <2>8. CASE ResumeWait
    <3>1. \E p \in Pid : Lifetimes!Return(p)
      BY <2>8, LifeReturn
    <3> QED
      BY <3>1 DEF Lifetimes!Next
  <2> QED
    BY <2>2, <2>3, <2>4, <2>5, <2>6, <2>7, <2>8 DEF Next, Untimed
<1> QED
  BY <1>1, <1>2, KinHolds, PTL DEF Spec, LivesAsPromised, Lifetimes!Spec

-----------------------------------------------------------------------------
(* The clock interrupts and the scans of blocked_q balance (DelayTiming).  *)

\* The processes for which a scan is owed.
Clocked == {p \in Pid : pc[p] = "clock"}

LedgerTypes ==
  /\ asked \in [Pid -> 0 .. MaxDelay]
  /\ owed \in [Pid -> Nat]
  /\ elapsed \in [Pid -> Nat]

\* A PCB that does not exist is not owed a scan.
UnbornUser == \A p \in Pid : life[p] = "unborn" => pc[p] = "user"

LedgerInv ==
  TypeOK /\ Births /\ OnePlace /\ Contexted /\ LedgerTypes /\ UnbornUser /\ ScanLedger

\* The scans owed are finitely many.
LEMMA ClockedFinite ==
  IsFiniteSet(Clocked) /\ Pending \in 0 .. MaxPid + 1 /\ Pending = Cardinality(Clocked)
<1>1. IsFiniteSet(Pid) /\ Cardinality(Pid) = MaxPid + 1
  BY Constants, FS_Interval DEF Pid
<1>2. Clocked \in SUBSET Pid
  BY DEF Clocked
<1>3. IsFiniteSet(Clocked) /\ Cardinality(Clocked) \in Nat
      /\ Cardinality(Clocked) <= MaxPid + 1
  BY <1>1, <1>2, FS_Subset, FS_CardinalityType
<1> QED
  BY <1>3, Constants DEF Pending, Clocked

\* A process in Delay is counted down as long as it is blocked.
LEMMA DelayingContext ==
  ASSUME TypeOK, OnePlace, Contexted, NEW p \in Pid
  PROVE  Delaying(p) <=> p \in Elems(blocked_q) /\ pc[p] = "delay"
  BY DEF Delaying, Contexted, ContextMatches, BLOCKED_DELAY, BLOCKED_WAIT

\* The first state.
LEMMA LedgerInit == DInit => LedgerInv
<1> SUFFICES ASSUME DInit PROVE LedgerInv
  OBVIOUS
<1>1. TypeOK /\ Births /\ OnePlace /\ Contexted
  BY TypeInit, BirthsInit, OnePlaceInit, ContextInit DEF DInit
<1>2. LedgerTypes /\ UnbornUser
  BY Constants DEF DInit, Init, LedgerTypes, UnbornUser
<1>3. ScanLedger
  <2>1. Elems(<<>>) = {}
    BY DEF Elems
  <2> QED
    BY <2>1 DEF DInit, Init, ScanLedger, Delaying
<1> QED
  BY <1>1, <1>2, <1>3 DEF LedgerInv

\* Every step of DelayTiming is a step of Process.
LEMMA DStepStep == [DNext]_dvars => [Next]_vars
  BY DEF DNext, dvars, Next, DClock, DDelay, DReturn, Delay

\* PCBs that do not exist stay in user mode until Fork makes them.
LEMMA UnbornUserStep ==
  ASSUME TypeOK, Births, OnePlace, UnbornUser, [Next]_vars
  PROVE  UnbornUser'
<1> USE Placed, Constants
<1> SUFFICES ASSUME NEW p \in Pid, life'[p] = "unborn"
             PROVE  pc'[p] = "user"
  BY DEF UnbornUser
<1>1. ASSUME life[p] = "unborn", pc'[p] = pc[p]
      PROVE  pc'[p] = "user"
  BY <1>1 DEF UnbornUser
<1>2. ASSUME life' = life, NEW where, pc' = [pc EXCEPT ![activePCB] = where]
      PROVE  pc'[p] = "user"
  <2>1. life[p] = "unborn" /\ p # activePCB
    BY <1>2
  <2> QED
    BY <1>1, <1>2, <2>1 DEF TypeOK
<1>3. CASE TrapClock \/ ResumeClock \/ ResumeNew \/ ResumeDelay \/ ResumeWait
           \/ KernelWaitBlock \/ Delay
  BY <1>2, <1>3 DEF TrapClock, ResumeClock, ResumeNew, ResumeDelay, ResumeWait,
     KernelWaitBlock, Delay, KernelDelay, SaveContext
<1>4. CASE TrapClockIdle \/ UNCHANGED vars
  BY <1>1, <1>4 DEF TrapClockIdle, vars
<1>5. CASE KernelFork
  <2>1. /\ pc' = [pc EXCEPT ![nextpid] = "fork"] /\ nextpid \in Pid
        /\ life' = [life EXCEPT ![nextpid] = "live"]
    BY <1>5 DEF KernelFork, init_process, TypeOK, Pid
  <2>2. p # nextpid
    BY <2>1 DEF TypeOK
  <2>3. life[p] = "unborn" /\ pc'[p] = pc[p]
    BY <2>1, <2>2 DEF TypeOK
  <2> QED
    BY <1>1, <2>3
<1>6. CASE KernelForkError \/ KernelForkNull
  <2>0. nextpid <= MaxPid /\ pc' = pc /\ life' = [life EXCEPT ![nextpid] = "stillborn"]
    BY <1>6 DEF KernelForkError, KernelForkNull, init_process
  <2>1. pc' = pc /\ nextpid \in Pid /\ life' = [life EXCEPT ![nextpid] = "stillborn"]
    BY <2>0 DEF TypeOK, Pid
  <2>2. life[p] = "unborn"
    BY <2>1 DEF TypeOK
  <2> QED
    BY <1>1, <2>1, <2>2
<1>7. ASSUME NEW code, KernelExit(code)
      PROVE  pc'[p] = "user"
  <2>1. p # activePCB /\ life[p] = "unborn"
    BY <1>7 DEF KernelExit
  <2>2. pc' = [pc EXCEPT ![activePCB] = "exit"]
    BY <1>7 DEF KernelExit, SaveContext
  <2> QED
    BY <1>1, <2>1, <2>2 DEF TypeOK
<1>8. CASE Exit \/ Abort
  BY <1>7, <1>8 DEF Exit, Abort
<1>9. CASE TrapFault
  <2>1. /\ life' = [life EXCEPT ![activePCB] = "faulted"]
        /\ pc' = [pc EXCEPT ![activePCB] = "fault"]
    BY <1>9 DEF TrapFault, SaveContext
  <2>2. p # activePCB /\ life[p] = "unborn"
    BY <2>1 DEF TypeOK
  <2> QED
    BY <1>1, <2>1, <2>2 DEF TypeOK
<1>10. CASE KernelWaitReap
  <2>1. life[p] = "unborn" /\ pc' = pc
    BY <1>10 DEF KernelWaitReap, TypeOK
  <2> QED
    BY <1>1, <2>1
<1> QED
  BY <1>3, <1>4, <1>5, <1>6, <1>8, <1>9, <1>10 DEF Next, Untimed

-----------------------------------------------------------------------------

\* A step after which the same processes are owed a scan and in Delay.
Calm ==
  /\ \A p \in Pid : pc'[p] = "clock" <=> pc[p] = "clock"
  /\ \A p \in Pid : pc'[p] = "delay" <=> pc[p] = "delay"
  /\ \A p \in Pid : pc[p] = "delay" =>
       /\ p \in Elems(blocked_q') <=> p \in Elems(blocked_q)
       /\ clock_ticks'[p] = clock_ticks[p]

\* Whatever neither counts nor asks for ticks is such a step.
LEMMA UntimedCalm ==
  ASSUME TypeOK, Births, OnePlace, Contexted, UnbornUser, Untimed, ~ResumeClock
  PROVE  Calm
<1> USE Placed, Constants
<1>0. pc \in [Pid -> Contexts] /\ clock_ticks \in [Pid -> 0 .. MaxDelay]
  BY DEF TypeOK
<1>1. ASSUME NEW from \in {"user", "boot", "fork", "wait"},
             NEW to \in {"user", "exit", "fault", "wait"},
             pc[activePCB] = from, pc' = [pc EXCEPT ![activePCB] = to],
             clock_ticks' = clock_ticks,
             \A p \in Pid : pc[p] = "delay" =>
               (p \in Elems(blocked_q') <=> p \in Elems(blocked_q))
      PROVE  Calm
  <2>1. \A p \in Pid : pc'[p] = IF p = activePCB THEN to ELSE pc[p]
    BY <1>0, <1>1
  <2> QED
    BY <1>1, <2>1 DEF Calm
<1>2. CASE ResumeNew \/ ResumeWait
  <2>1. /\ pc[activePCB] \in {"boot", "fork", "wait"}
        /\ pc' = [pc EXCEPT ![activePCB] = "user"]
        /\ clock_ticks' = clock_ticks /\ blocked_q' = blocked_q
    BY <1>2 DEF ResumeNew, ResumeWait, ContinuesAt, queues, fields
  <2> QED
    BY <1>1, <2>1
<1>3. CASE KernelFork
  <2>1. /\ pc' = [pc EXCEPT ![nextpid] = "fork"] /\ nextpid \in Pid
        /\ life[nextpid] = "unborn"
        /\ clock_ticks' = clock_ticks /\ blocked_q' = blocked_q
    BY <1>3 DEF KernelFork, init_process, TypeOK, Pid, Births
  <2>2. pc[nextpid] = "user"
    BY <2>1 DEF UnbornUser
  <2>3. \A p \in Pid : pc'[p] = IF p = nextpid THEN "fork" ELSE pc[p]
    BY <1>0, <2>1
  <2> QED
    BY <2>1, <2>2, <2>3 DEF Calm
<1>4. CASE KernelForkError \/ KernelForkNull \/ KernelWaitReap
  <2>1. pc' = pc /\ clock_ticks' = clock_ticks /\ blocked_q' = blocked_q
    BY <1>4 DEF KernelForkError, KernelForkNull, KernelWaitReap, init_process, queues
  <2> QED
    BY <2>1 DEF Calm
<1>5. ASSUME NEW code, KernelExit(code)
      PROVE  Calm
  <2>0. PICK par \in Pid : par = ppid[activePCB]
    BY DEF TypeOK
  <2>1. /\ ParentWaits => par \in Elems(blocked_q) /\ blocked_code[par] = BLOCKED_WAIT
        /\ Elems(blocked_q') = Elems(blocked_q) \ IF ParentWaits THEN {par} ELSE {}
        /\ pc' = [pc EXCEPT ![activePCB] = "exit"]
        /\ clock_ticks' = clock_ticks
    BY <1>5, <2>0, ExitPlaces
  <2>2. ParentWaits => pc[par] = "wait"
    BY <2>1 DEF Contexted, ContextMatches, BLOCKED_DELAY, BLOCKED_WAIT
  <2>3. pc[activePCB] = "user"
    BY <1>5 DEF KernelExit, UserProgram, UserMode
  <2> QED
    BY <1>1, <2>1, <2>2, <2>3
<1>6. CASE Exit \/ Abort
  BY <1>5, <1>6 DEF Exit, Abort
<1>7. CASE TrapFault
  <2>1. /\ SwapProcess("defunct", ready_q, blocked_q, defunct_q)
        /\ pc[activePCB] = "user" /\ pc' = [pc EXCEPT ![activePCB] = "fault"]
        /\ clock_ticks' = clock_ticks
    BY <1>7 DEF TrapFault, SaveContext, UserProgram, UserMode
  <2>2. Elems(blocked_q') = Elems(blocked_q)
    BY <2>1, SwapNow
  <2> QED
    BY <1>1, <2>1, <2>2
<1>8. CASE KernelWaitBlock
  <2>1. /\ SwapProcess("blocked", ready_q, blocked_q, defunct_q)
        /\ pc[activePCB] = "user" /\ pc' = [pc EXCEPT ![activePCB] = "wait"]
        /\ clock_ticks' = clock_ticks /\ activePCB # idle
    BY <1>8 DEF KernelWaitBlock, SaveContext, UserProgram, UserMode
  <2>2. Elems(blocked_q') = Elems(blocked_q) \cup {activePCB}
    BY <2>1, SwapNow
  <2> QED
    BY <1>1, <2>1, <2>2
<1> QED
  BY <1>2, <1>3, <1>4, <1>6, <1>7, <1>8 DEF Untimed

\* ScanLedger is preserved.
LEMMA LedgerStep ==
  ASSUME LedgerInv, [DNext]_dvars
  PROVE  ScanLedger'
<1>0. /\ TypeOK /\ Births /\ OnePlace /\ Contexted /\ LedgerTypes /\ UnbornUser
      /\ ScanLedger /\ [Next]_vars /\ TypeOK' /\ OnePlace' /\ Contexted'
  BY DStepStep, TypeStep, OnePlaceStep, ContextStep DEF LedgerInv
<1>1. /\ pc \in [Pid -> Contexts] /\ clock_ticks \in [Pid -> 0 .. MaxDelay]
      /\ activePCB \in Pid
      /\ asked \in [Pid -> 0 .. MaxDelay] /\ owed \in [Pid -> Nat]
      /\ elapsed \in [Pid -> Nat]
      /\ Pending \in 0 .. MaxPid + 1 /\ MaxDelay \in Nat /\ MaxPid \in Nat
  BY <1>0, ClockedFinite, Constants DEF TypeOK, LedgerTypes
<1>2. \A p \in Pid : Delaying(p) <=> p \in Elems(blocked_q) /\ pc[p] = "delay"
  BY <1>0, DelayingContext
<1>3. \A p \in Pid : Delaying(p)' <=> p \in Elems(blocked_q') /\ pc'[p] = "delay"
  BY <1>0 DEF Delaying, Contexted, ContextMatches, BLOCKED_DELAY, BLOCKED_WAIT
<1>4. /\ \A p \in Pid : Delaying(p) =>
           asked[p] - clock_ticks[p] + Pending = elapsed[p] + owed[p]
      /\ \A p \in Pid : pc[p] = "delay" /\ p \notin Elems(blocked_q) =>
           elapsed[p] + owed[p] > asked[p]
  BY <1>0 DEF ScanLedger
<1>5. ASSUME \A p \in Pid : pc'[p] = "clock" <=> pc[p] = "clock"
      PROVE  Pending' = Pending
  <2>1. {p \in Pid : pc'[p] = "clock"} = {p \in Pid : pc[p] = "clock"}
    BY <1>5
  <2> QED
    BY <2>1 DEF Pending
<1>6. ASSUME Calm, UNCHANGED history
      PROVE  ScanLedger'
  <2>1. Pending' = Pending
    BY <1>5, <1>6 DEF Calm
  <2> QED
    BY <1>2, <1>3, <1>4, <1>6, <2>1 DEF ScanLedger, Calm, history
<1>7. ASSUME ScanBlocked
      PROVE  /\ Elems(blocked_q') \subseteq Elems(blocked_q)
             /\ \A p \in Elems(blocked_q') : pc[p] = "delay" =>
                  clock_ticks[p] > 0 /\ clock_ticks'[p] = clock_ticks[p] - 1
             /\ \A p \in Elems(blocked_q) \ Elems(blocked_q') :
                  pc[p] = "delay" => clock_ticks[p] = 0
             /\ Elems(blocked_q) \subseteq Pid
  <2>1. /\ Elems(blocked_q') = Elems(blocked_q) \ Expired
        /\ Expired \subseteq Elems(blocked_q) /\ Elems(blocked_q) \subseteq Pid
    BY <1>0, <1>7, Placed, ScanPlaces
  <2>2. \A p \in Elems(blocked_q) : pc[p] = "delay" => blocked_code[p] = BLOCKED_DELAY
    BY <1>2, <2>1 DEF Delaying
  <2>3. \A p \in Expired : clock_ticks[p] = 0
    BY DEF Expired
  <2>4. \A p \in Elems(blocked_q) \ Expired : pc[p] = "delay" =>
          p \in Ticking /\ clock_ticks[p] > 0
    <3>1. \A p \in Elems(blocked_q) : p \in Pid /\ clock_ticks[p] \in Nat
      BY <1>1, <2>1
    <3> QED
      BY <2>2, <3>1 DEF Expired, Ticking
  <2>5. \A p \in Ticking : p \in Pid /\ clock_ticks'[p] = clock_ticks[p] - 1
    BY <1>7, <2>1 DEF ScanBlocked, Ticking
  <2> QED
    BY <2>1, <2>3, <2>4, <2>5
<1>8. CASE DClock
  <2>0. /\ elapsed' = [p \in Pid |->
             IF pc[p] = "delay" /\ elapsed[p] < MaxElapsed
             THEN elapsed[p] + 1 ELSE elapsed[p]]
        /\ asked' = asked /\ owed' = owed
    BY <1>8 DEF DClock
  <2>1. \A p \in Pid : Delaying(p) => elapsed'[p] = elapsed[p] + 1
    <3> TAKE p \in Pid
    <3> HAVE Delaying(p)
    <3>1. elapsed[p] + owed[p] = asked[p] - clock_ticks[p] + Pending
      BY <1>4
    <3>2. /\ elapsed[p] \in Nat /\ owed[p] \in Nat /\ asked[p] \in 0 .. MaxDelay
          /\ clock_ticks[p] \in 0 .. MaxDelay
      BY <1>1
    <3>3. elapsed[p] < MaxElapsed
      BY <1>1, <3>1, <3>2 DEF MaxElapsed
    <3> QED
      BY <1>2, <2>0, <3>3
  <2>2. \A p \in Pid : elapsed'[p] \in Nat /\ elapsed'[p] >= elapsed[p]
    BY <1>1, <2>0
  <2>3. CASE TrapClock
    <3>1. /\ SwapProcess("ready", ready_q, blocked_q, defunct_q)
          /\ pc[activePCB] = "user" /\ pc' = [pc EXCEPT ![activePCB] = "clock"]
          /\ clock_ticks' = clock_ticks
      BY <2>3 DEF TrapClock, SaveContext, UserMode, fields
    <3>2. Elems(blocked_q') = Elems(blocked_q)
      BY <1>0, <3>1, Placed, SwapNow
    <3>3. \A p \in Pid : pc'[p] = IF p = activePCB THEN "clock" ELSE pc[p]
      BY <1>1, <3>1
    <3>4. Pending' = Pending + 1
      <4>1. {p \in Pid : pc'[p] = "clock"} = Clocked \cup {activePCB}
        BY <1>1, <3>3 DEF Clocked
      <4>2. activePCB \notin Clocked
        BY <3>1 DEF Clocked
      <4>3. Cardinality(Clocked \cup {activePCB}) = Cardinality(Clocked) + 1
        BY <4>2, ClockedFinite, FS_AddElement
      <4> QED
        BY <4>1, <4>3, ClockedFinite DEF Pending
    <3>5. \A p \in Pid : Delaying(p)' =>
            asked'[p] - clock_ticks'[p] + Pending' = elapsed'[p] + owed'[p]
      <4> TAKE p \in Pid
      <4> HAVE Delaying(p)'
      <4>1. Delaying(p)
        BY <1>2, <1>3, <3>2, <3>3
      <4>2. /\ elapsed[p] \in Nat /\ owed[p] \in Nat /\ asked[p] \in 0 .. MaxDelay
            /\ clock_ticks[p] \in 0 .. MaxDelay
        BY <1>1
      <4> QED
        BY <1>1, <1>4, <2>0, <2>1, <3>1, <3>4, <4>1, <4>2
    <3>6. \A p \in Pid : pc'[p] = "delay" /\ p \notin Elems(blocked_q') =>
            elapsed'[p] + owed'[p] > asked'[p]
      BY <1>1, <1>4, <2>0, <2>2, <3>2, <3>3
    <3> QED
      BY <3>5, <3>6 DEF ScanLedger
  <2>4. CASE TrapClockIdle
    <3>1. ScanBlocked /\ pc' = pc
      BY <2>4 DEF TrapClockIdle
    <3>2. Pending' = Pending
      BY <1>5, <3>1
    <3>3. \A p \in Pid : Delaying(p)' =>
            asked'[p] - clock_ticks'[p] + Pending' = elapsed'[p] + owed'[p]
      <4> TAKE p \in Pid
      <4> HAVE Delaying(p)'
      <4>1. Delaying(p) /\ clock_ticks'[p] = clock_ticks[p] - 1
        BY <1>2, <1>3, <1>7, <3>1
      <4>2. /\ elapsed[p] \in Nat /\ owed[p] \in Nat /\ asked[p] \in 0 .. MaxDelay
            /\ clock_ticks[p] \in 0 .. MaxDelay
        BY <1>1
      <4> QED
        BY <1>1, <1>4, <2>0, <2>1, <3>2, <4>1, <4>2
    <3>4. \A p \in Pid : pc'[p] = "delay" /\ p \notin Elems(blocked_q') =>
            elapsed'[p] + owed'[p] > asked'[p]
      <4> TAKE p \in Pid
      <4> HAVE pc'[p] = "delay" /\ p \notin Elems(blocked_q')
      <4>1. /\ elapsed[p] \in Nat /\ owed[p] \in Nat /\ asked[p] \in 0 .. MaxDelay
            /\ pc[p] = "delay" /\ elapsed'[p] \in Nat /\ elapsed'[p] >= elapsed[p]
        BY <1>1, <2>2, <3>1
      <4>2. CASE p \in Elems(blocked_q)
        <5>1. Delaying(p) /\ clock_ticks[p] = 0
          BY <1>2, <1>7, <3>1, <4>1, <4>2
        <5> QED
          BY <1>1, <1>4, <2>0, <2>1, <4>1, <5>1
      <4>3. CASE p \notin Elems(blocked_q)
        BY <1>4, <2>0, <4>1, <4>3
      <4> QED
        BY <4>2, <4>3
    <3> QED
      BY <3>3, <3>4 DEF ScanLedger
  <2> QED
    BY <1>8, <2>3, <2>4 DEF DClock
<1>9. CASE ResumeClock /\ UNCHANGED history
  <2>1. /\ ScanBlocked /\ pc[activePCB] = "clock"
        /\ pc' = [pc EXCEPT ![activePCB] = "user"]
        /\ asked' = asked /\ owed' = owed /\ elapsed' = elapsed
    BY <1>9 DEF ResumeClock, ContinuesAt, history
  <2>2. \A p \in Pid : pc'[p] = IF p = activePCB THEN "user" ELSE pc[p]
    BY <1>1, <2>1
  <2>3. Pending' = Pending - 1 /\ Pending > 0
    <3>1. {p \in Pid : pc'[p] = "clock"} = Clocked \ {activePCB}
      BY <1>1, <2>2 DEF Clocked
    <3>2. activePCB \in Clocked
      BY <1>1, <2>1 DEF Clocked
    <3>3. Cardinality(Clocked \ {activePCB}) = Cardinality(Clocked) - 1
      BY <3>2, ClockedFinite, FS_RemoveElement
    <3>4. Cardinality(Clocked) # 0
      BY <3>2, ClockedFinite, FS_EmptySet
    <3>5. Pending' = Cardinality(Clocked \ {activePCB})
      BY <3>1 DEF Pending
    <3>6. Pending = Cardinality(Clocked) /\ Pending \in Nat
      BY <1>1, ClockedFinite
    <3> QED
      BY <3>3, <3>4, <3>5, <3>6
  <2>4. \A p \in Pid : Delaying(p)' =>
          asked'[p] - clock_ticks'[p] + Pending' = elapsed'[p] + owed'[p]
    <3> TAKE p \in Pid
    <3> HAVE Delaying(p)'
    <3>1. Delaying(p) /\ clock_ticks'[p] = clock_ticks[p] - 1
      BY <1>2, <1>3, <1>7, <2>1, <2>2
    <3>2. /\ elapsed[p] \in Nat /\ owed[p] \in Nat /\ asked[p] \in 0 .. MaxDelay
          /\ clock_ticks[p] \in 0 .. MaxDelay
      BY <1>1
    <3> QED
      BY <1>1, <1>4, <2>1, <2>3, <3>1, <3>2
  <2>5. \A p \in Pid : pc'[p] = "delay" /\ p \notin Elems(blocked_q') =>
          elapsed'[p] + owed'[p] > asked'[p]
    <3> TAKE p \in Pid
    <3> HAVE pc'[p] = "delay" /\ p \notin Elems(blocked_q')
    <3>1. /\ elapsed[p] \in Nat /\ owed[p] \in Nat /\ asked[p] \in 0 .. MaxDelay
          /\ pc[p] = "delay"
      BY <1>1, <2>2
    <3>2. CASE p \in Elems(blocked_q)
      <4>1. Delaying(p) /\ clock_ticks[p] = 0
        BY <1>2, <1>7, <2>1, <3>1, <3>2
      <4> QED
        BY <1>1, <1>4, <2>1, <2>3, <3>1, <4>1
    <3>3. CASE p \notin Elems(blocked_q)
      BY <1>4, <2>1, <3>1, <3>3
    <3> QED
      BY <3>2, <3>3
  <2> QED
    BY <2>4, <2>5 DEF ScanLedger
<1>10. CASE DDelay
  <2>1. PICK n \in 0 .. MaxDelay :
          /\ KernelDelay(n)
          /\ asked' = [asked EXCEPT ![activePCB] = n]
          /\ owed' = [owed EXCEPT ![activePCB] = Pending]
          /\ elapsed' = [elapsed EXCEPT ![activePCB] = 0]
    BY <1>10 DEF DDelay
  <2>2. /\ SwapProcess("blocked", ready_q, blocked_q, defunct_q)
        /\ activePCB # idle /\ pc[activePCB] = "user"
        /\ pc' = [pc EXCEPT ![activePCB] = "delay"]
        /\ clock_ticks' = [clock_ticks EXCEPT ![activePCB] = n]
    BY <2>1 DEF KernelDelay, SaveContext, UserProgram, UserMode
  <2>3. Elems(blocked_q') = Elems(blocked_q) \cup {activePCB}
    BY <1>0, <2>2, Placed, SwapNow
  <2>4. /\ \A p \in Pid : pc'[p] = IF p = activePCB THEN "delay" ELSE pc[p]
        /\ \A p \in Pid : clock_ticks'[p] = IF p = activePCB THEN n ELSE clock_ticks[p]
        /\ \A p \in Pid : asked'[p] = IF p = activePCB THEN n ELSE asked[p]
        /\ \A p \in Pid : owed'[p] = IF p = activePCB THEN Pending ELSE owed[p]
        /\ \A p \in Pid : elapsed'[p] = IF p = activePCB THEN 0 ELSE elapsed[p]
    BY <1>1, <2>1, <2>2
  <2>5. Pending' = Pending
    BY <1>5, <2>2, <2>4
  <2>6. \A p \in Pid : Delaying(p)' =>
          asked'[p] - clock_ticks'[p] + Pending' = elapsed'[p] + owed'[p]
    BY <1>1, <1>2, <1>3, <1>4, <2>3, <2>4, <2>5
  <2>7. \A p \in Pid : pc'[p] = "delay" /\ p \notin Elems(blocked_q') =>
          elapsed'[p] + owed'[p] > asked'[p]
    BY <1>4, <2>3, <2>4
  <2> QED
    BY <2>6, <2>7 DEF ScanLedger
<1>11. CASE DReturn
  <2>1. /\ pc[activePCB] = "delay" /\ pc' = [pc EXCEPT ![activePCB] = "user"]
        /\ blocked_q' = blocked_q /\ clock_ticks' = clock_ticks
        /\ asked' = [asked EXCEPT ![activePCB] = 0]
        /\ owed' = [owed EXCEPT ![activePCB] = 0]
        /\ elapsed' = [elapsed EXCEPT ![activePCB] = 0]
    BY <1>11 DEF DReturn, ResumeDelay, ContinuesAt, queues, fields
  <2>2. /\ \A p \in Pid : pc'[p] = IF p = activePCB THEN "user" ELSE pc[p]
        /\ \A p \in Pid \ {activePCB} :
             asked'[p] = asked[p] /\ owed'[p] = owed[p] /\ elapsed'[p] = elapsed[p]
    BY <1>1, <2>1
  <2>3. Pending' = Pending
    BY <1>5, <2>1, <2>2
  <2> QED
    BY <1>2, <1>3, <1>4, <2>1, <2>2, <2>3 DEF ScanLedger
<1>12. CASE Untimed /\ UNCHANGED history /\ ~ResumeClock
  BY <1>0, <1>6, <1>12, UntimedCalm
<1>13. CASE UNCHANGED dvars
  BY <1>6, <1>13 DEF dvars, vars, queues, fields, Calm
<1> QED
  BY <1>8, <1>9, <1>10, <1>11, <1>12, <1>13 DEF DNext

\* Clock interrupts and scans of blocked_q balance, for any number of
\* processes and any length of Delay: TrapClockHandler loses no scan and does
\* none twice, in whichever order the contexts it left are resumed.
THEOREM ScanLedgerCorrect == DSpec => []ScanLedger
<1>1. DInit => LedgerInv
  BY LedgerInit
<1>2. LedgerInv /\ [DNext]_dvars => LedgerInv'
  <2> SUFFICES ASSUME LedgerInv, [DNext]_dvars PROVE LedgerInv'
    OBVIOUS
  <2>1. /\ TypeOK /\ Births /\ OnePlace /\ Contexted /\ UnbornUser /\ LedgerTypes
        /\ [Next]_vars
    BY DStepStep DEF LedgerInv
  <2>2. TypeOK' /\ Births' /\ OnePlace' /\ Contexted' /\ UnbornUser'
    BY <2>1, TypeStep, BirthsStep, OnePlaceStep, ContextStep, UnbornUserStep
  <2>3. LedgerTypes'
    <3>1. activePCB \in Pid /\ Pending \in Nat /\ 0 \in 0 .. MaxDelay
      BY <2>1, Constants, ClockedFinite DEF TypeOK
    <3>2. CASE DClock
      BY <2>1, <3>2 DEF DClock, LedgerTypes
    <3>3. CASE DDelay
      BY <2>1, <3>1, <3>3 DEF DDelay, LedgerTypes
    <3>4. CASE DReturn
      BY <2>1, <3>1, <3>4 DEF DReturn, LedgerTypes
    <3>5. CASE UNCHANGED history
      BY <2>1, <3>5 DEF history, LedgerTypes
    <3> QED
      BY <3>2, <3>3, <3>4, <3>5 DEF DNext, dvars
  <2> QED
    BY <2>2, <2>3, LedgerStep DEF LedgerInv
<1>3. LedgerInv => ScanLedger
  BY DEF LedgerInv
<1> QED
  BY <1>1, <1>2, <1>3, PTL DEF DSpec

-----------------------------------------------------------------------------
(* ProcessTty: processes that also read from a terminal.  A process in the *)
(* terminal's queue is in none that Process knows.                         *)

ReadContexts == Contexts \cup {"ttyread"}

\* Who is in the queue continues in KernelTtyRead.
Reading == \A p \in Elems(ttyReadQueue) : pc[p] = "ttyread"

\* The queues and births, with the terminal's queue.
ReadPlaces ==
  /\ Typed(ReadContexts) /\ Births
  /\ ttyReadQueue \in Seq(Pid) /\ NoDup(ttyReadQueue)
  /\ Placing(Elems(ttyReadQueue))

\* The inductive invariant: until a reader is woken and left in the queue, it
\* says where everybody is, who has yet to read and whom Wait has missed.
ReadState ==
  /\ ReadPlaces /\ Reading /\ LineHasReader
  /\ Gone(missed) /\ CountedOrMissed
ReadInv == ~peeked => ReadState

\* SwapProcess loses nobody who is ready.
LEMMA SwapKeepsReady ==
  ASSUME NEW C, Typed(C), NEW move, NEW r \in Seq(Pid), NEW b, NEW d,
         SwapProcess(move, r, b, d)
  PROVE  \A p \in Elems(r) : p = activePCB' \/ p \in Elems(ready_q')
<1>1. /\ AfterPop(r) \in Seq(Pid)
      /\ \A p \in Elems(r) : p = PopOr(r, idle) \/ p \in Elems(AfterPop(r))
  <2>1. CASE r = <<>>
    BY <2>1 DEF AfterPop, PopOr, Elems
  <2>2. CASE r # <<>>
    BY <2>2, PopQueue DEF AfterPop, PopOr
  <2> QED
    BY <2>1, <2>2
<1>2. /\ activePCB' = PopOr(r, idle)
      /\ ready_q' = AfterPop(r) \/ ready_q' = Append(AfterPop(r), activePCB)
  BY DEF SwapProcess
<1>3. Elems(AfterPop(r)) \subseteq Elems(ready_q')
  <2>1. activePCB \in Pid
    BY DEF Typed
  <2>2. \A q \in Seq(Pid) : Elems(Append(q, activePCB)) = Elems(q) \cup {activePCB}
    BY <2>1, AppendQueue
  <2> QED
    BY <1>1, <1>2, <2>2
<1> QED
  BY <1>1, <1>2, <1>3

\* A step of Process leaves those who are ready in ready_q, or one of them
\* runs; it changes neither their contexts nor those of processes in other
\* queues, and it is not the step of a process in KernelTtyRead.
LEMMA ReadyStay ==
  ASSUME NEW C, Typed(C), Births, NEW A, Placing(A), Next
  PROVE  /\ pc[activePCB] # "ttyread"
         /\ \A p \in Elems(ready_q) : p = activePCB' \/ p \in Elems(ready_q')
         /\ \A p \in Elems(ready_q) \cup A : pc'[p] = pc[p]
<1> USE PlacedIn, Constants
<1> DEFINE Stay == \A p \in Elems(ready_q) : p = activePCB' \/ p \in Elems(ready_q')
           Same == \A p \in Elems(ready_q) \cup A : pc'[p] = pc[p]
<1>1. \A where : pc' = [pc EXCEPT ![activePCB] = where] => Same
  BY DEF Typed
<1> HIDE DEF Same
<1>2. CASE TrapClock \/ TrapFault \/ KernelWaitBlock \/ Delay
  <2>1. /\ pc[activePCB] = "user" /\ \E where : pc' = [pc EXCEPT ![activePCB] = where]
        /\ \E move : SwapProcess(move, ready_q, blocked_q, defunct_q)
    BY <1>2 DEF TrapClock, TrapFault, KernelWaitBlock, Delay, KernelDelay, UserProgram,
       UserMode, SaveContext
  <2>2. Stay
    BY <2>1, SwapKeepsReady
  <2> QED
    BY <1>1, <2>1, <2>2 DEF Same
<1>3. CASE TrapClockIdle \/ ResumeClock
  <2>1. /\ ScanBlocked /\ pc[activePCB] \in {"user", "clock"}
        /\ pc' = pc \/ pc' = [pc EXCEPT ![activePCB] = "user"]
    BY <1>3 DEF TrapClockIdle, ResumeClock, UserMode, ContinuesAt
  <2>2. Stay
    BY <2>1, ScanPlacesIn
  <2>3. Same
    BY <1>1, <2>1 DEF Same
  <2> QED
    BY <2>1, <2>2, <2>3 DEF Same
<1>4. CASE ResumeNew \/ ResumeWait \/ ResumeDelay
  <2>1. /\ pc[activePCB] \in {"boot", "fork", "wait", "delay"} /\ ready_q' = ready_q
        /\ pc' = [pc EXCEPT ![activePCB] = "user"]
    BY <1>4 DEF ResumeNew, ResumeWait, ResumeDelay, ContinuesAt, queues
  <2> QED
    BY <1>1, <2>1 DEF Same
<1>5. CASE KernelFork
  <2>1. /\ pc[activePCB] = "user" /\ ready_q' = Append(ready_q, nextpid)
        /\ nextpid \in Pid /\ life[nextpid] = "unborn"
        /\ pc' = [pc EXCEPT ![nextpid] = "fork"]
    BY <1>5 DEF KernelFork, init_process, UserProgram, UserMode, Typed, Births, Pid
  <2>2. Stay
    BY <2>1, AppendQueue
  <2>3. Same
    BY <2>1 DEF Typed, Same
  <2> QED
    BY <2>1, <2>2, <2>3 DEF Same
<1>6. CASE KernelForkError \/ KernelForkNull \/ KernelWaitReap
  <2>1. pc[activePCB] = "user" /\ ready_q' = ready_q /\ pc' = pc
    BY <1>6 DEF KernelForkError, KernelForkNull, KernelWaitReap, UserProgram, UserMode, queues
  <2> QED
    BY <2>1
<1>7. CASE Exit \/ Abort
  <2>1. PICK code : KernelExit(code)
    BY <1>7 DEF Exit, Abort
  <2> DEFINE par == ppid[activePCB]
             r == IF ParentWaits THEN Append(ready_q, par) ELSE ready_q
             b == IF ParentWaits THEN Keep(blocked_q, Pid \ {par}) ELSE blocked_q
             d == Keep(defunct_q, Pid \ ChildrenIn(defunct_q))
             move == IF ParentMayWait THEN "defunct" ELSE "none"
  <2>2. /\ pc[activePCB] = "user" /\ pc' = [pc EXCEPT ![activePCB] = "exit"]
        /\ SwapProcess(move, r, b, d) /\ par \in Pid
    BY <2>1 DEF KernelExit, UserProgram, UserMode, SaveContext, Typed
  <2>3. r \in Seq(Pid) /\ Elems(ready_q) \subseteq Elems(r)
    BY <2>2, AppendQueue
  <2> HIDE DEF par, r, b, d, move
  <2>4. Stay
    BY <2>2, <2>3, SwapKeepsReady
  <2> QED
    BY <1>1, <2>2, <2>4 DEF Same
<1> QED
  BY <1>2, <1>3, <1>4, <1>5, <1>6, <1>7 DEF Next, Untimed

\* The queues, after a call of TtyRead that blocks.
LEMMA BlockPlaces ==
  ASSUME ReadPlaces, Reading, KernelTtyReadBlock
  PROVE  /\ ReadPlaces' /\ Reading'
         /\ \A p \in Elems(ready_q) : p = activePCB' \/ p \in Elems(ready_q')
         /\ \A p \in Elems(ready_q) : pc'[p] = pc[p]
<1> DEFINE A == Elems(ttyReadQueue)
<1>0. Typed(ReadContexts) /\ Placing(A)
  BY DEF ReadPlaces
<1> USE <1>0, PlacedIn, Constants
<1>1. /\ SwapProcess("none", ready_q, blocked_q, defunct_q)
      /\ pc' = [pc EXCEPT ![activePCB] = "ttyread"] /\ activePCB # idle
      /\ ttyReadQueue' = Append(ttyReadQueue, activePCB)
      /\ blocked_code' = [blocked_code EXCEPT ![activePCB] = BLOCKED_TTY_READ]
      /\ UNCHANGED <<ppid, num_children, clock_ticks, exit_code, life, nextpid, crashed>>
  BY DEF KernelTtyReadBlock, SaveContext, UserProgram
<1>2. /\ activePCB \notin A /\ \A p \in A : p \in Pid /\ p # activePCB
      /\ ttyReadQueue \in Seq(Pid) /\ NoDup(ttyReadQueue)
  BY DEF ReadPlaces
<1>3. /\ ttyReadQueue' \in Seq(Pid) /\ NoDup(ttyReadQueue')
      /\ Elems(ttyReadQueue') = A \cup {activePCB}
  BY <1>1, <1>2, AppendQueue
<1>4. /\ NoDup(ready_q') /\ NoDup(blocked_q') /\ NoDup(defunct_q')
      /\ activePCB' = idle \/ activePCB' \in Elems(ready_q)
      /\ Elems(ready_q') = Elems(ready_q) \ {activePCB'}
      /\ Elems(blocked_q') = Elems(blocked_q)
      /\ Elems(defunct_q') = Elems(defunct_q)
  BY <1>1, SwapPlacesIn
<1>5. /\ activePCB' \in Pid /\ ready_q' \in Seq(Pid) /\ blocked_q' \in Seq(Pid)
      /\ defunct_q' \in Seq(Pid)
  BY <1>1, SwapType
<1>6. pc'[activePCB] = "ttyread" /\ \A p \in Pid \ {activePCB} : pc'[p] = pc[p]
  BY <1>1 DEF Typed
<1>7. Typed(ReadContexts)'
  <2>1. pc' \in [Pid -> ReadContexts] /\ blocked_code' \in [Pid -> Int]
    BY <1>1, SMTT(40) DEF Typed, ReadContexts, BLOCKED_TTY_READ
  <2> QED
    BY <1>1, <1>5, <2>1 DEF Typed
<1>8. Births'
  <2>1. \A p \in Pid : life[p] = "unborn" => blocked_code'[p] = blocked_code[p]
    BY <1>1 DEF Typed
  <2> QED
    BY <1>1, <2>1 DEF Births, ReadPlaces
<1>9. Placing(Elems(ttyReadQueue))'
  <2>1. {activePCB', idle} \cup Elems(ready_q') \cup Elems(blocked_q') \cup Elems(ttyReadQueue')
          = {activePCB, idle} \cup Elems(ready_q) \cup Elems(blocked_q) \cup A
    BY <1>3, <1>4
  <2>2. Elems(ttyReadQueue')
          \cap ({activePCB', idle} \cup Elems(ready_q') \cup Elems(blocked_q')) = {}
    BY <1>1, <1>3, <1>4
  <2>3. /\ Elems(ready_q') \cap Elems(blocked_q') = {}
        /\ activePCB' \notin Elems(ready_q') \cup Elems(blocked_q')
        /\ idle \notin Elems(ready_q') \cup Elems(blocked_q')
    BY <1>4
  <2>4. {p \in Pid : life'[p] = "live"}
          = {activePCB, idle} \cup Elems(ready_q) \cup Elems(blocked_q) \cup A
        /\ Elems(defunct_q) = {p \in Pid : life'[p] \in {"zombie", "faulted"}}
    BY <1>1 DEF Placing
  <2> QED
    BY <1>4, <2>1, <2>2, <2>3, <2>4 DEF Placing
<1>10. Reading'
  BY <1>2, <1>3, <1>6 DEF Reading
<1>11. \A p \in Elems(ready_q) : p = activePCB' \/ p \in Elems(ready_q')
  BY <1>4
<1>12. \A p \in Elems(ready_q) : pc'[p] = pc[p]
  BY <1>6
<1> QED
  BY <1>3, <1>7, <1>8, <1>9, <1>10, <1>11, <1>12 DEF ReadPlaces

\* The queues, after a line has been typed.
LEMMA ReceivePlaces ==
  ASSUME ReadPlaces, Reading, TrapTTYReceive
  PROVE  /\ ReadPlaces' /\ Reading'
         /\ ttyReadQueue' # <<>> => Head(ttyReadQueue) \in Elems(ready_q')
                                    /\ pc'[Head(ttyReadQueue)] = "ttyread"
<1> DEFINE Q == ttyReadQueue
           A == Elems(Q)
           woken == Elems(PopSeq(Q))
<1>0. Typed(ReadContexts) /\ Placing(A) /\ Q \in Seq(Pid) /\ NoDup(Q) /\ Births
  BY DEF ReadPlaces
<1> USE <1>0, PlacedIn, Constants
<1>1. /\ ready_q' = ready_q \o PopSeq(Q) /\ ttyReadQueue' = AfterPop(Q)
      /\ blocked_code' = [p \in Pid |-> IF p \in woken THEN NOT_BLOCKED ELSE blocked_code[p]]
      /\ UNCHANGED <<activePCB, blocked_q, defunct_q, ppid, num_children,
                     clock_ticks, exit_code, pc, life, nextpid, crashed>>
  BY DEF TrapTTYReceive
<1>2. /\ PopSeq(Q) \in Seq(Pid) /\ NoDup(PopSeq(Q)) /\ woken \subseteq A
      /\ AfterPop(Q) \in Seq(Pid) /\ NoDup(AfterPop(Q))
      /\ Elems(AfterPop(Q)) = A \ woken
      /\ Q # <<>> => Head(Q) \in woken
      /\ Q = <<>> => AfterPop(Q) = <<>>
  <2>1. CASE Q = <<>>
    BY <2>1 DEF PopSeq, AfterPop, Elems, NoDup
  <2>2. CASE Q # <<>>
    <3> DEFINE h == Head(Q)
    <3>1. /\ h \in A /\ h \in Pid /\ Tail(Q) \in Seq(Pid) /\ A = Elems(Tail(Q)) \cup {h}
          /\ NoDup(Tail(Q)) /\ h \notin Elems(Tail(Q))
      BY <2>2, PopQueue
    <3>2. PopSeq(Q) = <<h>> /\ AfterPop(Q) = Tail(Q)
      BY <2>2 DEF PopSeq, AfterPop
    <3> HIDE DEF h, A, Q
    <3>3. <<h>> \in Seq(Pid) /\ Elems(<<h>>) = {h} /\ NoDup(<<h>>)
      BY <3>1 DEF Elems, NoDup
    <3> QED
      BY <2>2, <3>1, <3>2, <3>3 DEF h
  <2> QED
    BY <2>1, <2>2
<1> HIDE DEF A, woken
<1>3. /\ ready_q' \in Seq(Pid) /\ NoDup(ready_q') /\ Elems(ready_q') = Elems(ready_q) \cup woken
  <2>1. Elems(ready_q) \cap woken = {}
    BY <1>2 DEF A
  <2> QED
    BY <1>1, <1>2, <2>1, ConcatQueue DEF woken
<1>4. Elems(ttyReadQueue') = A \ woken
  BY <1>1, <1>2
<1>5. Typed(ReadContexts)'
  <2>1. blocked_code \in [Pid -> Int] /\ NOT_BLOCKED \in Int
    BY DEF Typed, NOT_BLOCKED
  <2>2. blocked_code' \in [Pid -> Int]
    BY <1>1, <2>1
  <2> QED
    BY <1>1, <1>3, <2>2 DEF Typed, ReadContexts, Contexts
<1>6. Births'
  BY <1>1 DEF Births
<1>7. Placing(Elems(ttyReadQueue))'
  <2>1. /\ {activePCB, idle} \cup Elems(ready_q') \cup Elems(blocked_q) \cup (A \ woken)
             = {activePCB, idle} \cup Elems(ready_q) \cup Elems(blocked_q) \cup A
        /\ (A \ woken) \cap ({activePCB, idle} \cup Elems(ready_q') \cup Elems(blocked_q)) = {}
        /\ Elems(ready_q') \cap Elems(blocked_q) = {}
        /\ activePCB \notin Elems(ready_q') /\ idle \notin Elems(ready_q')
    BY <1>2, <1>3 DEF A
  <2>2. /\ {activePCB, idle} \cup Elems(ready_q) \cup Elems(blocked_q) \cup A
             = {p \in Pid : life[p] = "live"}
        /\ Elems(defunct_q) = {p \in Pid : life[p] \in {"zombie", "faulted"}}
        /\ idle \notin Elems(blocked_q)
    BY DEF A, Placing
  <2> QED
    BY <1>1, <1>3, <1>4, <2>1, <2>2 DEF Placing
<1>8. Reading'
  BY <1>1, <1>4 DEF Reading, A
<1>9. ttyReadQueue' # <<>> => Head(Q) \in Elems(ready_q') /\ pc'[Head(Q)] = "ttyread"
  BY <1>1, <1>2, <1>3 DEF Reading, A
<1> QED
  BY <1>1, <1>2, <1>3, <1>5, <1>6, <1>7, <1>8, <1>9 DEF ReadPlaces

\* A read that leaves nobody woken in the queue changes the buffer only.
LEMMA ReadsAlone ==
  ASSUME FinishRead, ~peeked'
  PROVE  /\ ~(ttyReadQueue # <<>> /\ bytes' > 0)
         /\ UNCHANGED <<activePCB, ready_q, blocked_q, defunct_q, ppid, num_children,
                        blocked_code, clock_ticks, exit_code, life, nextpid, crashed,
                        ttyReadQueue, missed>>
<1>1. WakeNext
  BY DEF FinishRead
<1>2. ~(ttyReadQueue # <<>> /\ bytes' > 0) /\ UNCHANGED <<ready_q, blocked_code>>
  BY <1>1, Zenon DEF WakeNext
<1> QED
  BY <1>2 DEF FinishRead

\* A step of module Process.
LEMMA ReadProcessStep ==
  ASSUME ReadState, ~peeked, ProcessStep
  PROVE  ReadState'
<1>0. /\ ReadPlaces /\ Reading /\ LineHasReader /\ Gone(missed) /\ CountedOrMissed
      /\ Typed(ReadContexts) /\ Births /\ Placing(Elems(ttyReadQueue))
      /\ ttyReadQueue \in Seq(Pid) /\ NoDup(ttyReadQueue)
  BY DEF ReadState, ReadPlaces
<1>1. /\ Next /\ ttyReadQueue' = ttyReadQueue /\ bytes' = bytes /\ peeked' = peeked
      /\ missed' = missed \cup {p \in Pid : /\ life[p] = "live" /\ life'[p] = "freed"
                                           /\ ppid[p] \in Elems(ttyReadQueue)}
  BY DEF ProcessStep, tty
<1>2. PICK A : A = Elems(ttyReadQueue)
  OBVIOUS
<1>3. Placing(A) /\ Contexts \subseteq ReadContexts
  BY <1>0, <1>2 DEF ReadContexts
<1>4. Typed(ReadContexts)' /\ Births' /\ Placing(A)'
  BY <1>0, <1>1, <1>3, TypeStepIn, BirthsStepIn, PlaceStepIn
<1>5. /\ pc[activePCB] # "ttyread"
      /\ \A p \in Elems(ready_q) : p = activePCB' \/ p \in Elems(ready_q')
      /\ \A p \in Elems(ready_q) \cup A : pc'[p] = pc[p]
  BY <1>0, <1>1, <1>3, ReadyStay
<1>6. Placing(Elems(ttyReadQueue))'
  BY <1>1, <1>2, <1>4 DEF Placing
<1>7. Reading'
  BY <1>0, <1>1, <1>2, <1>5 DEF Reading
<1>8. LineHasReader'
  BY <1>0, <1>1, <1>5 DEF LineHasReader
<1>9. Gone(missed)' /\ CountedOrMissed'
  <2>1. PICK M : M = missed
    OBVIOUS
  <2>2. PICK N : N = missed'
    OBVIOUS
  <2>3. Gone(M) /\ \A p \in Pid \ {idle} : life[p] = "live" =>
                     num_children[p] = Cardinality(Counted(p, M))
    BY <1>0, <2>1 DEF Gone, CountedOrMissed, Counted
  <2>4. N = M \cup {p \in Pid : life[p] = "live" /\ life'[p] = "freed" /\ ppid[p] \in A}
    BY <1>1, <1>2, <2>1, <2>2
  <2>5. Gone(N)' /\ \A p \in Pid \ {idle} : life'[p] = "live" =>
                      num_children'[p] = Cardinality(Counted(p, N)')
    BY <1>0, <1>1, <1>3, <2>3, <2>4, CountStepIn, ZenonT(60)
  <2> QED
    BY <2>2, <2>5 DEF Gone, CountedOrMissed, Counted
<1> QED
  BY <1>0, <1>1, <1>4, <1>6, <1>7, <1>8, <1>9 DEF ReadState, ReadPlaces

\* The invariant is preserved.
LEMMA ReadStep ==
  ASSUME ReadInv, [NextTty]_allvars
  PROVE  ReadInv'
<1>1. CASE peeked /\ UNCHANGED allvars
  BY <1>1 DEF ReadInv, allvars, tty
<1> SUFFICES ASSUME ~peeked', ~(peeked /\ UNCHANGED allvars)
             PROVE  ReadState'
  BY <1>1 DEF ReadInv
<1>2. ~peeked
  BY DEF NextTty, allvars, tty
<1>3. /\ ReadState /\ ReadPlaces /\ Reading /\ LineHasReader /\ Gone(missed)
      /\ CountedOrMissed
      /\ Typed(ReadContexts) /\ Births /\ Placing(Elems(ttyReadQueue))
      /\ ttyReadQueue \in Seq(Pid) /\ NoDup(ttyReadQueue)
  BY <1>2 DEF ReadInv, ReadState, ReadPlaces
<1>4. ASSUME UNCHANGED <<ppid, num_children, life, missed>>
      PROVE  Gone(missed)' /\ CountedOrMissed'
  BY <1>2, <1>3, <1>4 DEF Gone, CountedOrMissed, Brood
<1>5. CASE ProcessStep
  BY <1>2, <1>3, <1>5, ReadProcessStep
<1>6. CASE KernelTtyReadNow
  <2>1. /\ ~(ttyReadQueue # <<>> /\ bytes' > 0) /\ pc' = pc
        /\ UNCHANGED <<activePCB, ready_q, blocked_q, defunct_q, ppid, num_children,
                       blocked_code, clock_ticks, exit_code, life, nextpid, crashed,
                       ttyReadQueue, missed>>
    BY <1>6, ReadsAlone DEF KernelTtyReadNow
  <2>2. ReadPlaces' /\ Reading'
    BY <1>3, <2>1 DEF ReadPlaces, Typed, Births, Placing, Reading
  <2>3. LineHasReader'
    BY <2>1 DEF LineHasReader
  <2> QED
    BY <1>4, <2>1, <2>2, <2>3 DEF ReadState
<1>7. CASE KernelTtyReadBlock
  <2>1. /\ ReadPlaces' /\ Reading'
        /\ \A p \in Elems(ready_q) : p = activePCB' \/ p \in Elems(ready_q')
        /\ \A p \in Elems(ready_q) : pc'[p] = pc[p]
    BY <1>3, <1>7, BlockPlaces
  <2>2. /\ MustWait /\ bytes' = bytes /\ pc[activePCB] = "user"
        /\ UNCHANGED <<ppid, num_children, life, missed>>
    BY <1>7 DEF KernelTtyReadBlock, UserProgram, UserMode
  <2>3. LineHasReader'
    BY <1>2, <1>3, <2>1, <2>2 DEF LineHasReader, MustWait
  <2> QED
    BY <1>4, <2>1, <2>2, <2>3 DEF ReadState
<1>8. CASE ResumeTtyRead
  <2>1. /\ ~(ttyReadQueue # <<>> /\ bytes' > 0) /\ pc' = [pc EXCEPT ![activePCB] = "user"]
        /\ UNCHANGED <<activePCB, ready_q, blocked_q, defunct_q, ppid, num_children,
                       blocked_code, clock_ticks, exit_code, life, nextpid, crashed,
                       ttyReadQueue, missed>>
    BY <1>8, ReadsAlone DEF ResumeTtyRead
  <2>2. \A p \in Elems(ttyReadQueue) : pc'[p] = pc[p]
    BY <1>3, <2>1, PlacedIn DEF Typed
  <2>3. "user" \in ReadContexts
    BY DEF ReadContexts, Contexts
  <2>4. Typed(ReadContexts)'
    BY <1>3, <2>1, <2>3 DEF Typed
  <2>5. Births' /\ Placing(Elems(ttyReadQueue))'
    BY <1>3, <2>1 DEF Births, Placing
  <2>6. LineHasReader'
    BY <2>1 DEF LineHasReader
  <2>7. ReadPlaces' /\ Reading'
    BY <1>3, <2>1, <2>2, <2>4, <2>5 DEF ReadPlaces, Reading
  <2> QED
    BY <1>4, <2>1, <2>6, <2>7 DEF ReadState
<1>9. CASE TrapTTYReceive
  <2>1. /\ ReadPlaces' /\ Reading'
        /\ ttyReadQueue' # <<>> => Head(ttyReadQueue) \in Elems(ready_q')
                                   /\ pc'[Head(ttyReadQueue)] = "ttyread"
    BY <1>3, <1>9, ReceivePlaces
  <2>2. UNCHANGED <<ppid, num_children, life, missed>>
    BY <1>9 DEF TrapTTYReceive
  <2>3. LineHasReader'
    BY <2>1 DEF LineHasReader
  <2> QED
    BY <1>4, <2>1, <2>2, <2>3 DEF ReadState
<1>10. CASE UNCHANGED allvars
  <2>1. UNCHANGED <<activePCB, ready_q, blocked_q, defunct_q, ppid, num_children,
                    blocked_code, clock_ticks, exit_code, pc, life, nextpid, crashed,
                    ttyReadQueue, bytes, missed, peeked>>
    BY <1>10 DEF allvars, tty, vars, queues, fields
  <2>2. ReadPlaces' /\ Reading' /\ LineHasReader'
    BY <1>3, <2>1 DEF ReadPlaces, Typed, Births, Placing, Reading, LineHasReader
  <2> QED
    BY <1>4, <2>1, <2>2 DEF ReadState
<1> QED
  BY <1>2, <1>5, <1>6, <1>7, <1>8, <1>9, <1>10 DEF NextTty

\* The invariant holds.
LEMMA ReadHolds == SpecTty => []ReadInv
<1>1. InitTty => ReadInv
  <2> SUFFICES ASSUME InitTty
               PROVE  ReadState
    BY DEF ReadInv
  <2>1. /\ TypeOK /\ Births /\ OnePlace /\ Kin
        /\ ttyReadQueue = <<>> /\ missed = {}
    BY TypeInit, BirthsInit, OnePlaceInit, KinInit DEF InitTty
  <2>2. Typed(ReadContexts)
    BY <2>1 DEF TypeOK, Typed, ReadContexts
  <2>3. Elems(<<>>) = {} /\ NoDup(<<>>) /\ <<>> \in Seq(Pid)
    BY DEF Elems, NoDup
  <2>4. Placing(Elems(ttyReadQueue))
    BY <2>1, <2>3 DEF OnePlace, Placing
  <2>5. \A p : Brood(p) \cup {c \in missed : ppid[c] = p} = Brood(p)
    BY <2>1
  <2>6. Gone(missed) /\ CountedOrMissed
    BY <2>1, <2>5 DEF Gone, CountedOrMissed, Kin, ChildCount
  <2> QED
    BY <2>1, <2>2, <2>3, <2>4, <2>6 DEF ReadState, ReadPlaces, Reading, LineHasReader
<1>2. ReadInv /\ [NextTty]_allvars => ReadInv'
  BY ReadStep
<1> QED
  BY <1>1, <1>2, PTL DEF SpecTty

\* KernelExit and the clock do not know the terminal's queue, and a process
\* that reads still is in one place: through Fork, Exit, Wait, Delay, faults,
\* TtyRead and lines typed ahead no process is lost and none is scheduled
\* twice, up to the first read that wakes the next reader and leaves it in
\* the queue (syscalls.c:516).
THEOREM LiveInOnePlaceCorrect == SpecTty => []LiveInOnePlace
<1>1. ReadInv => LiveInOnePlace
  <2> SUFFICES ASSUME ReadState
               PROVE  LiveInOnePlace
    BY DEF ReadInv, LiveInOnePlace
  <2> DEFINE a == <<activePCB>>
             ar == a \o ready_q
             arb == ar \o blocked_q
             all == arb \o ttyReadQueue
  <2>1. /\ activePCB \in Pid
        /\ ready_q \in Seq(Pid) /\ blocked_q \in Seq(Pid) /\ ttyReadQueue \in Seq(Pid)
        /\ NoDup(ready_q) /\ NoDup(blocked_q) /\ NoDup(ttyReadQueue)
    BY DEF ReadState, ReadPlaces, Typed, Placing
  <2>2. a \in Seq(Pid) /\ Elems(a) = {activePCB} /\ NoDup(a)
    BY <2>1 DEF Elems, NoDup
  <2> HIDE DEF a
  <2>3. /\ ar \in Seq(Pid) /\ Elems(ar) = {activePCB} \cup Elems(ready_q) /\ NoDup(ar)
    <3>1. Elems(a) \cap Elems(ready_q) = {}
      BY <2>2 DEF ReadState, ReadPlaces, Placing
    <3> QED
      BY <2>1, <2>2, <3>1, ConcatQueue
  <2> HIDE DEF ar
  <2>4. /\ arb \in Seq(Pid) /\ NoDup(arb)
        /\ Elems(arb) = {activePCB} \cup Elems(ready_q) \cup Elems(blocked_q)
    <3>1. Elems(ar) \cap Elems(blocked_q) = {}
      BY <2>3 DEF ReadState, ReadPlaces, Placing
    <3> QED
      BY <2>1, <2>3, <3>1, ConcatQueue
  <2> HIDE DEF arb
  <2>5. /\ NoDup(all)
        /\ Elems(all) = {activePCB} \cup Elems(ready_q) \cup Elems(blocked_q)
                          \cup Elems(ttyReadQueue)
    <3>1. Elems(arb) \cap Elems(ttyReadQueue) = {}
      BY <2>4 DEF ReadState, ReadPlaces, Placing
    <3> QED
      BY <2>1, <2>4, <3>1, ConcatQueue
  <2>6. Elems(all) \cup {idle} = {p \in Pid : life[p] = "live"}
    BY <2>5 DEF ReadState, ReadPlaces, Placing
  <2>7. all = <<activePCB>> \o ready_q \o blocked_q \o ttyReadQueue
    BY DEF a, ar, arb
  <2> HIDE DEF all
  <2> QED
    BY <2>5, <2>6, <2>7 DEF LiveInOnePlace, NoDup
<1> QED
  BY <1>1, ReadHolds, PTL

\* KernelTtyRead: up to that first read, when processes wait in TtyRead
\* beside bytes to read, one that was woken for them has yet to run, however
\* many lines are typed ahead and whoever else reads meanwhile.
THEOREM LineHasReaderCorrect == SpecTty => []LineHasReader
<1>1. ReadInv => LineHasReader
  BY DEF ReadInv, ReadState, LineHasReader
<1> QED
  BY <1>1, ReadHolds, PTL

\* KernelExit (syscalls.c:147): up to that first read, num_children of a
\* process is off by exactly the children that exited while it was in
\* TtyRead, whatever else its family does.
THEOREM CountedOrMissedCorrect == SpecTty => []CountedOrMissed
<1>1. ReadInv => CountedOrMissed
  BY DEF ReadInv, ReadState, CountedOrMissed
<1> QED
  BY <1>1, ReadHolds, PTL

=============================================================================
