----------------------------- MODULE SyncProofs -----------------------------
(***************************************************************************)
(* Locks and condition variables, for every number of processes, locks and *)
(* condition variables, whatever the codes of the lock's states are: the   *)
(* free ids, where the processes are queued, and that a lock comes.        *)
(***************************************************************************)
EXTENDS Sync, SchedProofs

CvarQueues == 0 .. MAX_CVARS - 1

\* The locks and the condition variables whose queue a process is in.
LockPlaces(p) == {l \in LockIds : p \in Elems(lockAquireQueues[l])}
CvarPlaces(p) == {c \in CvarQueues : p \in Elems(cvarWaitQueues[c])}

\* The scheduler has the process, or one queue has it.
Placed(p) ==
  \/ p \in Members /\ LockPlaces(p) = {} /\ CvarPlaces(p) = {}
  \/ p \notin Members /\ (\E l \in LockIds : LockPlaces(p) = {l}) /\ CvarPlaces(p) = {}
  \/ p \notin Members /\ LockPlaces(p) = {} /\ \E c \in CvarQueues : CvarPlaces(p) = {c}

\* Every process is in one place.
Places ==
  /\ SchedOnce
  /\ \A l \in LockIds : NoDup(lockAquireQueues[l])
  /\ \A c \in CvarQueues : NoDup(cvarWaitQueues[c])
  /\ \A p \in Proc : Placed(p)

\* Nobody waits for a terminal, and idle makes no system calls.
NoTty == /\ \A p \in PCB : blocked_code[p] # BLOCKED_TTY_TRANSMIT
         /\ pc[idle] \in {"user", "start", "clock"}

\* The ids that were handed out and not given back are ids.
IdsInv == FreeIdsFree /\ given \subseteq LockIds \cup CvarIds

\* Nobody owns a lock that is not handed out, or is in a call for it.
Quiet == \A l \in LockIds \ given :
           /\ lock_status[l] \notin Proc
           /\ \A p \in Proc : pc[p] \in {"acquire", "cvarwait"} => call[p] # l

\* The inductive invariant.
SyncInv == TypeOK /\ IdsInv /\ NoTty /\ Places /\ Quiet

-----------------------------------------------------------------------------
(* The kinds of steps.                                                     *)

\* w and rest are the processes of q that leave and that stay.
Splits(q, w, rest) ==
  /\ w \in Seq(Proc) /\ rest \in Seq(Proc)
  /\ Elems(q) = Elems(w) \cup Elems(rest) /\ Elems(w) \cap Elems(rest) = {}
  /\ NoDup(w) /\ NoDup(rest)

\* Acquire takes the lock, at once or after having waited.
Takes(l) ==
  /\ me \in Proc /\ l \in given
  /\ pc[me] = "acquire" => call[me] = l
  /\ Take(l)
  /\ blocked_code' \in {blocked_code, [blocked_code EXCEPT ![me] = NOT_BLOCKED]}

\* Acquire waits for the lock, which has an owner.
Blocks(l) ==
  /\ me \in Proc /\ l \in given /\ pc[me] # "acquire"
  /\ lock_status[l] \in Proc
  /\ AcquireBlock(l)

\* The owner gives the lock up, in Release or in CvarWait.
Frees(l) ==
  /\ me \in Proc /\ l \in given /\ pc[me] = "user" /\ lock_status[l] = me
  /\ lock_status' = [lock_status EXCEPT ![l] = FREE_LOCK]
  /\ lockAquireQueues' = [lockAquireQueues EXCEPT ![l] = HandOver(l).waiting]
  /\ UNCHANGED <<blocked_q, blocked_code, clock_ticks, tty_terminal, idvars,
                 cvar_status, crashed>>

Releases(l) ==
  /\ Frees(l)
  /\ ready_q' = ready_q \o HandOver(l).woken
  /\ UNCHANGED <<activePCB, pc, cvarWaitQueues, call>>

Waits(c, l) ==
  /\ Frees(l)
  /\ cvarWaitQueues' = [cvarWaitQueues EXCEPT ![c] = Joined(@)]
  /\ SwapProcess(ready_q \o HandOver(l).woken, "cvarwait")
  /\ call' = [call EXCEPT ![me] = l]

\* Signal and Broadcast.
Wakes(c, w, rest) ==
  /\ Splits(cvarWaitQueues[c], w, rest)
  /\ ready_q' = ready_q \o w
  /\ cvarWaitQueues' = [cvarWaitQueues EXCEPT ![c] = rest]
  /\ UNCHANGED <<activePCB, blocked_q, blocked_code, clock_ticks, tty_terminal,
                 pc, idvars, lock_status, cvar_status, lockAquireQueues, call,
                 crashed>>

\* CvarWait returns without the lock.
Refuses ==
  /\ me \in Proc /\ pc[me] = "cvarwait"
  /\ ToUser
  /\ UNCHANGED <<activePCB, ready_q, blocked_q, blocked_code, clock_ticks,
                 tty_terminal, idvars, lock_status, cvar_status,
                 lockAquireQueues, cvarWaitQueues, call, crashed>>

Kinds ==
  \/ Scheduling \/ KernelLockInit \/ KernelCvarInit \/ Crash \/ Refuses \/ UNCHANGED vars
  \/ \E n \in Int : MayReclaim(n) /\ KernelReclaim(n)
  \/ \E l \in LockIds : Takes(l) \/ Blocks(l) \/ Releases(l)
  \/ \E c \in CvarQueues : \/ \E l \in LockIds : Waits(c, l)
                           \/ \E w, rest : Wakes(c, w, rest)

\* queue_pop splits a queue.
LEMMA PopSplits ==
  ASSUME NEW q \in Seq(Proc), NoDup(q)
  PROVE  Splits(q, PopSeq(q), AfterPop(q))
<1>0. Elems(<<>>) = {} /\ NoDup(<<>>) /\ <<>> \in Seq(Proc)
  BY DEF Elems, NoDup
<1>1. CASE q = <<>>
  BY <1>0, <1>1 DEF PopSeq, AfterPop, Splits
<1>2. CASE q # <<>>
  <2>1. /\ Head(q) \in Proc /\ Tail(q) \in Seq(Proc)
        /\ Elems(q) = Elems(Tail(q)) \cup {Head(q)}
        /\ NoDup(Tail(q)) /\ Head(q) \notin Elems(Tail(q))
    BY <1>2, PopQueue
  <2>2. /\ Elems(<<Head(q)>>) = {Head(q)} /\ NoDup(<<Head(q)>>)
        /\ <<Head(q)>> \in Seq(Proc)
    BY <2>1 DEF Elems, NoDup
  <2> HIDE DEF Elems, NoDup
  <2> QED
    BY <1>2, <2>1, <2>2 DEF PopSeq, AfterPop, Splits
<1> QED
  BY <1>1, <1>2

\* The running process that is in the kernel is not idle.
LEMMA RunningProcess ==
  ASSUME TypeOK, NoTty
  PROVE  /\ activePCB \in PCB
         /\ UserProgram => me \in Proc /\ pc[me] = "user"
         /\ ContinuesAt("acquire") \/ ContinuesAt("cvarwait") => me \in Proc
  BY DEF TypeOK, SchedTypeOK, NoTty, UserProgram, UserMode, ContinuesAt, me, PCB

\* A lock that is in use was handed out.
LEMMA InUseGiven ==
  ASSUME TypeOK, Quiet, NEW l \in LockIds
  PROVE  /\ lock_status[l] \in Proc => l \in given
         /\ \A p \in Proc : pc[p] \in {"acquire", "cvarwait"} /\ call[p] = l => l \in given
  BY DEF Quiet

LEMMA StepKinds ==
  ASSUME SyncInv, [Next]_vars
  PROVE  Kinds
<1> USE DEF SyncInv
<1>0. /\ activePCB \in PCB
      /\ UserProgram => me \in Proc /\ pc[me] = "user"
      /\ ContinuesAt("acquire") \/ ContinuesAt("cvarwait") => me \in Proc
  BY RunningProcess
<1>t. /\ lock_status \in [LockIds -> {UNUSED_LOCK, FREE_LOCK} \cup Proc]
      /\ call \in [PCB -> LockIds]
      /\ cvarWaitQueues \in [CvarQueues -> Seq(Proc)]
      /\ MAX_LOCKS \in Nat /\ MAX_CVARS \in Nat /\ Proc \subseteq PCB
  BY SyncAssumption DEF TypeOK, CvarQueues, PCB
<1>a. ASSUME NEW l \in LockIds, l \in given, me \in Proc, pc[me] # "acquire"
      PROVE  /\ AcquireFree(l) => Takes(l)
             /\ AcquireBlock(l) => Blocks(l)
  <2>1. CASE AcquireFree(l)
    BY <1>a, <2>1 DEF AcquireFree, Takes, AcquireBlock
  <2>2. CASE AcquireBlock(l)
    <3>1. lock_status[l] \in {UNUSED_LOCK, FREE_LOCK} \cup Proc
      BY <1>t
    <3>2. lock_status[l] \in Proc
      BY <2>2, <3>1 DEF AcquireBlock, Refused
    <3>3. Blocks(l)
      BY <1>a, <2>2, <3>2 DEF Blocks
    <3>4. ~AcquireFree(l)
      BY <2>2 DEF AcquireBlock, AcquireFree
    <3> QED
      BY <3>3, <3>4
  <2> QED
    BY <2>1, <2>2
<1>1. CASE Lock
  <2>1. PICK l \in LockIds : MayUse(l) /\ (KernelAcquire(l) \/ KernelRelease(l))
    BY <1>1 DEF Lock
  <2>2. me \in Proc /\ pc[me] = "user"
    BY <1>0, <2>1 DEF KernelAcquire, KernelRelease, Calls
  <2>3. CASE KernelAcquire(l) /\ Refused(l) /\ Return
    BY <2>3 DEF Return, Kinds
  <2>4. CASE AcquireFree(l) \/ AcquireBlock(l)
    <3>1. l \in given
      BY <2>1, <2>4 DEF MayUse, AcquireFree, AcquireBlock, Refused
    <3> QED
      BY <1>a, <2>2, <2>4, <3>1 DEF Kinds
  <2>5. CASE KernelRelease(l)
    <3>1. CASE Return
      BY <3>1 DEF Return, Kinds
    <3>2. CASE MayRelease(l) /\ ~Return
      <4>1. lock_status[l] = me /\ l \in given
        BY <2>2, <3>2, InUseGiven DEF MayRelease
      <4>2. Releases(l)
        BY <2>2, <2>5, <3>2, <4>1 DEF KernelRelease, Releases, Frees
      <4> QED
        BY <4>2 DEF Kinds
    <3> QED
      BY <2>5, <3>1, <3>2 DEF KernelRelease
  <2> QED
    BY <2>1, <2>3, <2>4, <2>5 DEF KernelAcquire
<1>2. CASE ResumeAcquire
  <2>1. me \in Proc /\ pc[me] = "acquire" /\ call[me] \in LockIds
    BY <1>0, <1>2, <1>t DEF ResumeAcquire, ContinuesAt, me
  <2>2. call[me] \in given
    BY <2>1, InUseGiven
  <2>3. Takes(call[me])
    BY <1>2, <2>1, <2>2 DEF ResumeAcquire, Takes
  <2> QED
    BY <2>1, <2>3 DEF Kinds
<1>3. CASE ResumeCvarWait
  <2>1. me \in Proc /\ pc[me] = "cvarwait" /\ call[me] \in LockIds
    BY <1>0, <1>3, <1>t DEF ResumeCvarWait, ContinuesAt, me
  <2>2. call[me] \in given
    BY <2>1, InUseGiven
  <2>3. CASE AcquireFree(call[me]) \/ AcquireBlock(call[me])
    <3>1. Takes(call[me]) \/ Blocks(call[me])
      BY <1>a, <2>1, <2>2, <2>3
    <3> QED
      BY <2>1, <3>1 DEF Kinds
  <2>4. CASE ~(AcquireFree(call[me]) \/ AcquireBlock(call[me]))
    <3>1. Refuses
      BY <1>3, <2>1, <2>4 DEF ResumeCvarWait, Refuses
    <3> QED
      BY <3>1 DEF Kinds
  <2> QED
    BY <2>3, <2>4
<1>i. ASSUME NEW c \in CvarIds
      PROVE  /\ Index(c) < MAX_CVARS => Index(c) \in CvarQueues
             /\ Index(c) \in CvarQueues => Index(c) < MAX_CVARS
  BY <1>t DEF CvarIds, Index, CvarQueues
<1>n. ASSUME NEW c \in CvarIds, NEW w, NEW rest, Notify(c, w, rest),
             Index(c) \in CvarQueues => Splits(cvarWaitQueues[Index(c)], w, rest)
      PROVE  Kinds
  <2>1. CASE Return
    BY <2>1 DEF Return, Kinds
  <2>2. CASE Crash
    BY <2>2 DEF Kinds
  <2>3. CASE Index(c) < MAX_CVARS /\ WakeWaiters(c, w, rest)
    <3>1. Index(c) \in CvarQueues
      BY <1>i, <2>3
    <3>2. Wakes(Index(c), w, rest)
      BY <1>n, <2>3, <3>1 DEF WakeWaiters, Wakes
    <3> QED
      BY <3>1, <3>2 DEF Kinds
  <2> QED
    BY <1>n, <2>1, <2>2, <2>3 DEF Notify
<1>4. CASE Cvar
  <2>1. PICK c \in CvarIds :
            \/ KernelCvarSignal(c) \/ KernelCvarBroadcast(c)
            \/ \E l \in LockIds : MayUse(l) /\ KernelCvarWait(c, l)
    BY <1>4 DEF Cvar
  <2> DEFINE i == Index(c)
             q == IF i < MAX_CVARS THEN cvarWaitQueues[i] ELSE <<>>
  <2>2. i \in CvarQueues => /\ q = cvarWaitQueues[i] /\ q \in Seq(Proc) /\ NoDup(q)
    BY <1>i, <1>t DEF Places
  <2>3. CASE KernelCvarSignal(c)
    <3>1. Notify(c, PopSeq(q), AfterPop(q))
      BY <2>3 DEF KernelCvarSignal
    <3>2. i \in CvarQueues => Splits(cvarWaitQueues[i], PopSeq(q), AfterPop(q))
      <4> HIDE DEF q
      <4> QED
        BY <2>2, PopSplits
    <3> HIDE DEF q
    <3> QED
      BY <3>1, <3>2, <1>n
  <2>4. CASE KernelCvarBroadcast(c)
    <3>1. Notify(c, q, <<>>)
      BY <2>4 DEF KernelCvarBroadcast
    <3>0. Elems(<<>>) = {} /\ NoDup(<<>>) /\ <<>> \in Seq(Proc)
      BY DEF Elems, NoDup
    <3> HIDE DEF q
    <3>2. i \in CvarQueues => Splits(cvarWaitQueues[i], q, <<>>)
      BY <2>2, <3>0 DEF Splits
    <3> QED
      BY <3>1, <3>2, <1>n
  <2>5. CASE \E l \in LockIds : MayUse(l) /\ KernelCvarWait(c, l)
    <3>1. PICK l \in LockIds : MayUse(l) /\ KernelCvarWait(c, l)
      BY <2>5
    <3>2. me \in Proc /\ pc[me] = "user"
      BY <1>0, <3>1 DEF KernelCvarWait, Calls
    <3>3. CASE Return \/ Crash
      BY <3>3 DEF Return, Kinds
    <3>4. CASE ~Return /\ ~Crash
      <4>0. MayRelease(l) /\ i < MAX_CVARS
        BY <3>1, <3>4 DEF KernelCvarWait
      <4>1. lock_status[l] = me /\ l \in given /\ i \in CvarQueues
        BY <1>i, <3>2, <4>0, InUseGiven DEF MayRelease
      <4>2. Waits(i, l)
        BY <3>1, <3>2, <3>4, <4>1 DEF KernelCvarWait, Waits, Frees
      <4> QED
        BY <4>1, <4>2 DEF Kinds
    <3> QED
      BY <3>3, <3>4
  <2> QED
    BY <2>1, <2>3, <2>4, <2>5
<1>5. CASE Ids
  <2>1. ReclaimIds \subseteq Int
    BY SyncAssumption
  <2> QED
    BY <1>5, <2>1 DEF Ids, Kinds
<1>6. CASE Scheduling \/ UNCHANGED vars
  BY <1>6 DEF Kinds
<1> QED
  BY <1>1, <1>2, <1>3, <1>4, <1>5, <1>6 DEF Next

-----------------------------------------------------------------------------
(* The ids.                                                                *)

\* list_remove from the end.
LEMMA TakeLast ==
  ASSUME NEW q \in Seq(Int), q # <<>>
  PROVE  /\ Last(q) \in Elems(q) /\ Front(q) \in Seq(Int)
         /\ NoDup(q) => NoDup(Front(q)) /\ Elems(Front(q)) = Elems(q) \ {Last(q)}
<1> DEFINE n == Len(q)
           f == SubSeq(q, 1, n - 1)
<1>1. n \in Nat \ {0} /\ DOMAIN q = 1 .. n
  BY EmptySeq
<1>2. /\ f \in Seq(Int) /\ Len(f) = n - 1 /\ \A i \in 1 .. n - 1 : f[i] = q[i]
  BY <1>1, SubSeqProperties
<1>3. DOMAIN f = 1 .. n - 1
  BY <1>2
<1> HIDE DEF f, n
<1>4. \A i \in 1 .. n - 1 : i \in 1 .. n /\ i # n
  BY <1>1
<1>5. \A i \in 1 .. n : i \in 1 .. n - 1 \/ i = n
  BY <1>1
<1>6. n \in 1 .. n
  BY <1>1
<1>7. Last(q) = q[n] /\ Front(q) = f
  BY DEF Last, Front, f, n
<1>8. q[n] \in Elems(q)
  BY <1>1, <1>6 DEF Elems
<1>9. ASSUME NoDup(q)
      PROVE  NoDup(f) /\ Elems(f) = Elems(q) \ {q[n]}
  <2>1. NoDup(f)
    BY <1>1, <1>2, <1>3, <1>4, <1>9 DEF NoDup
  <2>2. Elems(f) \subseteq Elems(q) \ {q[n]}
    BY <1>1, <1>2, <1>3, <1>4, <1>6, <1>9 DEF NoDup, Elems
  <2>3. Elems(q) \ {q[n]} \subseteq Elems(f)
    BY <1>1, <1>2, <1>3, <1>5 DEF Elems
  <2> QED
    BY <2>1, <2>2, <2>3
<1> QED
  BY <1>2, <1>7, <1>8, <1>9

\* Ids of locks and of condition variables are different, and Reclaim tells
\* them apart.
LEMMA IdKinds ==
  /\ LockIds \cap CvarIds = {}
  /\ \A n \in LockIds : n \in Int /\ IsLockId(n) /\ n <= MAX_CVARS + MAX_LOCKS
  /\ \A n \in CvarIds : n \in Int /\ ~IsLockId(n) /\ n - MAX_LOCKS \in CvarIndex
  BY SyncAssumption DEF LockIds, CvarIds, IsLockId, CvarIndex

LEMMA IdsStep ==
  ASSUME TypeOK, IdsInv, Kinds
  PROVE  IdsInv' /\ lock_list' \in Seq(Int) /\ cvar_list' \in Seq(Int) /\ given' \subseteq Int
<1>0. /\ lock_list \in Seq(Int) /\ cvar_list \in Seq(Int) /\ given \subseteq Int
  BY DEF TypeOK
<1>1. CASE KernelLockInit
  <2> DEFINE l == Last(lock_list)
  <2>1. /\ lock_list # <<>> /\ lock_list' = Front(lock_list)
        /\ given' = given \cup {l} /\ cvar_list' = cvar_list
    BY <1>1 DEF KernelLockInit
  <2>2. /\ l \in Elems(lock_list) /\ Front(lock_list) \in Seq(Int)
        /\ NoDup(Front(lock_list)) /\ Elems(Front(lock_list)) = Elems(lock_list) \ {l}
    BY <1>0, <2>1, TakeLast DEF IdsInv, FreeIdsFree
  <2> HIDE DEF l
  <2>3. l \in LockIds /\ l \notin CvarIds /\ l \in Int
    BY <2>2, IdKinds DEF IdsInv, FreeIdsFree
  <2> QED
    BY <1>0, <2>1, <2>2, <2>3 DEF IdsInv, FreeIdsFree, LockIds, CvarIds
<1>2. CASE KernelCvarInit
  <2> DEFINE c == Last(cvar_list)
  <2>1. /\ cvar_list # <<>> /\ cvar_list' = Front(cvar_list)
        /\ given' = given \cup {c} /\ lock_list' = lock_list
    BY <1>2 DEF KernelCvarInit
  <2>2. /\ c \in Elems(cvar_list) /\ Front(cvar_list) \in Seq(Int)
        /\ NoDup(Front(cvar_list)) /\ Elems(Front(cvar_list)) = Elems(cvar_list) \ {c}
    BY <1>0, <2>1, TakeLast DEF IdsInv, FreeIdsFree
  <2> HIDE DEF c
  <2>3. c \in CvarIds /\ c \notin LockIds /\ c \in Int
    BY <2>2, IdKinds DEF IdsInv, FreeIdsFree
  <2> QED
    BY <1>0, <2>1, <2>2, <2>3 DEF IdsInv, FreeIdsFree, LockIds, CvarIds
<1>3. CASE \E n \in Int : MayReclaim(n) /\ KernelReclaim(n)
  <2>1. PICK n \in Int : MayReclaim(n) /\ KernelReclaim(n)
    BY <1>3
  <2>2. n \in given /\ (n \in LockIds \/ n \in CvarIds) /\ given' = given \ {n}
    BY <2>1 DEF MayReclaim, KernelReclaim, IdsInv
  <2>3. CASE n \in LockIds
    <3>1. lock_list' = Append(lock_list, n) /\ cvar_list' = cvar_list /\ n \notin CvarIds
      BY <2>1, <2>3, IdKinds DEF KernelReclaim
    <3>2. n \notin Elems(lock_list)
      BY <2>2 DEF IdsInv, FreeIdsFree
    <3>3. /\ Append(lock_list, n) \in Seq(Int)
          /\ Elems(Append(lock_list, n)) = Elems(lock_list) \cup {n}
          /\ NoDup(Append(lock_list, n))
      BY <1>0, <3>2, AppendQueue DEF IdsInv, FreeIdsFree
    <3> QED
      BY <1>0, <2>2, <2>3, <3>1, <3>3 DEF IdsInv, FreeIdsFree, LockIds, CvarIds
  <2>4. CASE n \in CvarIds
    <3>1. cvar_list' = Append(cvar_list, n) /\ lock_list' = lock_list /\ n \notin LockIds
      BY <2>1, <2>4, IdKinds DEF KernelReclaim
    <3>2. n \notin Elems(cvar_list)
      BY <2>2 DEF IdsInv, FreeIdsFree
    <3>3. /\ Append(cvar_list, n) \in Seq(Int)
          /\ Elems(Append(cvar_list, n)) = Elems(cvar_list) \cup {n}
          /\ NoDup(Append(cvar_list, n))
      BY <1>0, <3>2, AppendQueue DEF IdsInv, FreeIdsFree
    <3> QED
      BY <1>0, <2>2, <2>4, <3>1, <3>3 DEF IdsInv, FreeIdsFree, LockIds, CvarIds
  <2> QED
    BY <2>2, <2>3, <2>4
<1>4. CASE UNCHANGED idvars
  BY <1>0, <1>4 DEF idvars, IdsInv, FreeIdsFree, LockIds, CvarIds
<1> QED
  BY <1>1, <1>2, <1>3, <1>4 DEF Kinds, Scheduling, Crash, Refuses, vars, idvars, Takes, Take,
     Blocks, AcquireBlock, Releases, Frees, Waits, Wakes

-----------------------------------------------------------------------------
(* Types.                                                                  *)

LEMMA TypeStep ==
  ASSUME TypeOK, IdsInv, NoTty, Places, Kinds
  PROVE  TypeOK'
<1> DEFINE C == {"acquire", "cvarwait"}
           Codes == {UNUSED_LOCK, FREE_LOCK} \cup Proc
           Rest == /\ lock_status \in [LockIds -> Codes]
                   /\ cvar_status \in [CvarIndex -> {UNUSED_CVAR, USED_CVAR}]
                   /\ lockAquireQueues \in [LockIds -> Seq(Proc)]
                   /\ cvarWaitQueues \in [CvarQueues -> Seq(Proc)]
                   /\ call \in [PCB -> LockIds]
                   /\ crashed \in BOOLEAN
<1>0. Rest /\ SchedTypeOK(C) /\ lock_list \in Seq(Int) /\ cvar_list \in Seq(Int)
  BY DEF TypeOK, CvarQueues
<1>t. activePCB \in PCB /\ ready_q \in Seq(Proc) /\ blocked_q \in Seq(Proc) /\ Proc \subseteq PCB
  BY <1>0 DEF SchedTypeOK, PCB
<1> SUFFICES SchedTypeOK(C)' /\ Rest'
  BY IdsStep DEF TypeOK, CvarQueues, LockIds, CvarIndex, Proc, PCB
<1>s. ASSUME UNCHANGED sched
      PROVE  SchedTypeOK(C)'
  BY <1>0, <1>s DEF sched, SchedTypeOK
<1>1. CASE Scheduling
  <2>1. SchedStep({}) /\ Rest'
    BY <1>0, <1>1 DEF Scheduling, SchedStep
  <2> QED
    BY <1>0, <2>1, SchedStepType
<1>2. CASE KernelLockInit
  <2>1. Last(lock_list) \in LockIds
    BY <1>0, <1>2, TakeLast DEF KernelLockInit, IdsInv, FreeIdsFree
  <2>2. Rest'
    BY <1>0, <1>2, <2>1 DEF KernelLockInit
  <2> QED
    BY <1>2, <1>s, <2>2 DEF KernelLockInit
<1>3. CASE KernelCvarInit
  <2>1. Last(cvar_list) \in CvarIds
    BY <1>0, <1>3, TakeLast DEF KernelCvarInit, IdsInv, FreeIdsFree
  <2>2. Last(cvar_list) - MAX_LOCKS \in CvarIndex
    BY <2>1, IdKinds
  <2>3. Rest'
    BY <1>0, <1>3, <2>2 DEF KernelCvarInit
  <2> QED
    BY <1>3, <1>s, <2>3 DEF KernelCvarInit
<1>4. CASE Crash \/ UNCHANGED vars
  <2>1. Rest' /\ UNCHANGED sched
    BY <1>0, <1>4 DEF Crash, vars
  <2> QED
    BY <1>s, <2>1
<1>5. CASE Refuses
  <2>1. Rest'
    BY <1>0, <1>5 DEF Refuses
  <2>2. SchedTypeOK(C)'
    BY <1>0, <1>5 DEF Refuses, ToUser, SchedTypeOK
  <2> QED
    BY <2>1, <2>2
<1>6. CASE \E n \in Int : MayReclaim(n) /\ KernelReclaim(n)
  <2>1. Rest' /\ UNCHANGED sched
    BY <1>0, <1>6 DEF KernelReclaim
  <2> QED
    BY <1>s, <2>1
<1>q. ASSUME NEW l \in LockIds
      PROVE  /\ HandOver(l).waiting \in Seq(Proc)
             /\ ready_q \o HandOver(l).woken \in Seq(Proc)
  <2>1. lockAquireQueues[l] \in Seq(Proc) /\ NoDup(lockAquireQueues[l])
    BY <1>0 DEF Places
  <2>2. Splits(lockAquireQueues[l], PopSeq(lockAquireQueues[l]), AfterPop(lockAquireQueues[l]))
    BY <2>1, PopSplits
  <2>3. HandOver(l).woken \in Seq(Proc) /\ HandOver(l).waiting \in Seq(Proc)
    BY <2>2 DEF Splits, HandOver
  <2> QED
    BY <1>t, <2>3, ConcatQueue
<1>p. ASSUME NEW r \in Seq(Proc)
      PROVE  PopOr(r, idle) \in PCB /\ AfterPop(r) \in Seq(Proc)
  BY PopNext
<1>7. ASSUME NEW l \in LockIds, Takes(l)
      PROVE  SchedTypeOK(C)' /\ Rest'
  <2>1. Rest'
    BY <1>0, <1>7 DEF Takes, Take
  <2>2. blocked_code' \in [PCB -> BlockedCodes]
    BY <1>0, <1>7 DEF Takes, SchedTypeOK, BlockedCodes
  <2>3. pc' \in [PCB -> {"user", "start", "clock", "delay"} \cup C]
    BY <1>0, <1>7 DEF Takes, Take, SchedTypeOK, ToUser
  <2> QED
    BY <1>0, <1>7, <2>1, <2>2, <2>3 DEF Takes, Take, SchedTypeOK
<1>8. ASSUME NEW l \in LockIds, Blocks(l)
      PROVE  SchedTypeOK(C)' /\ Rest'
  <2>0. lockAquireQueues[l] \in Seq(Proc)
    BY <1>0
  <2>1. Joined(lockAquireQueues[l]) \in Seq(Proc)
    BY <1>t, <2>0, JoinQueue
  <2>2. Rest'
    <3>1. lockAquireQueues' \in [LockIds -> Seq(Proc)]
      BY <1>0, <1>8, <2>1 DEF Blocks, AcquireBlock
    <3>2. call' \in [PCB -> LockIds]
      BY <1>0, <1>8 DEF Blocks, AcquireBlock
    <3>3. UNCHANGED <<lock_status, cvar_status, cvarWaitQueues, crashed>>
      BY <1>8 DEF Blocks, AcquireBlock
    <3> QED
      BY <1>0, <3>1, <3>2, <3>3
  <2>3. blocked_code' \in [PCB -> BlockedCodes]
    <3>1. BLOCKED_LOCK_ACQUIRE \in BlockedCodes
      BY DEF BLOCKED_LOCK_ACQUIRE, BlockedCodes
    <3> QED
      BY <1>0, <1>8, <3>1 DEF Blocks, AcquireBlock, SchedTypeOK
  <2>4. activePCB' \in PCB /\ ready_q' \in Seq(Proc)
    BY <1>8, <1>p, <1>t DEF Blocks, AcquireBlock, SwapProcess
  <2>5. pc' \in [PCB -> {"user", "start", "clock", "delay"} \cup C]
    BY <1>0, <1>8 DEF Blocks, AcquireBlock, SwapProcess, SchedTypeOK
  <2> QED
    BY <1>0, <1>8, <2>2, <2>3, <2>4, <2>5 DEF Blocks, AcquireBlock, SchedTypeOK
<1>9. ASSUME NEW l \in LockIds, Releases(l)
      PROVE  SchedTypeOK(C)' /\ Rest'
  <2>1. Rest'
    BY <1>0, <1>9, <1>q DEF Releases, Frees
  <2> QED
    BY <1>0, <1>9, <1>q, <2>1 DEF Releases, Frees, SchedTypeOK
<1>10. ASSUME NEW c \in CvarQueues, NEW l \in LockIds, Waits(c, l)
       PROVE  SchedTypeOK(C)' /\ Rest'
  <2>0. cvarWaitQueues[c] \in Seq(Proc)
    BY <1>0
  <2>1. Joined(cvarWaitQueues[c]) \in Seq(Proc)
    BY <1>t, <2>0, JoinQueue
  <2>2. Rest'
    BY <1>0, <1>10, <1>q, <1>t, <2>1 DEF Waits, Frees, me
  <2>3. activePCB' \in PCB /\ ready_q' \in Seq(Proc)
    BY <1>10, <1>p, <1>q DEF Waits, SwapProcess
  <2>4. pc' \in [PCB -> {"user", "start", "clock", "delay"} \cup C]
    BY <1>0, <1>10 DEF Waits, SwapProcess, SchedTypeOK
  <2> QED
    BY <1>0, <1>10, <2>2, <2>3, <2>4 DEF Waits, Frees, SchedTypeOK
<1>11. ASSUME NEW c \in CvarQueues, NEW w, NEW rest, Wakes(c, w, rest)
       PROVE  SchedTypeOK(C)' /\ Rest'
  <2>1. w \in Seq(Proc) /\ rest \in Seq(Proc)
    BY <1>11 DEF Wakes, Splits
  <2>2. Rest'
    BY <1>0, <1>11, <2>1 DEF Wakes
  <2>3. ready_q' \in Seq(Proc)
    BY <1>11, <1>t, <2>1, ConcatQueue DEF Wakes
  <2> QED
    BY <1>0, <1>11, <2>2, <2>3 DEF Wakes, SchedTypeOK
<1> HIDE DEF Rest, C
<1> QED
  BY <1>1, <1>2, <1>3, <1>4, <1>5, <1>6, <1>7, <1>8, <1>9, <1>10, <1>11 DEF Kinds

-----------------------------------------------------------------------------
(* Where the processes are.                                                *)

LEMMA NoTtyStep ==
  ASSUME TypeOK, NoTty, Places, Kinds
  PROVE  NoTty'
<1>0. /\ SchedTypeOK({"acquire", "cvarwait"}) /\ SchedOnce
      /\ blocked_code \in [PCB -> BlockedCodes] /\ activePCB \in PCB /\ idle \in PCB
      /\ pc \in [PCB -> {"user", "start", "clock", "delay"} \cup {"acquire", "cvarwait"}]
  BY DEF TypeOK, SchedTypeOK, Places, PCB
<1>c. /\ NOT_BLOCKED # BLOCKED_TTY_TRANSMIT /\ BLOCKED_DELAY # BLOCKED_TTY_TRANSMIT
      /\ BLOCKED_LOCK_ACQUIRE # BLOCKED_TTY_TRANSMIT
  BY DEF NOT_BLOCKED, BLOCKED_DELAY, BLOCKED_TTY_TRANSMIT, BLOCKED_LOCK_ACQUIRE
<1>i. idle \notin Proc
  BY NProcAssumption DEF idle, Proc
<1>1. CASE Scheduling
  <2>1. SchedStep({})
    BY <1>1 DEF Scheduling, SchedStep
  <2>2. /\ \A p \in PCB : p # activePCB => pc'[p] = pc[p]
        /\ activePCB = idle => pc'[idle] \in {"user", "clock", "start"}
    BY <1>0, <2>1, SchedStepContext
  <2>3. \A p \in PCB : blocked_code'[p] \in {blocked_code[p], NOT_BLOCKED, BLOCKED_DELAY}
    BY <1>0, <2>1, SchedStepMembers DEF NoTty
  <2> QED
    BY <1>0, <1>c, <2>2, <2>3 DEF NoTty
<1>2. CASE UNCHANGED <<blocked_code, pc>>
  BY <1>2 DEF NoTty
<1>3. CASE /\ me \in Proc
           /\ \/ blocked_code' = blocked_code
              \/ \E x \in {NOT_BLOCKED, BLOCKED_LOCK_ACQUIRE} :
                   blocked_code' = [blocked_code EXCEPT ![me] = x]
           /\ \E x : pc' = [pc EXCEPT ![me] = x]
  <2>1. \A p \in PCB : blocked_code'[p] # BLOCKED_TTY_TRANSMIT
    BY <1>0, <1>3, <1>c DEF NoTty
  <2>2. pc'[idle] = pc[idle]
    BY <1>0, <1>3, <1>i
  <2> QED
    BY <2>1, <2>2 DEF NoTty
<1> QED
  BY <1>1, <1>2, <1>3 DEF Kinds, KernelLockInit, KernelCvarInit, KernelReclaim, Crash, Refuses,
     vars, sched, ToUser, Takes, Take, Blocks, AcquireBlock, Releases, Frees, Waits, Wakes,
     SwapProcess, me

\* The process that runs is in no queue, and others are where they were.
LEMMA RunningPlaced ==
  ASSUME Places, me \in Proc
  PROVE  me \in Members /\ LockPlaces(me) = {} /\ CvarPlaces(me) = {}
<1>1. me \in Members
  BY NProcAssumption DEF Members, me, Proc, idle
<1> QED
  BY <1>1 DEF Places, Placed

\* The processes that are woken were in one queue only.
LEMMA LockWaiters ==
  ASSUME Places, NEW l \in LockIds, NEW p \in Proc, p \in Elems(lockAquireQueues[l])
  PROVE  p \notin Members /\ LockPlaces(p) = {l} /\ CvarPlaces(p) = {}
<1>1. l \in LockPlaces(p)
  BY DEF LockPlaces
<1> QED
  BY <1>1 DEF Places, Placed

LEMMA CvarWaiters ==
  ASSUME Places, NEW c \in CvarQueues, NEW p \in Proc, p \in Elems(cvarWaitQueues[c])
  PROVE  p \notin Members /\ LockPlaces(p) = {} /\ CvarPlaces(p) = {c}
<1>1. c \in CvarPlaces(p)
  BY DEF CvarPlaces
<1> QED
  BY <1>1 DEF Places, Placed

\* The queue of a lock that is given up, and what becomes of it.
LEMMA HandOverSplits ==
  ASSUME TypeOK, Places, NEW l \in LockIds
  PROVE  Splits(lockAquireQueues[l], HandOver(l).woken, HandOver(l).waiting)
<1>1. lockAquireQueues[l] \in Seq(Proc) /\ NoDup(lockAquireQueues[l])
  BY DEF TypeOK, Places
<1> QED
  BY <1>1, PopSplits DEF HandOver

LEMMA PlacesStep ==
  ASSUME TypeOK, NoTty, Places, Kinds
  PROVE  Places'
<1>0. /\ SchedTypeOK({"acquire", "cvarwait"}) /\ SchedOnce
      /\ activePCB \in PCB /\ ready_q \in Seq(Proc) /\ blocked_q \in Seq(Proc)
      /\ lockAquireQueues \in [LockIds -> Seq(Proc)]
      /\ cvarWaitQueues \in [CvarQueues -> Seq(Proc)]
  BY DEF TypeOK, SchedTypeOK, Places, CvarQueues
<1>d. /\ \A l \in LockIds : NoDup(lockAquireQueues[l])
      /\ \A c \in CvarQueues : NoDup(cvarWaitQueues[c])
      /\ \A p \in Proc : Placed(p)
  BY DEF Places
<1>s. ASSUME SchedOnce', Members' = Members, UNCHANGED <<lockAquireQueues, cvarWaitQueues>>
      PROVE  Places'
  <2>1. \A p : LockPlaces(p)' = LockPlaces(p) /\ CvarPlaces(p)' = CvarPlaces(p)
    BY <1>s DEF LockPlaces, CvarPlaces
  <2>2. \A p \in Proc : Placed(p)'
    BY <1>d, <1>s, <2>1 DEF Placed
  <2> QED
    BY <1>d, <1>s, <2>2 DEF Places
<1>1. CASE Scheduling
  <2>1. SchedStep({}) /\ UNCHANGED <<lockAquireQueues, cvarWaitQueues>>
    BY <1>1 DEF Scheduling, SchedStep
  <2>2. SchedOnce' /\ Members' = Members
    BY <1>0, <2>1, SchedStepMembers DEF NoTty
  <2> QED
    BY <1>s, <2>1, <2>2
<1>2. CASE UNCHANGED <<activePCB, ready_q, blocked_q, lockAquireQueues, cvarWaitQueues>>
  <2>1. SchedOnce' /\ Members' = Members
    BY <1>0, <1>2 DEF SchedOnce, Members
  <2> QED
    BY <1>2, <1>s, <2>1
<1>3. ASSUME NEW l \in LockIds, Blocks(l)
      PROVE  Places'
  <2> DEFINE q == lockAquireQueues[l]
  <2>1. /\ me \in Proc /\ me = activePCB /\ cvarWaitQueues' = cvarWaitQueues
        /\ activePCB' = PopOr(ready_q, idle) /\ ready_q' = AfterPop(ready_q)
        /\ blocked_q' = blocked_q
        /\ lockAquireQueues' = [lockAquireQueues EXCEPT ![l] = Joined(q)]
    BY <1>3 DEF Blocks, AcquireBlock, SwapProcess, me
  <2>2. /\ SchedOnce' /\ Members' = Elems(ready_q) \cup Elems(blocked_q)
    BY <1>0, <2>1, SwapOut DEF SchedOnce
  <2>3. me \in Members /\ LockPlaces(me) = {} /\ CvarPlaces(me) = {} /\ idle \notin Proc
    BY <2>1, RunningPlaced, NProcAssumption DEF idle, Proc
  <2>4. q \in Seq(Proc) /\ NoDup(q) /\ me \notin Elems(q)
    BY <1>0, <1>d, <2>3 DEF LockPlaces
  <2> HIDE DEF q
  <2>5. /\ Elems(Joined(q)) = Elems(q) \cup {me} /\ NoDup(Joined(q))
    BY <1>0, <2>1, <2>3, <2>4, JoinQueue
  <2>6. /\ \A k \in LockIds : lockAquireQueues'[k] = IF k = l THEN Joined(q) ELSE lockAquireQueues[k]
        /\ q = lockAquireQueues[l]
    BY <1>0, <2>1 DEF q
  <2>7. \A k \in LockIds : NoDup(lockAquireQueues'[k])
    BY <1>d, <2>5, <2>6
  <2>8. \A p \in Proc : p # me => LockPlaces(p)' = LockPlaces(p)
    BY <2>5, <2>6 DEF LockPlaces
  <2>10. \A p \in Proc : p = me => {k \in LockIds : p \in Elems(lockAquireQueues'[k])} = {l}
    BY <2>3, <2>5, <2>6 DEF LockPlaces
  <2>11. \A p \in Proc : CvarPlaces(p)' = CvarPlaces(p)
    BY <2>1 DEF CvarPlaces
  <2>12. Members' = Members \ {me}
    BY <1>0, <2>1, <2>2, <2>3, QueueHolds DEF Members, SchedOnce
  <2>13. \A p \in Proc : Placed(p)'
    <3> TAKE p \in Proc
    <3>1. CASE p = me
      <4>1. LockPlaces(p)' = {l} /\ CvarPlaces(p)' = {} /\ p \notin Members'
        BY <2>3, <2>10, <2>11, <2>12, <3>1 DEF LockPlaces
      <4> QED
        BY <4>1 DEF Placed
    <3>2. CASE p # me
      BY <1>d, <2>8, <2>11, <2>12, <3>2 DEF Placed
    <3> QED
      BY <3>1, <3>2
  <2> QED
    BY <1>d, <2>1, <2>2, <2>7, <2>13 DEF Places
<1>f. ASSUME NEW l \in LockIds, Frees(l)
      PROVE  LET w == HandOver(l).woken
             IN  /\ w \in Seq(Proc) /\ NoDup(w) /\ Elems(w) \cap Members = {}
                 /\ \A k \in LockIds : NoDup(lockAquireQueues'[k])
                 /\ \A p \in Proc : LockPlaces(p)' = IF p \in Elems(w) THEN {} ELSE LockPlaces(p)
                 /\ \A p \in Proc : p \in Elems(w) => p \notin Members /\ CvarPlaces(p) = {}
  <2> DEFINE w == HandOver(l).woken
             r == HandOver(l).waiting
             q == lockAquireQueues[l]
  <2>1. Splits(q, w, r)
    BY HandOverSplits
  <2>2. \A k \in LockIds : lockAquireQueues'[k] = IF k = l THEN r ELSE lockAquireQueues[k]
    BY <1>0, <1>f DEF Frees
  <2> HIDE DEF w, r
  <2>3. \A p \in Elems(w) : p \in Proc /\ p \in Elems(q) /\ p \notin Elems(r)
    <3>1. Elems(w) \subseteq Proc
      BY <2>1, QueueHolds DEF Splits
    <3> QED
      BY <2>1, <3>1 DEF Splits
  <2>4. \A p \in Elems(w) : p \notin Members /\ LockPlaces(p) = {l} /\ CvarPlaces(p) = {}
    BY <2>3, LockWaiters
  <2>5. ASSUME NEW p \in Proc
        PROVE  LockPlaces(p)' = IF p \in Elems(w) THEN {} ELSE LockPlaces(p)
    <3>1. CASE p \in Elems(w)
      BY <2>2, <2>3, <2>4, <3>1 DEF LockPlaces
    <3>2. CASE p \notin Elems(w)
      <4>1. p \in Elems(r) <=> p \in Elems(q)
        BY <2>1, <3>2 DEF Splits
      <4> QED
        BY <2>2, <3>2, <4>1 DEF LockPlaces
    <3> QED
      BY <3>1, <3>2
  <2>6. \A k \in LockIds : NoDup(lockAquireQueues'[k])
    BY <1>d, <2>1, <2>2 DEF Splits
  <2>7. Elems(w) \cap Members = {} /\ w \in Seq(Proc) /\ NoDup(w)
    BY <2>1, <2>4 DEF Splits
  <2> QED
    BY <2>4, <2>5, <2>6, <2>7 DEF w
<1>4. ASSUME NEW l \in LockIds, Releases(l)
      PROVE  Places'
  <2> DEFINE w == HandOver(l).woken
  <2>1. /\ w \in Seq(Proc) /\ NoDup(w) /\ Elems(w) \cap Members = {}
        /\ \A k \in LockIds : NoDup(lockAquireQueues'[k])
        /\ \A p \in Proc : LockPlaces(p)' = IF p \in Elems(w) THEN {} ELSE LockPlaces(p)
        /\ \A p \in Proc : p \in Elems(w) => p \notin Members /\ CvarPlaces(p) = {}
    BY <1>4, <1>f DEF Releases
  <2>2. /\ ready_q' = ready_q \o w /\ activePCB' = activePCB /\ blocked_q' = blocked_q
        /\ cvarWaitQueues' = cvarWaitQueues
    BY <1>4 DEF Releases, Frees
  <2> HIDE DEF w
  <2>3. SchedOnce' /\ Members' = Members \cup Elems(w)
    BY <1>0, <2>1, <2>2, MadeReady
  <2>4. \A p \in Proc : CvarPlaces(p)' = CvarPlaces(p)
    BY <2>2 DEF CvarPlaces
  <2>5. \A p \in Proc : Placed(p)'
    BY <1>d, <2>1, <2>3, <2>4 DEF Placed
  <2> QED
    BY <1>d, <2>1, <2>2, <2>3, <2>5 DEF Places
<1>5. ASSUME NEW c \in CvarQueues, NEW w, NEW rest, Wakes(c, w, rest)
      PROVE  Places'
  <2> DEFINE q == cvarWaitQueues[c]
  <2>1. Splits(q, w, rest) /\ q \in Seq(Proc)
    BY <1>0, <1>5 DEF Wakes
  <2>2. /\ \A k \in CvarQueues : cvarWaitQueues'[k] = IF k = c THEN rest ELSE cvarWaitQueues[k]
        /\ ready_q' = ready_q \o w
        /\ activePCB' = activePCB /\ blocked_q' = blocked_q
        /\ lockAquireQueues' = lockAquireQueues
    BY <1>0, <1>5 DEF Wakes
  <2>3. \A p \in Elems(w) : p \in Proc /\ p \in Elems(q) /\ p \notin Elems(rest)
    BY <2>1, QueueHolds DEF Splits
  <2>4. \A p \in Elems(w) : p \notin Members /\ LockPlaces(p) = {} /\ CvarPlaces(p) = {c}
    BY <2>3, CvarWaiters
  <2>5. ASSUME NEW p \in Proc
        PROVE  CvarPlaces(p)' = IF p \in Elems(w) THEN {} ELSE CvarPlaces(p)
    <3>1. CASE p \in Elems(w)
      BY <2>2, <2>3, <2>4, <3>1 DEF CvarPlaces
    <3>2. CASE p \notin Elems(w)
      <4>1. p \in Elems(rest) <=> p \in Elems(q)
        BY <2>1, <3>2 DEF Splits
      <4> QED
        BY <2>2, <3>2, <4>1 DEF CvarPlaces
    <3> QED
      BY <3>1, <3>2
  <2>6. \A k \in CvarQueues : NoDup(cvarWaitQueues'[k])
    BY <1>d, <2>1, <2>2 DEF Splits
  <2>7. Elems(w) \cap Members = {} /\ w \in Seq(Proc) /\ NoDup(w)
    BY <2>1, <2>4 DEF Splits
  <2>8. SchedOnce' /\ Members' = Members \cup Elems(w)
    BY <1>0, <2>2, <2>7, MadeReady
  <2>9. \A p \in Proc : LockPlaces(p)' = LockPlaces(p)
    BY <2>2 DEF LockPlaces
  <2>10. \A p \in Proc : Placed(p)'
    BY <1>d, <2>4, <2>5, <2>8, <2>9 DEF Placed
  <2> QED
    BY <1>d, <2>2, <2>6, <2>8, <2>10 DEF Places
<1>6. ASSUME NEW c \in CvarQueues, NEW l \in LockIds, Waits(c, l)
      PROVE  Places'
  <2> DEFINE w == HandOver(l).woken
             q == cvarWaitQueues[c]
  <2>1. /\ w \in Seq(Proc) /\ NoDup(w) /\ Elems(w) \cap Members = {}
        /\ \A k \in LockIds : NoDup(lockAquireQueues'[k])
        /\ \A p \in Proc : LockPlaces(p)' = IF p \in Elems(w) THEN {} ELSE LockPlaces(p)
        /\ \A p \in Proc : p \in Elems(w) => p \notin Members /\ CvarPlaces(p) = {}
    BY <1>6, <1>f DEF Waits
  <2>2. /\ activePCB' = PopOr(ready_q \o w, idle) /\ ready_q' = AfterPop(ready_q \o w)
        /\ blocked_q' = blocked_q
        /\ cvarWaitQueues' = [cvarWaitQueues EXCEPT ![c] = Joined(q)]
        /\ me \in Proc /\ me = activePCB
    BY <1>6 DEF Waits, Frees, SwapProcess, me
  <2> HIDE DEF w
  <2>3. /\ me \in Members /\ LockPlaces(me) = {} /\ CvarPlaces(me) = {} /\ idle \notin Proc
        /\ Elems(w) \subseteq Proc /\ Elems(ready_q) \subseteq Proc /\ Elems(blocked_q) \subseteq Proc
    BY <1>0, <2>1, <2>2, RunningPlaced, QueueHolds
  <2>4. Elems(w) \cap Elems(ready_q) = {} /\ Elems(w) \cap Elems(blocked_q) = {}
    BY <2>1, <2>3 DEF Members
  <2>5. /\ ready_q \o w \in Seq(Proc) /\ Elems(ready_q \o w) = Elems(ready_q) \cup Elems(w)
        /\ NoDup(ready_q \o w)
    BY <1>0, <2>1, <2>4, ConcatQueue DEF SchedOnce
  <2>6. SchedOnce' /\ Members' = Elems(ready_q \o w) \cup Elems(blocked_q)
    <3>1. Elems(ready_q \o w) \cap Elems(blocked_q) = {}
      BY <1>0, <2>4, <2>5 DEF SchedOnce
    <3> QED
      BY <1>0, <2>2, <2>5, <3>1, SwapOut DEF SchedOnce
  <2>7. Members' = (Members \cup Elems(w)) \ {me}
    BY <1>0, <2>1, <2>2, <2>3, <2>5, <2>6 DEF Members, SchedOnce
  <2>8. q \in Seq(Proc) /\ NoDup(q) /\ me \notin Elems(q)
    BY <1>0, <1>d, <2>3 DEF CvarPlaces
  <2> HIDE DEF q
  <2>9. Elems(Joined(q)) = Elems(q) \cup {me} /\ NoDup(Joined(q))
    BY <1>0, <2>2, <2>3, <2>8, JoinQueue
  <2>10. /\ \A k \in CvarQueues : cvarWaitQueues'[k] = IF k = c THEN Joined(q) ELSE cvarWaitQueues[k]
         /\ q = cvarWaitQueues[c]
    BY <1>0, <2>2 DEF q
  <2>11. \A k \in CvarQueues : NoDup(cvarWaitQueues'[k])
    BY <1>d, <2>9, <2>10
  <2>12. \A p \in Proc : p # me => CvarPlaces(p)' = CvarPlaces(p)
    BY <2>9, <2>10 DEF CvarPlaces
  <2>13. \A p \in Proc : p = me => {k \in CvarQueues : p \in Elems(cvarWaitQueues'[k])} = {c}
    BY <2>3, <2>9, <2>10 DEF CvarPlaces
  <2>14. \A p \in Proc : Placed(p)'
    <3> TAKE p \in Proc
    <3>1. CASE p = me
      <4>1. LockPlaces(p)' = {} /\ CvarPlaces(p)' = {c} /\ p \notin Members'
        BY <2>1, <2>3, <2>7, <2>13, <3>1 DEF CvarPlaces
      <4> QED
        BY <4>1 DEF Placed
    <3>2. CASE p # me
      BY <1>d, <2>1, <2>7, <2>12, <3>2 DEF Placed
    <3> QED
      BY <3>1, <3>2
  <2> QED
    BY <2>1, <2>6, <2>11, <2>14 DEF Places
<1> QED
  BY <1>1, <1>2, <1>3, <1>4, <1>5, <1>6 DEF Kinds, KernelLockInit, KernelCvarInit, KernelReclaim,
     Crash, Refuses, vars, sched, Takes, Take

-----------------------------------------------------------------------------
(* Locks that are not handed out.                                          *)

\* What a step does for processes other than the running one: they stay where
\* they are in their code, and a ready process stays ready until it runs.
Others ==
  /\ \A p \in PCB : p # me => pc'[p] = pc[p] /\ call'[p] = call[p]
  /\ Elems(ready_q) \subseteq Elems(ready_q') \cup {activePCB'}

LEMMA OthersStep ==
  ASSUME TypeOK, NoTty, Places, Kinds
  PROVE  Others
<1>0. /\ SchedTypeOK({"acquire", "cvarwait"}) /\ SchedOnce
      /\ activePCB \in PCB /\ ready_q \in Seq(Proc) /\ blocked_q \in Seq(Proc)
      /\ call \in [PCB -> LockIds]
      /\ pc \in [PCB -> {"user", "start", "clock", "delay"} \cup {"acquire", "cvarwait"}]
  BY DEF TypeOK, SchedTypeOK, Places
<1>1. CASE Scheduling
  <2>1. SchedStep({}) /\ call' = call
    BY <1>1 DEF Scheduling, SchedStep
  <2>2. \A p \in PCB : p # activePCB => pc'[p] = pc[p]
    BY <1>0, <2>1, SchedStepContext
  <2>3. Elems(ready_q) \subseteq Elems(ready_q') \cup {activePCB'}
    BY <1>0, <2>1, SchedStepMembers DEF NoTty
  <2> QED
    BY <2>1, <2>2, <2>3 DEF Others, me
<1>2. CASE UNCHANGED <<ready_q, call>> /\ (pc' = pc \/ ToUser)
  BY <1>0, <1>2 DEF Others, ToUser, me
<1>r. ASSUME NEW w \in Seq(Proc)
      PROVE  /\ ready_q \o w \in Seq(Proc)
             /\ Elems(ready_q) \subseteq Elems(ready_q \o w)
             /\ Elems(ready_q \o w) \subseteq Elems(AfterPop(ready_q \o w)) \cup {PopOr(ready_q \o w, idle)}
  <2>1. ready_q \o w \in Seq(Proc) /\ Elems(ready_q) \subseteq Elems(ready_q \o w)
    BY <1>0, ConcatQueue
  <2>2. Elems(ready_q \o w) = (Elems(AfterPop(ready_q \o w)) \cup {PopOr(ready_q \o w, idle)}) \ {idle}
    BY <2>1, PopNext
  <2> QED
    BY <2>1, <2>2
<1>3. ASSUME NEW l \in LockIds, Blocks(l)
      PROVE  Others
  <2>1. Elems(ready_q) = (Elems(AfterPop(ready_q)) \cup {PopOr(ready_q, idle)}) \ {idle}
    BY <1>0, PopNext
  <2>2. \A p \in PCB : p # me => pc'[p] = pc[p] /\ call'[p] = call[p]
    BY <1>0, <1>3 DEF Blocks, AcquireBlock, SwapProcess, me
  <2> QED
    BY <1>3, <2>1, <2>2 DEF Blocks, AcquireBlock, SwapProcess, Others
<1>4. ASSUME NEW l \in LockIds, Releases(l)
      PROVE  Others
  <2>1. HandOver(l).woken \in Seq(Proc)
    BY HandOverSplits DEF Splits
  <2> QED
    BY <1>4, <1>r, <2>1 DEF Releases, Others
<1>5. ASSUME NEW c \in CvarQueues, NEW l \in LockIds, Waits(c, l)
      PROVE  Others
  <2>1. HandOver(l).woken \in Seq(Proc)
    BY HandOverSplits DEF Splits
  <2>2. \A p \in PCB : p # me => pc'[p] = pc[p] /\ call'[p] = call[p]
    BY <1>0, <1>5 DEF Waits, SwapProcess, me
  <2> QED
    BY <1>5, <1>r, <2>1, <2>2 DEF Waits, SwapProcess, Others
<1>6. ASSUME NEW c \in CvarQueues, NEW w, NEW rest, Wakes(c, w, rest)
      PROVE  Others
  BY <1>6, <1>r DEF Wakes, Splits, Others
<1> QED
  BY <1>1, <1>2, <1>3, <1>4, <1>5, <1>6 DEF Kinds, KernelLockInit, KernelCvarInit, KernelReclaim,
     Crash, Refuses, vars, sched, Takes, Take

LEMMA QuietStep ==
  ASSUME TypeOK, IdsInv, NoTty, Places, Quiet, Kinds
  PROVE  Quiet'
<1>0. /\ activePCB \in PCB
      /\ call \in [PCB -> LockIds] /\ Proc \subseteq PCB
      /\ lock_status \in [LockIds -> {UNUSED_LOCK, FREE_LOCK} \cup Proc]
      /\ pc \in [PCB -> {"user", "start", "clock", "delay"} \cup {"acquire", "cvarwait"}]
  BY DEF TypeOK, SchedTypeOK, PCB
<1>o. Others
  BY OthersStep
<1>f. FREE_LOCK \notin Proc
  BY SyncAssumption
<1> DEFINE Calling(p) == pc[p] \in {"acquire", "cvarwait"}
           InCall(l) == \A p \in Proc : Calling(p) => call[p] # l
<1>2. CASE Scheduling
  <2>1. SchedStep({}) /\ UNCHANGED <<call, given, lock_status>>
    BY <1>2 DEF Scheduling, SchedStep, idvars
  <2>2. pc'[activePCB] \in {"user", "start", "clock", "delay"}
    BY <2>1, SchedStepContext DEF TypeOK
  <2>3. ~(pc'[me] \in {"acquire", "cvarwait"})
    BY <2>2 DEF me
  <2>4. \A l \in LockIds \ given : InCall(l)'
    BY <1>0, <1>o, <2>1, <2>3 DEF Quiet, Others
  <2> QED
    BY <2>1, <2>4 DEF Quiet
<1>3. CASE KernelLockInit
  <2>1. /\ given' = given \cup {Last(lock_list)} /\ UNCHANGED <<pc, call>>
        /\ lock_status' = [lock_status EXCEPT ![Last(lock_list)] = FREE_LOCK]
    BY <1>3 DEF KernelLockInit, sched
  <2> QED
    BY <1>0, <2>1 DEF Quiet
<1>4. CASE KernelCvarInit
  <2>1. /\ given' = given \cup {Last(cvar_list)} /\ UNCHANGED <<pc, call, lock_status>>
    BY <1>4 DEF KernelCvarInit, sched
  <2> QED
    BY <2>1 DEF Quiet
<1>5. CASE \E n \in Int : MayReclaim(n) /\ KernelReclaim(n)
  <2>1. PICK n \in Int : MayReclaim(n) /\ KernelReclaim(n)
    BY <1>5
  <2>2. given' = given \ {n} /\ UNCHANGED <<pc, call, lock_status>>
    BY <2>1 DEF KernelReclaim, sched
  <2> QED
    BY <2>1, <2>2 DEF Quiet, MayReclaim
<1>6. ASSUME NEW l \in LockIds, l \in given, given' = given,
             \A k \in LockIds : k # l => lock_status'[k] = lock_status[k],
             pc'[me] \in {"acquire", "cvarwait"} =>
               call'[me] = l \/ (UNCHANGED <<pc, call>> /\ me \in Proc)
      PROVE  Quiet'
  <2>1. ASSUME NEW k \in LockIds, k \notin given, NEW p \in Proc, pc'[p] \in {"acquire", "cvarwait"}
        PROVE  call'[p] # k
    <3>1. CASE p = me
      BY <1>6, <2>1, <3>1 DEF Quiet
    <3>2. CASE p # me
      BY <1>0, <1>o, <2>1, <3>2 DEF Quiet, Others
    <3> QED
      BY <3>1, <3>2
  <2>2. \A k \in LockIds \ given : lock_status'[k] \notin Proc
    BY <1>6 DEF Quiet
  <2> QED
    BY <1>6, <2>1, <2>2 DEF Quiet
<1>7. ASSUME NEW l \in LockIds, Takes(l)
      PROVE  Quiet'
  <2>1. /\ l \in given /\ given' = given
        /\ \A k \in LockIds : k # l => lock_status'[k] = lock_status[k]
    BY <1>0, <1>7 DEF Takes, Take, idvars
  <2>2. pc'[me] = "user"
    BY <1>0, <1>7 DEF Takes, Take, ToUser, me
  <2> QED
    BY <1>6, <1>7, <2>1, <2>2
<1>8. ASSUME NEW l \in LockIds, Blocks(l)
      PROVE  Quiet'
  <2>1. /\ l \in given /\ given' = given /\ lock_status' = lock_status
    BY <1>8 DEF Blocks, AcquireBlock, idvars
  <2>2. call'[me] = l
    BY <1>0, <1>8 DEF Blocks, AcquireBlock, me
  <2> QED
    BY <1>6, <1>8, <2>1, <2>2
<1>9. ASSUME NEW l \in LockIds, Frees(l), call'[me] = l \/ UNCHANGED <<pc, call>>
      PROVE  Quiet'
  <2>1. /\ l \in given /\ given' = given
        /\ \A k \in LockIds : k # l => lock_status'[k] = lock_status[k]
    BY <1>0, <1>9 DEF Frees, idvars
  <2> QED
    BY <1>6, <1>9, <2>1 DEF Frees
<1>10. ASSUME NEW l \in LockIds, NEW c, Waits(c, l)
       PROVE  Frees(l) /\ call'[me] = l
  BY <1>0, <1>10 DEF Waits, me
<1>11. CASE Refuses
  <2>1. pc'[me] = "user"
    BY <1>0, <1>11 DEF Refuses, ToUser, me
  <2>2. UNCHANGED <<given, lock_status, call>>
    BY <1>11 DEF Refuses, idvars
  <2>3. ~(pc'[me] \in {"acquire", "cvarwait"})
    BY <2>1
  <2>4. \A l \in LockIds \ given : InCall(l)'
    BY <1>0, <1>o, <2>2, <2>3 DEF Quiet, Others
  <2> QED
    BY <2>2, <2>4 DEF Quiet
<1>12. CASE UNCHANGED <<given, lock_status, pc, call>>
  BY <1>12 DEF Quiet
<1> QED
  BY <1>2, <1>3, <1>4, <1>5, <1>7, <1>8, <1>9, <1>10, <1>11, <1>12
     DEF Kinds, Crash, vars, sched, idvars, Releases, Wakes

-----------------------------------------------------------------------------

LEMMA SyncInit ==
  ASSUME Init
  PROVE  SyncInv
<1> USE DEF Init, SchedInit
<1>0. Elems(<<>>) = {} /\ NoDup(<<>>) /\ <<>> \in Seq(Proc)
  BY DEF Elems, NoDup
<1>1. /\ MAX_LOCKS \in Nat \ {0} /\ MAX_CVARS \in Nat \ {0} /\ NProc \in Nat
      /\ 0 \in LockIds /\ idle \in PCB /\ idle \notin Proc
  BY SyncAssumption, NProcAssumption DEF LockIds, PCB, idle, Proc
<1>2. ready_q \in Seq(Proc) /\ NoDup(ready_q) /\ Elems(ready_q) = Proc
  <2>1. ready_q \in [1 .. NProc -> Proc]
    BY DEF Proc
  <2> QED
    BY <1>1, <2>1 DEF Elems, NoDup, Proc
<1>3. /\ lock_list \in Seq(Int) /\ NoDup(lock_list) /\ Elems(lock_list) = LockIds
  <2>1. lock_list \in [1 .. MAX_LOCKS -> Int]
    BY <1>1
  <2>2. NoDup(lock_list)
    BY <1>1 DEF NoDup
  <2>3. \A l \in LockIds : l + 1 \in 1 .. MAX_LOCKS /\ (l + 1) - 1 = l
    BY <1>1 DEF LockIds
  <2>4. \A i \in 1 .. MAX_LOCKS : i - 1 \in LockIds
    BY <1>1 DEF LockIds
  <2>5. Elems(lock_list) = LockIds
    BY <2>3, <2>4 DEF Elems
  <2> QED
    BY <1>1, <2>1, <2>2, <2>5
<1>4. /\ cvar_list \in Seq(Int) /\ NoDup(cvar_list) /\ Elems(cvar_list) = CvarIds
  <2>1. cvar_list \in [1 .. MAX_CVARS -> Int]
    BY <1>1
  <2>2. NoDup(cvar_list)
    BY <1>1 DEF NoDup
  <2>3. \A c \in CvarIds : c - MAX_LOCKS \in 1 .. MAX_CVARS /\ MAX_LOCKS + (c - MAX_LOCKS) = c
    BY <1>1 DEF CvarIds
  <2>4. \A i \in 1 .. MAX_CVARS : MAX_LOCKS + i \in CvarIds
    BY <1>1 DEF CvarIds
  <2>5. Elems(cvar_list) = CvarIds
    BY <2>3, <2>4 DEF Elems
  <2> QED
    BY <1>1, <2>1, <2>2, <2>5
<1>5. SchedTypeOK({"acquire", "cvarwait"})
  <2>1. NOT_BLOCKED \in BlockedCodes /\ 0 \in 0 .. MaxDelay /\ 0 \in 0 .. 3
    BY MaxDelayAssumption DEF BlockedCodes
  <2> QED
    BY <1>0, <1>1, <1>2, <2>1 DEF SchedTypeOK
<1>6. TypeOK
  BY <1>0, <1>1, <1>3, <1>4, <1>5 DEF TypeOK
<1>7. IdsInv
  BY <1>3, <1>4 DEF IdsInv, FreeIdsFree
<1>8. NoTty
  BY <1>1 DEF NoTty, NOT_BLOCKED, BLOCKED_TTY_TRANSMIT
<1>9. Places
  <2>1. SchedOnce
    BY <1>0, <1>1, <1>2 DEF SchedOnce
  <2>2. Members = Proc
    BY <1>0, <1>1, <1>2 DEF Members
  <2>3. \A p \in Proc : LockPlaces(p) = {} /\ CvarPlaces(p) = {}
    BY <1>0 DEF LockPlaces, CvarPlaces, CvarQueues
  <2> QED
    BY <1>0, <2>1, <2>2, <2>3 DEF Places, Placed, CvarQueues
<1>10. Quiet
  BY <1>1, SyncAssumption DEF Quiet, Proc, idle, PCB
<1> QED
  BY <1>6, <1>7, <1>8, <1>9, <1>10 DEF SyncInv

\* The invariant holds throughout.
THEOREM SyncInvariant == Spec => []SyncInv
<1>1. Init => SyncInv
  BY SyncInit
<1>2. SyncInv /\ [Next]_vars => SyncInv'
  <2> SUFFICES ASSUME SyncInv, [Next]_vars
               PROVE  SyncInv'
    OBVIOUS
  <2>1. Kinds
    BY StepKinds
  <2>2. TypeOK /\ IdsInv /\ NoTty /\ Places /\ Quiet
    BY DEF SyncInv
  <2>3. TypeOK' /\ IdsInv'
    BY <2>1, <2>2, TypeStep, IdsStep
  <2>4. NoTty' /\ Places'
    BY <2>1, <2>2, NoTtyStep, PlacesStep
  <2>5. Quiet'
    BY <2>1, <2>2, QuietStep
  <2> QED
    BY <2>3, <2>4, <2>5 DEF SyncInv
<1> QED
  BY <1>1, <1>2, PTL DEF Spec

\* KernelLockInit, KernelCvarInit and KernelReclaim: the lists hold each id
\* once and none that is in use.
THEOREM FreeIdsFreeCorrect == Spec => []FreeIdsFree
<1>1. SyncInv => FreeIdsFree
  BY DEF SyncInv, IdsInv
<1> QED
  BY <1>1, SyncInvariant, PTL

\* All handlers and the clock: a process is queued in one place.
THEOREM QueuedOnceCorrect == Spec => []QueuedOnce
<1>1. ASSUME SyncInv
      PROVE  QueuedOnce
  <2> DEFINE queues == {<<"ready_q", 0, ready_q>>, <<"blocked_q", 0, blocked_q>>}
                \cup {<<"lock", l, lockAquireQueues[l]>> : l \in LockIds}
                \cup {<<"cvar", c, cvarWaitQueues[c]>> : c \in 0 .. MAX_CVARS - 1}
             Has(p) == {q \in queues : p \in Elems(q[3])}
  <2>0. TypeOK /\ Places
    BY <1>1 DEF SyncInv
  <2>1. ready_q \in Seq(Proc) /\ blocked_q \in Seq(Proc)
        /\ lockAquireQueues \in [LockIds -> Seq(Proc)]
        /\ cvarWaitQueues \in [CvarQueues -> Seq(Proc)]
        /\ activePCB \in PCB
    BY <2>0 DEF TypeOK, SchedTypeOK, CvarQueues
  <2>2. \A q \in queues :
          \/ q = <<"ready_q", 0, ready_q>> \/ q = <<"blocked_q", 0, blocked_q>>
          \/ \E l \in LockIds : q = <<"lock", l, lockAquireQueues[l]>>
          \/ \E c \in CvarQueues : q = <<"cvar", c, cvarWaitQueues[c]>>
    BY DEF CvarQueues
  <2>3. /\ <<"ready_q", 0, ready_q>> \in queues /\ <<"blocked_q", 0, blocked_q>> \in queues
        /\ \A l \in LockIds : <<"lock", l, lockAquireQueues[l]>> \in queues
        /\ \A c \in CvarQueues : <<"cvar", c, cvarWaitQueues[c]>> \in queues
    BY DEF CvarQueues
  <2> HIDE DEF queues
  <2>4. \A q \in queues : NoDup(q[3]) /\ me \notin Elems(q[3])
    <3>1. me \notin Elems(ready_q) /\ me \notin Elems(blocked_q)
      BY <2>0 DEF Places, SchedOnce, me
    <3>2. CASE me \in Proc
      <4>1. LockPlaces(me) = {} /\ CvarPlaces(me) = {}
        BY <2>0, <3>2, RunningPlaced
      <4>2. /\ \A l \in LockIds : me \notin Elems(lockAquireQueues[l])
            /\ \A c \in CvarQueues : me \notin Elems(cvarWaitQueues[c])
        BY <4>1 DEF LockPlaces, CvarPlaces
      <4> QED
        BY <2>0, <2>2, <3>1, <4>2 DEF Places, SchedOnce
    <3>3. CASE me \notin Proc
      <4>1. \A l \in LockIds : me \notin Elems(lockAquireQueues[l])
        <5> TAKE l \in LockIds
        <5>1. lockAquireQueues[l] \in Seq(Proc)
          BY <2>1
        <5> QED
          BY <3>3, <5>1, QueueHolds
      <4>2. \A c \in CvarQueues : me \notin Elems(cvarWaitQueues[c])
        <5> TAKE c \in CvarQueues
        <5>1. cvarWaitQueues[c] \in Seq(Proc)
          BY <2>1
        <5> QED
          BY <3>3, <5>1, QueueHolds
      <4> QED
        BY <2>0, <2>2, <3>1, <4>1, <4>2 DEF Places, SchedOnce
    <3> QED
      BY <3>2, <3>3
  <2>5. ASSUME NEW p \in Proc \ {me}
        PROVE  Cardinality(Has(p)) = 1
    <3>1. SUFFICES \E q \in queues : Has(p) = {q}
      <4>1. PICK q \in queues : Has(p) = {q}
        BY <3>1
      <4>2. Cardinality({q}) = 1
        BY FS_Singleton
      <4> QED
        BY <4>1, <4>2
    <3>2. Placed(p)
      BY <2>0 DEF Places
    <3>3. CASE p \in Members /\ LockPlaces(p) = {} /\ CvarPlaces(p) = {}
      <4>1. /\ \A l \in LockIds : p \notin Elems(lockAquireQueues[l])
            /\ \A c \in CvarQueues : p \notin Elems(cvarWaitQueues[c])
        BY <3>3 DEF LockPlaces, CvarPlaces
      <4>2. CASE p \in Elems(ready_q) /\ p \notin Elems(blocked_q)
        <5>1. Has(p) = {<<"ready_q", 0, ready_q>>}
          BY <2>2, <2>3, <4>1, <4>2
        <5> QED
          BY <2>3, <5>1
      <4>3. CASE p \notin Elems(ready_q) /\ p \in Elems(blocked_q)
        <5>1. Has(p) = {<<"blocked_q", 0, blocked_q>>}
          BY <2>2, <2>3, <4>1, <4>3
        <5> QED
          BY <2>3, <5>1
      <4> QED
        BY <2>0, <3>3, <4>2, <4>3 DEF Members, Places, SchedOnce, me
    <3>4. CASE p \notin Members /\ (\E l \in LockIds : LockPlaces(p) = {l}) /\ CvarPlaces(p) = {}
      <4>1. PICK l \in LockIds : LockPlaces(p) = {l}
        BY <3>4
      <4>2. /\ \A k \in LockIds : p \in Elems(lockAquireQueues[k]) <=> k = l
            /\ \A c \in CvarQueues : p \notin Elems(cvarWaitQueues[c])
        BY <3>4, <4>1 DEF LockPlaces, CvarPlaces
      <4>3. p \notin Elems(ready_q) /\ p \notin Elems(blocked_q)
        BY <2>1, <3>4, QueueHolds DEF Members
      <4>4. Has(p) = {<<"lock", l, lockAquireQueues[l]>>}
        BY <2>2, <2>3, <4>2, <4>3
      <4> QED
        BY <2>3, <4>4
    <3>5. CASE p \notin Members /\ LockPlaces(p) = {} /\ \E c \in CvarQueues : CvarPlaces(p) = {c}
      <4>1. PICK c \in CvarQueues : CvarPlaces(p) = {c}
        BY <3>5
      <4>2. /\ \A k \in CvarQueues : p \in Elems(cvarWaitQueues[k]) <=> k = c
            /\ \A l \in LockIds : p \notin Elems(lockAquireQueues[l])
        BY <3>5, <4>1 DEF LockPlaces, CvarPlaces
      <4>3. p \notin Elems(ready_q) /\ p \notin Elems(blocked_q)
        BY <2>1, <3>5, QueueHolds DEF Members
      <4>4. Has(p) = {<<"cvar", c, cvarWaitQueues[c]>>}
        BY <2>2, <2>3, <4>2, <4>3
      <4> QED
        BY <2>3, <4>4
    <3> QED
      BY <3>2, <3>3, <3>4, <3>5 DEF Placed
  <2> QED
    BY <2>0, <2>4, <2>5 DEF QueuedOnce, queues
<1> QED
  BY <1>1, SyncInvariant, PTL
=============================================================================
