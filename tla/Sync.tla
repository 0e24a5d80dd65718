-------------------------------- MODULE Sync --------------------------------
(***************************************************************************)
(* Locks, condition variables and the reclaiming of their ids              *)
(* (syscalls.c, SetUpGlobals in kernel.c), on top of the scheduler of      *)
(* module Sched.                                                           *)
(*                                                                         *)
(* The codes that lock_status and cvar_status hold besides pids are        *)
(* parameters.  In include.h they are all 0, so that a lock that was       *)
(* handed out cannot be told from one that was not; other values show what *)
(* the handlers would do if it could.                                      *)
(*                                                                         *)
(* The first id that CvarInit hands out is an index one past the end of    *)
(* the arrays.  The status cell there is modelled as one that nothing else *)
(* uses; the queue pointer there is garbage, and using it is a crash.  The *)
(* id MAX_LOCKS, which Acquire and Release let pass, is not tried.         *)
(***************************************************************************)
EXTENDS Sched, SequencesExt

CONSTANTS
  MAX_LOCKS, MAX_CVARS,
  UNUSED_LOCK, FREE_LOCK, UNUSED_CVAR, USED_CVAR,
  ReclaimIds     \* the arguments of Reclaim that are tried

ASSUME SyncAssumption ==
  /\ MAX_LOCKS \in Nat \ {0} /\ MAX_CVARS \in Nat \ {0}
  /\ {UNUSED_LOCK, FREE_LOCK, UNUSED_CVAR, USED_CVAR} \subseteq Int \ Proc
  /\ ReclaimIds \subseteq Int

VARIABLES
  lock_list, cvar_list,           \* ids to hand out, the next one last
  lock_status, cvar_status,
  lockAquireQueues, cvarWaitQueues,
  call,      \* the lock of the Acquire or CvarWait a process is in
  given,     \* history: ids handed out and not reclaimed
  crashed    \* the kernel used a garbage pointer

idvars == <<lock_list, cvar_list, given>>
vars == <<sched, idvars, lock_status, cvar_status, lockAquireQueues,
          cvarWaitQueues, call, crashed>>

LockIds == 0 .. MAX_LOCKS - 1
CvarIds == MAX_LOCKS + 1 .. MAX_LOCKS + MAX_CVARS

\* The indices of condition variables; the last one is out of bounds.
CvarIndex == 0 .. MAX_CVARS

TypeOK ==
  /\ SchedTypeOK({"acquire", "cvarwait"})
  /\ lock_list \in Seq(Int) /\ cvar_list \in Seq(Int)
  /\ lock_status \in [LockIds -> {UNUSED_LOCK, FREE_LOCK} \cup Proc]
  /\ cvar_status \in [CvarIndex -> {UNUSED_CVAR, USED_CVAR}]
  /\ lockAquireQueues \in [LockIds -> Seq(Proc)]
  /\ cvarWaitQueues \in [0 .. MAX_CVARS - 1 -> Seq(Proc)]
  /\ call \in [PCB -> LockIds]
  /\ given \subseteq Int
  /\ crashed \in BOOLEAN

\* SetUpGlobals
Init ==
  /\ SchedInit
  /\ lock_list = [i \in 1 .. MAX_LOCKS |-> i - 1]
  /\ cvar_list = [i \in 1 .. MAX_CVARS |-> MAX_LOCKS + i]
  /\ lock_status = [l \in LockIds |-> UNUSED_LOCK]
  /\ cvar_status = [c \in CvarIndex |-> UNUSED_CVAR]
  /\ lockAquireQueues = [l \in LockIds |-> <<>>]
  /\ cvarWaitQueues = [c \in 0 .. MAX_CVARS - 1 |-> <<>>]
  /\ call = [p \in PCB |-> 0]
  /\ given = {}
  /\ crashed = FALSE

Calls == UserProgram /\ ~crashed
me == activePCB

\* A call that returns without having changed anything.
Return == UNCHANGED vars

Crash ==
  /\ crashed' = TRUE
  /\ UNCHANGED <<sched, idvars, lock_status, cvar_status, lockAquireQueues,
                 cvarWaitQueues, call>>

-----------------------------------------------------------------------------
(* Ids.                                                                    *)

\* LockInit with an id left; an empty list gives ERROR.  An id that is not an
\* index is not handed out in the runs (see ReclaimIds).
KernelLockInit ==
  LET l == Last(lock_list)
  IN
  /\ Calls
  /\ lock_list # <<>>
  /\ lock_list' = Front(lock_list)
  /\ lock_status' = [lock_status EXCEPT ![l] = FREE_LOCK]
  /\ given' = given \cup {l}
  /\ UNCHANGED <<sched, cvar_list, cvar_status, lockAquireQueues,
                 cvarWaitQueues, call, crashed>>

KernelCvarInit ==
  LET c == Last(cvar_list)
  IN
  /\ Calls
  /\ cvar_list # <<>>
  /\ cvar_list' = Front(cvar_list)
  /\ cvar_status' = [cvar_status EXCEPT ![c - MAX_LOCKS] = USED_CVAR]
  /\ given' = given \cup {c}
  /\ UNCHANGED <<sched, lock_list, lock_status, lockAquireQueues,
                 cvarWaitQueues, call, crashed>>

\* Mutant of IsLockId: the bound is that of the condition variables.
IsLockId_Wide(n) == n <= MAX_LOCKS + 1

\* The range of ids that Reclaim takes for locks.
IsLockId(n) == n <= MAX_LOCKS

\* KernelReclaim of a lock or condition variable.  The id goes back to the
\* list whatever its state is and whoever waits; a negative one is a lock.
KernelReclaim(n) ==
  /\ Calls
  /\ n <= MAX_CVARS + MAX_LOCKS
  /\ IF IsLockId(n)
     THEN lock_list' = Append(lock_list, n) /\ UNCHANGED cvar_list
     ELSE cvar_list' = Append(cvar_list, n) /\ UNCHANGED lock_list
  /\ given' = given \ {n}
  /\ UNCHANGED <<sched, lock_status, cvar_status, lockAquireQueues,
                 cvarWaitQueues, call, crashed>>

-----------------------------------------------------------------------------
(* Locks.                                                                  *)

\* Acquire returns ERROR.
Refused(l) == lock_status[l] = UNUSED_LOCK \/ lock_status[l] = me

\* The process becomes the owner and returns to user code.
Take(l) ==
  /\ lock_status' = [lock_status EXCEPT ![l] = me]
  /\ ToUser
  /\ UNCHANGED <<activePCB, ready_q, blocked_q, clock_ticks, tty_terminal,
                 idvars, cvar_status, lockAquireQueues, cvarWaitQueues, call,
                 crashed>>

AcquireFree(l) ==
  /\ ~Refused(l)
  /\ lock_status[l] = FREE_LOCK
  /\ Take(l)
  /\ UNCHANGED blocked_code

AcquireBlock(l) ==
  /\ ~Refused(l)
  /\ lock_status[l] # FREE_LOCK
  /\ blocked_code' = [blocked_code EXCEPT ![me] = BLOCKED_LOCK_ACQUIRE]
  /\ lockAquireQueues' = [lockAquireQueues EXCEPT ![l] = Joined(@)]
  /\ SwapProcess(ready_q, "acquire")
  /\ call' = [call EXCEPT ![me] = l]
  /\ UNCHANGED <<blocked_q, clock_ticks, tty_terminal, idvars, lock_status,
                 cvar_status, cvarWaitQueues, crashed>>

KernelAcquire(l) ==
  /\ Calls
  /\ \/ Refused(l) /\ Return
     \/ AcquireFree(l)
     \/ AcquireBlock(l)

\* After the switch the lock is taken without a second look at its state.
ResumeAcquire ==
  /\ ContinuesAt("acquire") /\ ~crashed
  /\ blocked_code' = [blocked_code EXCEPT ![me] = NOT_BLOCKED]
  /\ Take(call[me])

MayRelease(l) == lock_status[l] = me /\ lock_status[l] # UNUSED_LOCK

\* What KernelRelease does with the lock's queue: the first process in it, if
\* any, goes to ready_q.
HandOver(l) == [woken   |-> PopSeq(lockAquireQueues[l]),
                waiting |-> AfterPop(lockAquireQueues[l])]

KernelRelease(l) ==
  /\ Calls
  /\ \/ ~MayRelease(l) /\ Return
     \/ /\ MayRelease(l)
        /\ lock_status' = [lock_status EXCEPT ![l] = FREE_LOCK]
        /\ lockAquireQueues' = [lockAquireQueues EXCEPT ![l] = HandOver(l).waiting]
        /\ ready_q' = ready_q \o HandOver(l).woken
        /\ UNCHANGED <<activePCB, blocked_q, blocked_code, clock_ticks,
                       tty_terminal, pc, idvars, cvar_status, cvarWaitQueues,
                       call, crashed>>

-----------------------------------------------------------------------------
(* Condition variables.                                                    *)

Index(c) == c - MAX_LOCKS
NoCvar(c) == cvar_status[Index(c)] = UNUSED_CVAR

\* The waiters in w are moved to ready_q and those in rest stay.
WakeWaiters(c, w, rest) ==
  /\ ready_q' = ready_q \o w
  /\ cvarWaitQueues' = [cvarWaitQueues EXCEPT ![Index(c)] = rest]
  /\ UNCHANGED <<activePCB, blocked_q, blocked_code, clock_ticks, tty_terminal,
                 pc, idvars, lock_status, cvar_status, lockAquireQueues, call,
                 crashed>>

\* What Signal and Broadcast have in common.
Notify(c, w, rest) ==
  /\ Calls
  /\ \/ NoCvar(c) /\ Return
     \/ ~NoCvar(c) /\ Index(c) < MAX_CVARS /\ WakeWaiters(c, w, rest)
     \/ ~NoCvar(c) /\ Index(c) = MAX_CVARS /\ Crash

\* One process is woken, or all of them.
KernelCvarSignal(c) ==
  LET q == IF Index(c) < MAX_CVARS THEN cvarWaitQueues[Index(c)] ELSE <<>>
  IN  Notify(c, PopSeq(q), AfterPop(q))
KernelCvarBroadcast(c) ==
  LET q == IF Index(c) < MAX_CVARS THEN cvarWaitQueues[Index(c)] ELSE <<>>
  IN  Notify(c, q, <<>>)

\* KernelRelease, then SwapProcess.
KernelCvarWait(c, l) ==
  /\ Calls
  /\ \/ (NoCvar(c) \/ ~MayRelease(l)) /\ Return
     \/ /\ ~NoCvar(c) /\ MayRelease(l)
        /\ Index(c) < MAX_CVARS
        /\ lock_status' = [lock_status EXCEPT ![l] = FREE_LOCK]
        /\ lockAquireQueues' = [lockAquireQueues EXCEPT ![l] = HandOver(l).waiting]
        /\ cvarWaitQueues' = [cvarWaitQueues EXCEPT ![Index(c)] = Joined(@)]
        /\ SwapProcess(ready_q \o HandOver(l).woken, "cvarwait")
        /\ call' = [call EXCEPT ![me] = l]
        /\ UNCHANGED <<blocked_q, blocked_code, clock_ticks, tty_terminal,
                       idvars, cvar_status, crashed>>
     \/ ~NoCvar(c) /\ MayRelease(l) /\ Index(c) = MAX_CVARS /\ Crash

\* KernelCvarWait after the switch: KernelAcquire from its start.
ResumeCvarWait ==
  /\ ContinuesAt("cvarwait") /\ ~crashed
  /\ \/ /\ Refused(call[me])
        /\ ToUser
        /\ UNCHANGED <<activePCB, ready_q, blocked_q, blocked_code, clock_ticks,
                       tty_terminal, idvars, lock_status, cvar_status,
                       lockAquireQueues, cvarWaitQueues, call, crashed>>
     \/ AcquireFree(call[me])
     \/ AcquireBlock(call[me])

-----------------------------------------------------------------------------

Scheduling ==
  /\ TrapClock \/ TrapClockIdle({}) \/ ResumeClock({}) \/ ResumeUser \/ Delay
  /\ ~crashed
  /\ UNCHANGED <<idvars, lock_status, cvar_status, lockAquireQueues,
                 cvarWaitQueues, call, crashed>>

\* What is assumed of the programs, as the kernel does not test it: they give
\* back an id they were given, a lock only when it is free and no call for it
\* is under way, and do not use a lock any more that they have given back.
MayReclaim(n) ==
  /\ n \in given
  /\ n \in LockIds =>
       /\ lock_status[n] \notin Proc
       /\ \A p \in Proc : pc[p] \in {"acquire", "cvarwait"} => call[p] # n
MayUse(l) == l \in given \/ lock_status[l] = UNUSED_LOCK

Ids    == \/ KernelLockInit \/ KernelCvarInit
          \/ \E n \in ReclaimIds : MayReclaim(n) /\ KernelReclaim(n)
Lock   == \E l \in LockIds : MayUse(l) /\ (KernelAcquire(l) \/ KernelRelease(l))
Cvar   == \E c \in CvarIds :
            \/ KernelCvarSignal(c) \/ KernelCvarBroadcast(c)
            \/ \E l \in LockIds : MayUse(l) /\ KernelCvarWait(c, l)

Next == Scheduling \/ Ids \/ Lock \/ ResumeAcquire \/ Cvar \/ ResumeCvarWait

Spec == Init /\ [][Next]_vars

-----------------------------------------------------------------------------
(* Properties.                                                             *)

\* A process is queued in one place only: for the CPU, for a lock, for a
\* condition variable or in Delay.
QueuedOnce ==
  LET queues == {<<"ready_q", 0, ready_q>>, <<"blocked_q", 0, blocked_q>>}
        \cup {<<"lock", l, lockAquireQueues[l]>> : l \in LockIds}
        \cup {<<"cvar", c, cvarWaitQueues[c]>> : c \in 0 .. MAX_CVARS - 1}
  IN  /\ TypeOK
      /\ \A p \in Proc \ {me} :
           Cardinality({q \in queues : p \in Elems(q[3])}) = 1
      /\ \A q \in queues : NoDup(q[3]) /\ me \notin Elems(q[3])

\* syscalls.c:1085, "the list of free lock ids": the lists hold each id once
\* and none that is in use, so that an id is never handed out to two owners.
FreeIdsFree ==
  /\ NoDup(lock_list) /\ NoDup(cvar_list)
  /\ Elems(lock_list) = LockIds \ given
  /\ Elems(cvar_list) = CvarIds \ given

=============================================================================
