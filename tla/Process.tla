------------------------------ MODULE Process -------------------------------
(***************************************************************************)
(* Processes and scheduling in Yalnix: the PCBs, the ready, blocked and    *)
(* defunct queues, SwapProcess, Fork, Exit, Wait, Delay, the clock trap    *)
(* and the traps that abort a process (process.c, syscalls.c,              *)
(* traphandlers.c, kernel.c).                                              *)
(*                                                                         *)
(* The machine has one CPU and a trap handler is not interrupted, so a     *)
(* handler is one atomic step up to the point where it calls SwapProcess.  *)
(* There its kernel context is saved and the handler of ANOTHER process    *)
(* continues after that process's own SwapProcess: pc[p] says where.  A    *)
(* process that runs user code has pc[p] = "user".  While the active       *)
(* process is still inside a handler only the Resume actions are possible. *)
(*                                                                         *)
(* A PCB is named by its pid: pids are handed out in increasing order and  *)
(* never retired.                                                          *)
(***************************************************************************)
EXTENDS QueueOps

CONSTANTS
  MaxPid,       \* bound: the last pid that Fork hands out
  MaxDelay,     \* bound: the largest argument of Delay
  ExitCodes,    \* the arguments of Exit that are tried
  ForkMayFail,  \* Fork may run out of page frames
  MayFault      \* a program may divide by zero or run an illegal instruction

ASSUME MaxPidAssumption    == MaxPid \in Nat /\ MaxPid >= 1
ASSUME MaxDelayAssumption  == MaxDelay \in Nat
ASSUME ExitCodesAssumption == ExitCodes \subseteq Int
ASSUME SwitchAssumption    == ForkMayFail \in BOOLEAN /\ MayFault \in BOOLEAN

\* include.h and yalnix.h
NOT_BLOCKED   == 0
BLOCKED_DELAY == 1
BLOCKED_WAIT  == 2
ERROR         == -1

VARIABLES
  activePCB,     \* the running process
  ready_q,       \* processes waiting for the CPU
  blocked_q,     \* processes in Wait or Delay
  defunct_q,     \* dead processes nobody has waited for
  ppid,          \* PCB field: the parent's pid, 0 for orphans
  num_children,  \* PCB field
  blocked_code,  \* PCB field: why it is blocked; the status for a woken Wait
  clock_ticks,   \* PCB field: what is left of a Delay
  exit_code,     \* PCB field
  pc,            \* where the saved kernel context of a process continues
  life,          \* what became of a PCB
  nextpid,       \* the next pid of helper_new_pid
  crashed        \* the kernel dereferenced NULL

queues == <<activePCB, ready_q, blocked_q, defunct_q>>
fields == <<ppid, num_children, blocked_code, clock_ticks, exit_code>>
vars   == <<queues, fields, pc, life, nextpid, crashed>>

idle == 0
init == 1
Pid  == 0 .. MaxPid

Contexts == {"user", "boot", "fork", "clock", "wait", "delay", "exit", "fault"}

\* "unborn": no PCB yet.  "live": scheduled.  "zombie": exited, in defunct_q.
\* "faulted": aborted by a trap, in defunct_q.  "freed": deleted by its exit.
\* "reaped": taken out of defunct_q by Wait.  "dropped": taken out of it by
\* the parent's exit.  "stillborn": the Fork that made it failed.
Lives == {"unborn", "live", "zombie", "faulted", "freed", "reaped",
          "dropped", "stillborn"}

TypeOK ==
  /\ activePCB \in Pid
  /\ ready_q \in Seq(Pid) /\ blocked_q \in Seq(Pid) /\ defunct_q \in Seq(Pid)
  /\ ppid \in [Pid -> Pid]
  /\ num_children \in [Pid -> Int]
  /\ blocked_code \in [Pid -> Int]
  /\ clock_ticks \in [Pid -> 0 .. MaxDelay]
  /\ exit_code \in [Pid -> Int]
  /\ pc \in [Pid -> Contexts]
  /\ life \in [Pid -> Lives]
  /\ nextpid \in 2 .. MaxPid + 1
  /\ crashed \in BOOLEAN

-----------------------------------------------------------------------------
(* KernelStart leaves the idle program running in user mode and the first  *)
(* program, made by init_process while idle is active, in ready_q.         *)

Init ==
  /\ activePCB = idle
  /\ ready_q = <<init>> /\ blocked_q = <<>> /\ defunct_q = <<>>
  /\ ppid = [p \in Pid |-> 0]
  /\ num_children = [p \in Pid |-> IF p = idle THEN 1 ELSE 0]
  /\ blocked_code = [p \in Pid |-> NOT_BLOCKED]
  /\ clock_ticks = [p \in Pid |-> 0]
  /\ exit_code = [p \in Pid |-> 0]
  /\ pc = [p \in Pid |-> IF p = init THEN "boot" ELSE "user"]
  /\ life = [p \in Pid |-> IF p \in {idle, init} THEN "live" ELSE "unborn"]
  /\ nextpid = 2
  /\ crashed = FALSE

\* The active process runs user code and can trap.
UserMode == pc[activePCB] = "user" /\ ~crashed

\* The idle program only asks for its pid and pauses; it never exits, forks,
\* waits, delays or faults.
UserProgram == UserMode /\ activePCB # idle

-----------------------------------------------------------------------------
(* SwapProcess: the head of ready_q (or idle) becomes active, then the     *)
(* process that was active joins the queue `move` ("none" for NULL; idle   *)
(* is never queued).  r, b and d are the queues at the call.               *)

SwapProcess(move, r, b, d) ==
  LET Moved(name, q) == IF move = name /\ activePCB # idle
                        THEN Append(q, activePCB) ELSE q
  IN  /\ activePCB' = PopOr(r, idle)
      /\ ready_q'   = Moved("ready", AfterPop(r))
      /\ blocked_q' = Moved("blocked", b)
      /\ defunct_q' = Moved("defunct", d)

\* Mutant of NothingToRun: user programs are not pre-empted.
NothingToRun_Busy == activePCB # idle \/ ready_q = <<>>

\* The case in which SwapProcess returns at once.
NothingToRun == activePCB = idle /\ ready_q = <<>>

\* The kernel context that KCSwitch saves for the process that is left.
SaveContext(where) == pc' = [pc EXCEPT ![activePCB] = where]

-----------------------------------------------------------------------------
(* The clock.  The handler first swaps and scans blocked_q afterwards, so  *)
(* the scan is run by a process that was swapped out in an EARLIER clock   *)
(* trap, when it is resumed; a process resumed elsewhere runs no scan.     *)

\* Mutants of Expired: the reason for blocking is not tested; the comparison
\* is off by one; a Delay never expires.
Expired_AnyReason == {p \in Elems(blocked_q) : clock_ticks[p] = 0}
Expired_Never == {p \in Elems(blocked_q) :
                    blocked_code[p] = BLOCKED_DELAY /\ clock_ticks[p] < 0}

\* CheckBlocked returns ready_q for these.
Expired == {p \in Elems(blocked_q) :
              blocked_code[p] = BLOCKED_DELAY /\ clock_ticks[p] = 0}

\* Mutants of Ticking: the comparison with zero is missing, or with one.
Ticking_NoTest == {p \in Elems(blocked_q) : blocked_code[p] = BLOCKED_DELAY}
Ticking_Late == {p \in Elems(blocked_q) :
                   blocked_code[p] = BLOCKED_DELAY /\ clock_ticks[p] > 1}

\* CheckBlocked counts these down.
Ticking == {p \in Elems(blocked_q) :
              blocked_code[p] = BLOCKED_DELAY /\ clock_ticks[p] > 0}

ScanBlocked ==
  /\ ready_q' = ready_q \o Keep(blocked_q, Expired)
  /\ blocked_q' = Keep(blocked_q, Pid \ Expired)
  /\ blocked_code' = [p \in Pid |-> IF p \in Expired THEN NOT_BLOCKED
                                                     ELSE blocked_code[p]]
  /\ clock_ticks' = [p \in Pid |-> IF p \in Ticking THEN clock_ticks[p] - 1
                                                    ELSE clock_ticks[p]]

\* TrapClockHandler up to the switch.
TrapClock ==
  /\ UserMode
  /\ ~NothingToRun
  /\ SwapProcess("ready", ready_q, blocked_q, defunct_q)
  /\ SaveContext("clock")
  /\ UNCHANGED <<fields, life, nextpid, crashed>>

\* TrapClockHandler when there is nothing to switch to: the scan follows.
TrapClockIdle ==
  /\ UserMode
  /\ NothingToRun
  /\ ScanBlocked
  /\ UNCHANGED <<activePCB, defunct_q, ppid, num_children, exit_code, pc,
                 life, nextpid, crashed>>

\* The active process is inside the handler named by `where`.
ContinuesAt(where) == pc[activePCB] = where /\ ~crashed

\* TrapClockHandler after the switch.
ResumeClock ==
  /\ ContinuesAt("clock")
  /\ ScanBlocked
  /\ pc' = [pc EXCEPT ![activePCB] = "user"]
  /\ UNCHANGED <<activePCB, defunct_q, ppid, num_children, exit_code, life,
                 nextpid, crashed>>

-----------------------------------------------------------------------------
(* Fork.  init_process takes a pid, counts the child in its parent and     *)
(* gets the child's kernel stack before anything can fail.                 *)

init_process(outcome) ==
  /\ nextpid <= MaxPid
  /\ nextpid' = nextpid + 1
  /\ ppid' = [ppid EXCEPT ![nextpid] = activePCB]
  /\ num_children' = [num_children EXCEPT ![activePCB] = @ + 1]
  /\ life' = [life EXCEPT ![nextpid] = outcome]
  /\ UNCHANGED <<blocked_code, clock_ticks, exit_code>>

\* The child continues where KCCopy copied the parent's kernel context.
KernelFork ==
  /\ UserProgram
  /\ init_process("live")
  /\ ready_q' = Append(ready_q, nextpid)
  /\ pc' = [pc EXCEPT ![nextpid] = "fork"]
  /\ UNCHANGED <<activePCB, blocked_q, defunct_q, crashed>>

\* No kernel page to copy through, or no frame left for CopyUPT: ERROR is
\* returned and nothing of init_process is undone.
KernelForkError ==
  /\ UserProgram
  /\ ForkMayFail
  /\ init_process("stillborn")
  /\ UNCHANGED <<queues, pc, crashed>>

\* No frame left for the child's kernel stack: init_process returns NULL,
\* which KernelFork dereferences before it tests it.
KernelForkNull ==
  /\ UserProgram
  /\ ForkMayFail
  /\ init_process("stillborn")
  /\ crashed' = TRUE
  /\ UNCHANGED <<queues, pc>>

\* Back from KCCopy in a new process: the rest of KernelStart or KernelFork.
ResumeNew ==
  /\ ContinuesAt("boot") \/ ContinuesAt("fork")
  /\ pc' = [pc EXCEPT ![activePCB] = "user"]
  /\ UNCHANGED <<queues, fields, life, nextpid, crashed>>

-----------------------------------------------------------------------------
(* Exit.  The three loops over ready_q, blocked_q and defunct_q look for   *)
(* the parent, whose state decides where the dead process goes, and for    *)
(* the children, which become orphans or are thrown away.                  *)

\* Mutant of OneFewer: the count is not updated.
OneFewer_Forgotten(p) == num_children

\* num_children-- in the PCB of p.
OneFewer(p) == [num_children EXCEPT ![p] = @ - 1]

\* Mutant of HasKin: orphans do not look for their children.
HasKin_ParentOnly == ppid[activePCB] # 0

\* The loops are skipped by a process with neither parent nor children.
HasKin == ppid[activePCB] # 0 \/ num_children[activePCB] > 0

\* Mutants of ParentWaits: a waiting parent is not told; a parent in any
\* queue is taken to wait when its code says so; the code is not tested.
ParentWaits_Never == FALSE
ParentWaits_AnyQueue ==
  LET par == ppid[activePCB]
  IN  /\ HasKin /\ blocked_code[par] = BLOCKED_WAIT
      /\ par \in Elems(blocked_q) \cup Elems(ready_q)
ParentWaits_AnyReason == HasKin /\ ppid[activePCB] \in Elems(blocked_q)

\* The blocked loop finds the parent in Wait.
ParentWaits ==
  LET par == ppid[activePCB]
  IN  HasKin /\ par \in Elems(blocked_q) /\ blocked_code[par] = BLOCKED_WAIT

\* swap_q is set to defunct_q: some loop finds the parent, not in Wait.
ParentMayWait ==
  LET par == ppid[activePCB]
  IN  HasKin /\ ~ParentWaits /\ par \in Elems(ready_q) \cup Elems(blocked_q)

\* The children that some loop finds.
ChildrenIn(q) == {p \in Elems(q) : HasKin /\ ppid[p] = activePCB}

KernelExit(code) ==
  LET me  == activePCB
      par == ppid[me]
      r == IF ParentWaits THEN Append(ready_q, par) ELSE ready_q
      b == IF ParentWaits THEN Keep(blocked_q, Pid \ {par}) ELSE blocked_q
      d == Keep(defunct_q, Pid \ ChildrenIn(defunct_q))
  IN
  /\ UserProgram
  /\ exit_code' = [exit_code EXCEPT ![me] = code]
  /\ ppid' = [p \in Pid |->
       IF p \in ChildrenIn(ready_q) \cup ChildrenIn(blocked_q)
       THEN 0 ELSE ppid[p]]
  /\ num_children' = IF ParentWaits THEN OneFewer(par) ELSE num_children
  /\ blocked_code' = IF ParentWaits THEN [blocked_code EXCEPT ![par] = code]
                                    ELSE blocked_code
  /\ life' = [p \in Pid |->
       CASE p = me -> IF ParentMayWait THEN "zombie" ELSE "freed"
         [] p # me /\ p \in ChildrenIn(defunct_q) -> "dropped"
         [] OTHER -> life[p]]
  /\ SwapProcess(IF ParentMayWait THEN "defunct" ELSE "none", r, b, d)
  /\ SaveContext("exit")
  /\ UNCHANGED <<clock_ticks, nextpid, crashed>>

Exit == \E code \in ExitCodes : KernelExit(code)

\* TrapKernelHandler after a failed Exec, TrapMemoryHandler on an address
\* that is not below the stack.
Abort == KernelExit(ERROR)

\* TrapMathHandler and TrapIllegalHandler.
TrapFault ==
  /\ UserProgram
  /\ MayFault
  /\ exit_code' = [exit_code EXCEPT ![activePCB] = ERROR]
  /\ life' = [life EXCEPT ![activePCB] = "faulted"]
  /\ SwapProcess("defunct", ready_q, blocked_q, defunct_q)
  /\ SaveContext("fault")
  /\ UNCHANGED <<ppid, num_children, blocked_code, clock_ticks, nextpid,
                 crashed>>

-----------------------------------------------------------------------------
(* Wait and Delay.                                                         *)

Zombies(p) == {c \in Elems(defunct_q) : ppid[c] = p}

\* KernelWait finds a dead child: the rotation of defunct_q ends there.
KernelWaitReap ==
  LET z == FirstIn(defunct_q, Zombies(activePCB))
  IN
  /\ UserProgram
  /\ num_children[activePCB] # 0
  /\ Zombies(activePCB) # {}
  /\ num_children' = OneFewer(activePCB)
  /\ defunct_q' = RotateOut(defunct_q, z)
  /\ life' = [life EXCEPT ![defunct_q[z]] = "reaped"]
  /\ UNCHANGED <<activePCB, ready_q, blocked_q, ppid, blocked_code,
                 clock_ticks, exit_code, pc, nextpid, crashed>>

\* KernelWait finds none.
KernelWaitBlock ==
  /\ UserProgram
  /\ num_children[activePCB] # 0
  /\ Zombies(activePCB) = {}
  /\ blocked_code' = [blocked_code EXCEPT ![activePCB] = BLOCKED_WAIT]
  /\ SwapProcess("blocked", ready_q, blocked_q, defunct_q)
  /\ SaveContext("wait")
  /\ UNCHANGED <<ppid, num_children, clock_ticks, exit_code, life, nextpid,
                 crashed>>

\* KernelWait after the switch: the status is in blocked_code.
ResumeWait ==
  /\ ContinuesAt("wait")
  /\ blocked_code' = [blocked_code EXCEPT ![activePCB] = NOT_BLOCKED]
  /\ pc' = [pc EXCEPT ![activePCB] = "user"]
  /\ UNCHANGED <<queues, ppid, num_children, clock_ticks, exit_code, life,
                 nextpid, crashed>>

KernelDelay(n) ==
  /\ UserProgram
  /\ n > 0
  /\ clock_ticks' = [clock_ticks EXCEPT ![activePCB] = n]
  /\ blocked_code' = [blocked_code EXCEPT ![activePCB] = BLOCKED_DELAY]
  /\ SwapProcess("blocked", ready_q, blocked_q, defunct_q)
  /\ SaveContext("delay")
  /\ UNCHANGED <<ppid, num_children, exit_code, life, nextpid, crashed>>

Delay == \E n \in 0 .. MaxDelay : KernelDelay(n)

ResumeDelay ==
  /\ ContinuesAt("delay")
  /\ pc' = [pc EXCEPT ![activePCB] = "user"]
  /\ UNCHANGED <<queues, fields, life, nextpid, crashed>>

-----------------------------------------------------------------------------

Clock  == TrapClock \/ TrapClockIdle
Resume == ResumeClock \/ ResumeNew \/ ResumeWait \/ ResumeDelay

\* All that neither counts nor asks for clock ticks.
Untimed ==
  \/ ResumeClock \/ ResumeNew \/ ResumeWait
  \/ KernelFork \/ KernelForkError \/ KernelForkNull
  \/ Exit \/ Abort \/ TrapFault
  \/ KernelWaitReap \/ KernelWaitBlock

Next == TrapClock \/ TrapClockIdle \/ Delay \/ ResumeDelay \/ Untimed

Spec == Init /\ [][Next]_vars

\* A handler runs to its end, and the clock interrupts again and again: one
\* that arrives in kernel mode is delivered on the return to user mode, hence
\* strong fairness (the clock trap is disabled inside every handler).
Fairness == WF_vars(Resume) /\ SF_vars(Clock)

-----------------------------------------------------------------------------
(* Safety.                                                                 *)

\* The children a Wait can still be told about: those in a queue, or made by
\* a Fork that failed half way.
Unreaped == {"live", "zombie", "faulted", "stillborn"}
Brood(p) == {c \in Pid : ppid[c] = p /\ life[c] \in Unreaped}

Waiting(p)  == p \in Elems(blocked_q) /\ blocked_code[p] = BLOCKED_WAIT
Delaying(p) == p \in Elems(blocked_q) /\ blocked_code[p] = BLOCKED_DELAY

\* A waiter that has been given its status and has not run yet.
Woken(p) == pc[p] = "wait" /\ (p = activePCB \/ p \in Elems(ready_q))

\* Every process is in one place only: a live one runs or is once in ready_q
\* or blocked_q, a dead one nobody waited for is once in defunct_q, a PCB
\* that is gone is in no queue, and idle is never queued.  The rotations and
\* moves of KernelExit, KernelWait, TrapClockHandler and SwapProcess neither
\* lose nor duplicate a process.
OnePlace ==
  /\ NoDup(ready_q) /\ NoDup(blocked_q) /\ NoDup(defunct_q)
  /\ Elems(ready_q) \cap Elems(blocked_q) = {}
  /\ activePCB \notin Elems(ready_q) \cup Elems(blocked_q)
  /\ {activePCB, idle} \cup Elems(ready_q) \cup Elems(blocked_q)
       = {p \in Pid : life[p] = "live"}
  /\ Elems(defunct_q) = {p \in Pid : life[p] \in {"zombie", "faulted"}}
  /\ idle \notin Elems(ready_q) \cup Elems(blocked_q)

\* A pid is handed out once, also when Fork fails; a parent is always older
\* than its children, so no loop over kin meets its own process; and a PCB
\* starts with the fields init_process gives it.
Births ==
  /\ life[idle] = "live"
  /\ \A p \in Pid : p < nextpid <=> life[p] # "unborn"
  /\ \A p \in Pid : ppid[p] = 0 \/ ppid[p] < p
  /\ \A p \in Pid : life[p] = "unborn" =>
       /\ ppid[p] = 0 /\ num_children[p] = 0
       /\ blocked_code[p] = NOT_BLOCKED /\ clock_ticks[p] = 0

\* num_children, on which KernelWait decides between ERROR and blocking and
\* KernelExit whether to look for children at all, counts exactly the
\* children not yet reaped, through every order of exits, waits and forks.
ChildCount ==
  \A p \in Pid \ {idle} : life[p] = "live" =>
    num_children[p] = Cardinality(Brood(p))

\* No process is left with the pid of a parent that has exited: KernelExit
\* finds all its children in the queues and makes them orphans.
NoExitedParent ==
  \A c \in Pid : life[c] \in {"live", "zombie", "faulted"} /\ ppid[c] # 0 =>
    pc[ppid[c]] # "exit"

\* A child that exits never goes unnoticed by a parent that is blocked in
\* Wait: no waiter has an exited child left in defunct_q, and it waits for
\* at least one child.
NoLostWakeup ==
  \A p \in Pid : Waiting(p) =>
    /\ \A c \in Pid : ppid[c] = p => life[c] # "zombie"
    /\ num_children[p] > 0

\* The status that a woken Wait is about to return is the exit code of one
\* of its own children that was deleted, although blocked_code doubles as
\* the reason for blocking and exit codes 1 and 2 look like BLOCKED_DELAY
\* and BLOCKED_WAIT.
WaitStatus ==
  \A p \in Pid : Woken(p) =>
    \E c \in Pid : /\ ppid[c] = p /\ life[c] = "freed"
                   /\ exit_code[c] = blocked_code[p]

\* Where a process continues agrees with the queue it is in and with its
\* blocked_code: nobody in Delay or Wait is made ready for another reason
\* than the one it blocked for, and no context of a process that died or
\* already returned to user code is ever resumed.
ContextMatches ==
  /\ pc[activePCB] \notin {"exit", "fault"}
  /\ \A p \in Elems(blocked_q) :
       \/ blocked_code[p] = BLOCKED_DELAY /\ pc[p] = "delay"
       \/ blocked_code[p] = BLOCKED_WAIT /\ pc[p] = "wait"
  /\ \A p \in {activePCB} \cup Elems(ready_q) : pc[p] # "wait" =>
       blocked_code[p] = NOT_BLOCKED /\ clock_ticks[p] = 0
  /\ \A p \in Elems(ready_q) : pc[p] \notin {"user", "exit", "fault"}

\* Between the exit that wakes a waiter and the moment the waiter reads it,
\* nothing overwrites the status (a second child may exit meanwhile).
StatusKept ==
  [][\A p \in Pid : Woken(p) /\ Woken(p)' => blocked_code'[p] = blocked_code[p]]_vars

\* The stage of a process in module LifeCycle.
StageOf(l) ==
  CASE l = "unborn" -> "unborn"
    [] l = "live" -> "alive"
    [] l \in {"zombie", "faulted"} -> "dead"
    [] l \in {"freed", "reaped", "dropped"} -> "gone"
    [] l = "stillborn" -> "lost"

Lifetimes == INSTANCE LifeCycle WITH
  Pids <- Pid, Codes <- ExitCodes \cup {ERROR},
  stage <- [p \in Pid |-> StageOf(life[p])],
  parent <- ppid,
  code <- exit_code,
  waiting <- {p \in Pid : Waiting(p)},
  answer <- [p \in Pid |-> IF Woken(p) THEN {blocked_code[p]} ELSE {}]

\* The queues, the counting of children and the contexts that are resumed in
\* any order amount to the life cycle of processes that module LifeCycle
\* states: every exit code goes where it says, once.
LivesAsPromised == Lifetimes!Spec

\* Scheduling is fair: the process waiting for the CPU longest gets it, so
\* every ready process runs, and the program loaded at boot starts.
ReadyRuns == \A p \in Pid : p \in Elems(ready_q) ~> p = activePCB

\* Every Delay ends: its process runs again, although the scan that counts
\* it down is done by other processes, and only when they are resumed.
DelayEnds == \A p \in Pid : Delaying(p) ~> pc[p] = "user"

-----------------------------------------------------------------------------
(* What comments in the code say.                                          *)

\* syscalls.c:264, "calling wait with no children will just give ERROR": a
\* process blocked in Wait has a child that exists.
WaitOnlyForChildren ==
  \A p \in Pid : Waiting(p) =>
    \E c \in Pid : ppid[c] = p /\ life[c] \in {"live", "zombie", "faulted"}

=============================================================================
