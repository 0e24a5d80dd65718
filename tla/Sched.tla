------------------------------- MODULE Sched --------------------------------
(***************************************************************************)
(* What the blocking system calls share: the running process, ready_q and  *)
(* blocked_q, SwapProcess, Delay and the clock (process.c, syscalls.c,     *)
(* traphandlers.c, kernel.c), for a fixed set of processes that do not     *)
(* exit.  Module Process has the same machinery with births and deaths;    *)
(* here a queue may hold a process more than once, because some of the     *)
(* handlers built on this module put it there, so the scan of blocked_q is *)
(* done entry by entry.                                                    *)
(*                                                                         *)
(* A handler is atomic up to its SwapProcess; pc[p] is where the kernel    *)
(* context saved for p goes on.                                            *)
(***************************************************************************)
EXTENDS QueueOps

CONSTANTS
  NProc,      \* the processes are 1 .. NProc
  MaxDelay    \* bound: the largest argument of Delay

ASSUME NProcAssumption == NProc \in Nat \ {0}
ASSUME MaxDelayAssumption == MaxDelay \in Nat

VARIABLES
  activePCB,     \* the running process
  ready_q,       \* processes waiting for the CPU
  blocked_q,     \* processes in Delay, and those the handlers put there
  blocked_code,  \* PCB field: why the process is blocked
  clock_ticks,   \* PCB field: what is left of a Delay
  tty_terminal,  \* PCB field: the terminal the process is blocked on
  pc             \* where the saved kernel context of a process continues

sched == <<activePCB, ready_q, blocked_q, blocked_code, clock_ticks,
           tty_terminal, pc>>

idle == 0
Proc == 1 .. NProc
PCB  == {idle} \cup Proc

\* include.h
NOT_BLOCKED          == 0
BLOCKED_DELAY        == 1
BLOCKED_TTY_READ     == 3
BLOCKED_TTY_WRITE    == 4
BLOCKED_TTY_TRANSMIT == 5
BLOCKED_PIPE_READ    == 6
BLOCKED_PIPE_WRITE   == 7
BLOCKED_LOCK_ACQUIRE == 8
BlockedCodes == {NOT_BLOCKED, BLOCKED_DELAY} \cup 3 .. 8

SchedTypeOK(contexts) ==
  /\ activePCB \in PCB
  /\ ready_q \in Seq(Proc) /\ blocked_q \in Seq(Proc)
  /\ blocked_code \in [PCB -> BlockedCodes]
  /\ clock_ticks \in [PCB -> 0 .. MaxDelay]
  /\ tty_terminal \in [PCB -> 0 .. 3]
  /\ pc \in [PCB -> {"user", "start", "clock", "delay"} \cup contexts]

\* The processes have been forked and are waiting for the CPU.
SchedInit ==
  /\ activePCB = idle
  /\ ready_q = [i \in Proc |-> i] /\ blocked_q = <<>>
  /\ blocked_code = [p \in PCB |-> NOT_BLOCKED]
  /\ clock_ticks = [p \in PCB |-> 0]
  /\ tty_terminal = [p \in PCB |-> 0]
  /\ pc = [p \in PCB |-> IF p = idle THEN "user" ELSE "start"]

UserMode    == pc[activePCB] = "user"
UserProgram == UserMode /\ activePCB # idle
ContinuesAt(where) == pc[activePCB] = where

\* The running process goes (back) to user code.
ToUser == pc' = [pc EXCEPT ![activePCB] = "user"]

\* The queue that SwapProcess is told to move the running process to.
Joined(q) == IF activePCB = idle THEN q ELSE Append(q, activePCB)

\* SwapProcess(queue, uctxt) with ready_q at r: the head of r or idle runs,
\* and the handler that is left goes on at `where` later.  The caller says
\* which queue the process that was running has joined.
SwapProcess(r, where) ==
  /\ activePCB' = PopOr(r, idle)
  /\ ready_q' = AfterPop(r)
  /\ pc' = [pc EXCEPT ![activePCB] = where]

\* SwapProcess(ready_q, uctxt).
SwapToReady(where) ==
  /\ activePCB' = PopOr(ready_q, idle)
  /\ ready_q' = Joined(AfterPop(ready_q))
  /\ pc' = [pc EXCEPT ![activePCB] = where]

NothingToRun == activePCB = idle /\ ready_q = <<>>

-----------------------------------------------------------------------------
(* CheckBlocked and the scan of blocked_q.  s holds the PCB fields and the *)
(* queues while the handler works; open is the set of terminals that are   *)
(* TERMINAL_OPEN.                                                          *)

Now == [code |-> blocked_code, ticks |-> clock_ticks, term |-> tty_terminal,
        ready |-> ready_q, blocked |-> blocked_q]

Requeue_AnyReason(s, p, open) ==
  IF s.ticks[p] > 0
  THEN [s EXCEPT !.ticks[p] = @ - 1, !.blocked = Append(@, p)]
  ELSE [s EXCEPT !.code[p] = NOT_BLOCKED, !.ready = Append(@, p)]

\* queue_add(CheckBlocked(pcb), pcb, pcb->pid).  Adding to the NULL queue
\* that CheckBlocked returns for a closed terminal does nothing.
Requeue(s, p, open) ==
  IF s.code[p] = BLOCKED_DELAY
  THEN IF s.ticks[p] > 0
       THEN [s EXCEPT !.ticks[p] = @ - 1, !.blocked = Append(@, p)]
       ELSE [s EXCEPT !.code[p] = NOT_BLOCKED, !.ready = Append(@, p)]
  ELSE IF s.code[p] = BLOCKED_TTY_TRANSMIT
  THEN IF s.term[p] \in open
       THEN [s EXCEPT !.code[p] = NOT_BLOCKED, !.term[p] = 0, !.ready = Append(@, p)]
       ELSE s
  ELSE [s EXCEPT !.blocked = Append(@, p)]

\* The loop of TrapClockHandler: every entry of blocked_q once.
Scanned(open) ==
  LET s[i \in 0 .. Len(blocked_q)] ==
        IF i = 0 THEN [Now EXCEPT !.blocked = <<>>]
                 ELSE Requeue(s[i - 1], blocked_q[i], open)
  IN  s[Len(blocked_q)]

ScanBlocked(open) ==
  LET s == Scanned(open)
  IN  /\ blocked_code' = s.code /\ clock_ticks' = s.ticks
      /\ tty_terminal' = s.term
      /\ ready_q' = s.ready /\ blocked_q' = s.blocked

\* TrapClockHandler up to the switch, when it returns at once because there
\* is nothing to switch to, and after the switch.
TrapClock ==
  /\ UserMode
  /\ ~NothingToRun
  /\ SwapToReady("clock")
  /\ UNCHANGED <<blocked_q, blocked_code, clock_ticks, tty_terminal>>

TrapClockIdle(open) ==
  /\ UserMode
  /\ NothingToRun
  /\ ScanBlocked(open)
  /\ UNCHANGED <<activePCB, pc>>

ResumeClock(open) ==
  /\ ContinuesAt("clock")
  /\ ScanBlocked(open)
  /\ ToUser
  /\ UNCHANGED activePCB

\* A new process, or one whose Delay has ended, runs user code.
ResumeUser ==
  /\ ContinuesAt("start") \/ ContinuesAt("delay")
  /\ ToUser
  /\ UNCHANGED <<activePCB, ready_q, blocked_q, blocked_code, clock_ticks,
                 tty_terminal>>

KernelDelay(n) ==
  /\ UserProgram
  /\ n > 0
  /\ clock_ticks' = [clock_ticks EXCEPT ![activePCB] = n]
  /\ blocked_code' = [blocked_code EXCEPT ![activePCB] = BLOCKED_DELAY]
  /\ blocked_q' = Joined(blocked_q)
  /\ SwapProcess(ready_q, "delay")
  /\ UNCHANGED tty_terminal

Delay == \E n \in 0 .. MaxDelay : KernelDelay(n)

=============================================================================
