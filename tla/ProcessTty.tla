----------------------------- MODULE ProcessTty -----------------------------
(***************************************************************************)
(* Processes that read from a terminal: module Process composed with the   *)
(* reading half of a terminal (syscalls.c, traphandlers.c).                *)
(*                                                                         *)
(* A process blocked in TtyRead is only in the terminal's queue, which the *)
(* loops of KernelExit do not look at.  Of the terminal's buffer the model *)
(* keeps how many bytes are in it; where the newlines are and how much the *)
(* caller asks for is left open, so a read takes any part of them.         *)
(*                                                                         *)
(* A read that leaves bytes behind makes the next reader ready and leaves  *)
(* it in the terminal's queue.  From then on a process may be in several   *)
(* queues, or twice in one, and may even be freed while it is queued;      *)
(* module Process, where a process is once in a queue, does not describe   *)
(* that.  So this model ends there: peeked is set and nothing follows      *)
(* (module Tty goes on, without births and deaths).                        *)
(***************************************************************************)
EXTENDS Process

CONSTANTS
  TERMINAL_MAX_LINE,
  MaxLines           \* bound: how many lines are typed

ASSUME TerminalAssumption ==
  TERMINAL_MAX_LINE \in Nat \ {0} /\ MaxLines \in Nat

BLOCKED_TTY_READ == 3

VARIABLES
  ttyReadQueue,   \* processes in TtyRead
  bytes,          \* ttyReadTrackers: bytes in the terminal's buffer
  typed,          \* history: how many lines were typed
  missed,         \* history: who exited while its parent was in TtyRead
  peeked          \* history: a reader was made ready and left in the queue

tty     == <<ttyReadQueue, bytes, typed, peeked>>
allvars == <<vars, tty, missed>>

InitTty ==
  /\ Init
  /\ ttyReadQueue = <<>> /\ bytes = 0 /\ typed = 0
  /\ missed = {} /\ peeked = FALSE

\* Mutant of MustWait: the test of the buffer is the wrong way round.
MustWait_Full == ttyReadQueue # <<>> \/ bytes > 0

\* Some process waits already, or there is nothing to read.
MustWait == ttyReadQueue # <<>> \/ bytes = 0

\* A reader takes what is there, up to a newline or the length it asked for.
TakeBytes ==
  IF bytes = 0 THEN bytes' = 0
               ELSE \E n \in 1 .. bytes : bytes' = bytes - n

\* What is left is for the next reader, which stays in the queue.
WakeNext ==
  IF ttyReadQueue # <<>> /\ bytes' > 0
  THEN /\ ready_q' = Append(ready_q, Head(ttyReadQueue))
       /\ blocked_code' = [blocked_code EXCEPT ![Head(ttyReadQueue)] = NOT_BLOCKED]
       /\ peeked' = TRUE
  ELSE UNCHANGED <<ready_q, blocked_code, peeked>>

\* KernelTtyRead once it does not, or no longer, wait.
FinishRead ==
  /\ TakeBytes
  /\ WakeNext
  /\ UNCHANGED <<activePCB, blocked_q, defunct_q, ppid, num_children,
                 clock_ticks, exit_code, life, nextpid, crashed,
                 ttyReadQueue, typed, missed>>

KernelTtyReadNow ==
  /\ UserProgram
  /\ ~MustWait
  /\ FinishRead
  /\ UNCHANGED pc

KernelTtyReadBlock ==
  /\ UserProgram
  /\ MustWait
  /\ blocked_code' = [blocked_code EXCEPT ![activePCB] = BLOCKED_TTY_READ]
  /\ ttyReadQueue' = Append(ttyReadQueue, activePCB)
  /\ SwapProcess("none", ready_q, blocked_q, defunct_q)
  /\ SaveContext("ttyread")
  /\ UNCHANGED <<ppid, num_children, clock_ticks, exit_code, life, nextpid,
                 crashed, bytes, typed, missed, peeked>>

\* The process that was woken goes on without a second look at MustWait.
ResumeTtyRead ==
  /\ ContinuesAt("ttyread")
  /\ FinishRead
  /\ pc' = [pc EXCEPT ![activePCB] = "user"]

\* A line of this length comes in; what does not fit is lost.
PutLine(length) ==
  LET room == TERMINAL_MAX_LINE - bytes
  IN  bytes' = bytes + (IF room < length THEN room ELSE length)

\* TrapTTYReceiveHandler: the first reader is taken out of the queue.
TrapTTYReceive ==
  /\ UserMode
  /\ typed < MaxLines
  /\ \E length \in 1 .. TERMINAL_MAX_LINE : PutLine(length)
  /\ typed' = typed + 1
  /\ ready_q' = ready_q \o PopSeq(ttyReadQueue)
  /\ ttyReadQueue' = AfterPop(ttyReadQueue)
  /\ blocked_code' = [p \in Pid |-> IF p \in Elems(PopSeq(ttyReadQueue))
                                    THEN NOT_BLOCKED ELSE blocked_code[p]]
  /\ UNCHANGED <<activePCB, blocked_q, defunct_q, ppid, num_children,
                 clock_ticks, exit_code, pc, life, nextpid, crashed, missed,
                 peeked>>

\* A step of module Process, which does not know the terminal's queue.
ProcessStep ==
  /\ Next
  /\ missed' = missed \cup {p \in Pid :
                   /\ life[p] = "live" /\ life'[p] = "freed"
                   /\ ppid[p] \in Elems(ttyReadQueue)}
  /\ UNCHANGED tty

NextTty ==
  \/ /\ ~peeked
     /\ \/ ProcessStep
        \/ KernelTtyReadNow \/ KernelTtyReadBlock \/ ResumeTtyRead
        \/ TrapTTYReceive
  \/ peeked /\ UNCHANGED allvars

SpecTty == InitTty /\ [][NextTty]_allvars

-----------------------------------------------------------------------------
(* Properties.  They hold until a reader is made ready that stays in the   *)
(* terminal's queue, and no longer: three readers and two lines, or a read *)
(* shorter than its line, bring that about.                                *)

\* Until a reader is woken and left in the queue (syscalls.c:516): with a
\* queue that neither the clock nor KernelExit knows, a live process still is
\* in one place only, it runs, or is once in ready_q, blocked_q or the
\* terminal's queue.
LiveInOnePlace ==
  LET all == <<activePCB>> \o ready_q \o blocked_q \o ttyReadQueue
      live == {p \in Pid : life[p] = "live"}
  IN  ~peeked => /\ Elems(all) \cup {idle} = live
                 /\ \A i, j \in DOMAIN all : all[i] = all[j] => i = j

\* Until a reader is woken and left in the queue (syscalls.c:516): while
\* processes wait in TtyRead beside bytes to read, some process that was
\* woken for them has yet to run, also when lines are typed ahead and when
\* others read what a reader was woken for.  (A reader left in the queue is
\* later woken once more in place of one that really waits.)
LineHasReader ==
  ~peeked /\ ttyReadQueue # <<>> /\ bytes > 0 =>
    \E p \in {activePCB} \cup Elems(ready_q) : pc[p] = "ttyread"

\* Until a reader is woken and left in the queue (syscalls.c:516): the loops
\* of KernelExit (syscalls.c:147) do not find a parent in TtyRead, so its
\* num_children counts, besides the children that Wait can still be told
\* about, exactly those that exited while it was reading, and no other.
CountedOrMissed ==
  ~peeked => \A p \in Pid \ {idle} : life[p] = "live" =>
    num_children[p] = Cardinality(Brood(p) \cup {c \in missed : ppid[c] = p})
=============================================================================
