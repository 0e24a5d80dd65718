-------------------------------- MODULE Tty ---------------------------------
(***************************************************************************)
(* Terminals: TtyRead and TtyWrite (syscalls.c) and the traps of a         *)
(* terminal that has received a line or finished a transmission            *)
(* (traphandlers.c), on top of the scheduler of module Sched.              *)
(*                                                                         *)
(* A process blocked on a terminal is only in that terminal's queue, never *)
(* in blocked_q.  The hardware (an external library) is the variable busy: *)
(* a terminal transmits from TtyTransmit until it interrupts.              *)
(***************************************************************************)
EXTENDS Sched

CONSTANTS
  Terminals,    \* the terminals in use, out of 0 .. 3
  TERMINAL_MAX_LINE,
  Lines,        \* what a user may type: sequences of bytes, NL at the end
  NL,           \* the newline byte
  ReadLens,     \* the lengths given to TtyRead
  WriteLens,    \* the lengths given to TtyWrite
  MaxInput,     \* bound: how many bytes are typed at each terminal
  MaxWrites     \* bound: how often TtyWrite is called

ASSUME TtyAssumption ==
  /\ Terminals \subseteq 0 .. 3
  /\ TERMINAL_MAX_LINE \in Nat \ {0}
  /\ \A l \in Lines : l \in Seq(Elems(l)) /\ Len(l) \in 1 .. TERMINAL_MAX_LINE
  /\ ReadLens \cup WriteLens \subseteq Nat \ {0}
  /\ MaxInput \in Nat /\ MaxWrites \in Nat

VARIABLES
  ttyReadQueues, ttyWriteQueues,
  ttyReadbuffers,    \* the bytes counted by ttyReadTrackers
  ttyWriteTrackers,  \* TRUE for TERMINAL_OPEN
  call,              \* the arguments and locals of the call a process is in
  busy,              \* hardware: the terminal is transmitting
  last,              \* history: who called TtyTransmit last
  typed, given,      \* history: bytes put into and taken out of the buffer
  writes             \* history: how many calls of TtyWrite there were

readside  == <<ttyReadQueues, ttyReadbuffers, typed, given>>
writeside == <<ttyWriteQueues, ttyWriteTrackers, busy, last, writes>>
vars == <<sched, readside, writeside, call>>

NoCall == [tty |-> 0, len |-> 0, bytes_left |-> 0, bytes_written |-> 0]

TypeOK ==
  /\ SchedTypeOK({"ttyread", "ttywrite"})
  /\ ttyReadQueues \in [Terminals -> Seq(Proc)]
  /\ ttyWriteQueues \in [Terminals -> Seq(Proc)]
  /\ \A t \in Terminals : Len(ttyReadbuffers[t]) <= TERMINAL_MAX_LINE
  /\ ttyWriteTrackers \in [Terminals -> BOOLEAN]
  /\ call \in [PCB -> [tty : 0 .. 3, len : Nat, bytes_left : Nat,
                         bytes_written : Nat]]
  /\ busy \in [Terminals -> BOOLEAN]
  /\ last \in [Terminals -> PCB]
  /\ writes \in 0 .. MaxWrites

\* SetUpGlobals
Init ==
  /\ SchedInit
  /\ ttyReadQueues = [t \in Terminals |-> <<>>]
  /\ ttyWriteQueues = [t \in Terminals |-> <<>>]
  /\ ttyReadbuffers = [t \in Terminals |-> <<>>]
  /\ ttyWriteTrackers = [t \in Terminals |-> TRUE]
  /\ call = [p \in PCB |-> NoCall]
  /\ busy = [t \in Terminals |-> FALSE]
  /\ last = [t \in Terminals |-> idle]
  /\ typed = [t \in Terminals |-> <<>>]
  /\ given = [t \in Terminals |-> <<>>]
  /\ writes = 0

Open == {t \in Terminals : ttyWriteTrackers[t]}

\* The running process is blocked on terminal t for this reason.
BlockedOn(t, code) ==
  /\ blocked_code' = [blocked_code EXCEPT ![activePCB] = code]
  /\ tty_terminal' = [tty_terminal EXCEPT ![activePCB] = t]

\* A process at the head of q is made ready; the queue keeps it.
WakeHead(q) ==
  /\ blocked_code' = [blocked_code EXCEPT ![Head(q)] = NOT_BLOCKED]
  /\ ready_q' = Append(ready_q, Head(q))

\* The head of what is left of a queue, if any, is made ready.
WakeNext(q) ==
  IF q # <<>> THEN WakeHead(q) ELSE UNCHANGED <<blocked_code, ready_q>>

-----------------------------------------------------------------------------
(* Reading.                                                                *)

\* The bytes up to and with the first newline, or all of them.
FirstLine(buf) ==
  LET ends == {i \in DOMAIN buf : buf[i] = NL}
  IN  IF ends = {} THEN Len(buf) ELSE CHOOSE i \in ends : \A j \in ends : i <= j

\* KernelTtyRead: how many bytes it returns, and what stays in the buffer.
BytesNum(t, len) ==
  LET n == FirstLine(ttyReadbuffers[t]) IN IF n > len THEN len ELSE n

\* Mutant of Rest: the buffer is cleared.
Rest_Cleared(t, len) == <<>>

Rest(t, len) ==
  SubSeq(ttyReadbuffers[t], BytesNum(t, len) + 1, Len(ttyReadbuffers[t]))

\* KernelTtyRead once it does not, or no longer, wait.  The next reader is
\* looked at and not taken out of the queue.
TakeLine(t, len) ==
  /\ ttyReadbuffers' = [ttyReadbuffers EXCEPT ![t] = Rest(t, len)]
  /\ given' = [given EXCEPT ![t] = @ \o SubSeq(ttyReadbuffers[t], 1, BytesNum(t, len))]
  /\ WakeNext(IF Rest(t, len) = <<>> THEN <<>> ELSE ttyReadQueues[t])
  /\ UNCHANGED <<activePCB, blocked_q, clock_ticks, tty_terminal,
                 ttyReadQueues, typed, writeside>>

\* Some process waits already, or there is nothing to read.
MustWait(t) == ttyReadQueues[t] # <<>> \/ ttyReadbuffers[t] = <<>>

KernelTtyReadNow(t, len) ==
  /\ UserProgram
  /\ ~MustWait(t)
  /\ TakeLine(t, len)
  /\ UNCHANGED <<pc, call>>

KernelTtyReadBlock(t, len) ==
  /\ UserProgram
  /\ MustWait(t)
  /\ BlockedOn(t, BLOCKED_TTY_READ)
  /\ ttyReadQueues' = [ttyReadQueues EXCEPT ![t] = Joined(@)]
  /\ SwapProcess(ready_q, "ttyread")
  /\ call' = [call EXCEPT ![activePCB] = [NoCall EXCEPT !.tty = t, !.len = len]]
  /\ UNCHANGED <<blocked_q, clock_ticks, ttyReadbuffers, typed, given, writeside>>

\* The process that was woken goes on without a second look at MustWait.
ResumeTtyRead ==
  LET c == call[activePCB]
  IN
  /\ ContinuesAt("ttyread")
  /\ TakeLine(c.tty, c.len)
  /\ ToUser
  /\ call' = [call EXCEPT ![activePCB] = NoCall]

\* The part of the line for which the buffer has room.
Fitting(t, line) ==
  LET room == TERMINAL_MAX_LINE - Len(ttyReadbuffers[t])
  IN  SubSeq(line, 1, IF room < Len(line) THEN room ELSE Len(line))

\* TrapTTYReceiveHandler: what does not fit is lost, and the first reader is
\* taken out of the queue.
TrapTTYReceive(t, line) ==
  /\ UserMode
  /\ Len(typed[t]) + Len(line) <= MaxInput
  /\ ttyReadbuffers' = [ttyReadbuffers EXCEPT ![t] = @ \o Fitting(t, line)]
  /\ typed' = [typed EXCEPT ![t] = @ \o Fitting(t, line)]
  /\ WakeNext(ttyReadQueues[t])
  /\ ttyReadQueues' = [ttyReadQueues EXCEPT ![t] = AfterPop(@)]
  /\ UNCHANGED <<activePCB, blocked_q, clock_ticks, tty_terminal, pc, call,
                 given, writeside>>

-----------------------------------------------------------------------------
(* Writing.  wq is the terminal's queue, with the running process in it.   *)

\* The process keeps its place in wq and waits for the transmission.
AwaitTransmit(t, left, written, wq) ==
  /\ BlockedOn(t, BLOCKED_TTY_TRANSMIT)
  /\ SwapProcess(ready_q, "ttywrite")
  /\ call' = [call EXCEPT ![activePCB] = [NoCall EXCEPT !.tty = t,
                             !.bytes_left = left, !.bytes_written = written]]
  /\ ttyWriteQueues' = [ttyWriteQueues EXCEPT ![t] = wq]

\* TtyTransmit and the lines before it.
Transmit(t) ==
  /\ ttyWriteTrackers' = [ttyWriteTrackers EXCEPT ![t] = FALSE]
  /\ busy' = [busy EXCEPT ![t] = TRUE]
  /\ last' = [last EXCEPT ![t] = activePCB]

\* After the last TtyTransmit: the head of the queue is removed and the next
\* one is woken.
FinishWrite(t, wq) ==
  /\ ttyWriteQueues' = [ttyWriteQueues EXCEPT ![t] = AfterPop(wq)]
  /\ WakeNext(AfterPop(wq))
  /\ ToUser
  /\ call' = [call EXCEPT ![activePCB] = NoCall]
  /\ UNCHANGED <<activePCB, tty_terminal>>

\* The loop of KernelTtyWrite from here to the next SwapProcess or the end.
WriteLoop(t, left, written, wq) ==
  /\ \/ /\ ~ttyWriteTrackers[t]
        /\ AwaitTransmit(t, left, written, wq)
        /\ UNCHANGED <<ttyWriteTrackers, busy, last>>
     \/ /\ ttyWriteTrackers[t]
        /\ Transmit(t)
        /\ IF left > TERMINAL_MAX_LINE
           THEN AwaitTransmit(t, left - TERMINAL_MAX_LINE,
                              written + TERMINAL_MAX_LINE, wq)
           ELSE FinishWrite(t, wq)
  /\ UNCHANGED <<blocked_q, clock_ticks, readside>>

\* Mutant of MyTurn: a process that finds the terminal open need not wait.
MyTurn_Open(t) == ttyWriteTrackers[t] \/ Head(Joined(ttyWriteQueues[t])) = activePCB

\* The running process, added to the queue, is at its head.
MyTurn(t) == Head(Joined(ttyWriteQueues[t])) = activePCB

\* The call is counted, for the bound on calls.
CountWrite == writes < MaxWrites /\ writes' = writes + 1

KernelTtyWriteFirst(t, len) ==
  /\ UserProgram
  /\ CountWrite
  /\ MyTurn(t)
  /\ WriteLoop(t, len, 0, Joined(ttyWriteQueues[t]))

KernelTtyWriteBlock(t, len) ==
  /\ UserProgram
  /\ CountWrite
  /\ ~MyTurn(t)
  /\ BlockedOn(t, BLOCKED_TTY_WRITE)
  /\ ttyWriteQueues' = [ttyWriteQueues EXCEPT ![t] = Joined(@)]
  /\ SwapProcess(ready_q, "ttywrite")
  /\ call' = [call EXCEPT ![activePCB] = [NoCall EXCEPT !.tty = t,
                                          !.bytes_left = len]]
  /\ UNCHANGED <<blocked_q, clock_ticks, ttyWriteTrackers, busy, last, readside>>

\* Back from either SwapProcess: only the terminal's state is tested again.
ResumeTtyWrite ==
  LET c == call[activePCB]
  IN  /\ ContinuesAt("ttywrite")
      /\ WriteLoop(c.tty, c.bytes_left, c.bytes_written,
                   ttyWriteQueues[c.tty])
      /\ UNCHANGED writes

\* Mutant of AfterTransmit: the writer is not woken.
AfterTransmit_Silent(t) == Now

\* PCB fields and queues after the head of the write queue was woken.
AfterTransmit(t) ==
  LET q == ttyWriteQueues[t]
  IN  IF q # <<>> /\ Head(q) # activePCB
      THEN Requeue(Now, Head(q), Open \cup {t}) ELSE Now

\* TrapTTYTransmitHandler.
TrapTTYTransmit(t) ==
  LET s == AfterTransmit(t)
  IN
  /\ UserMode
  /\ busy[t]
  /\ busy' = [busy EXCEPT ![t] = FALSE]
  /\ ttyWriteTrackers' = [ttyWriteTrackers EXCEPT ![t] = TRUE]
  /\ blocked_code' = s.code /\ clock_ticks' = s.ticks /\ tty_terminal' = s.term
  /\ ready_q' = s.ready /\ blocked_q' = s.blocked
  /\ UNCHANGED <<activePCB, pc, call, ttyWriteQueues, last, writes, readside>>

-----------------------------------------------------------------------------

TtyRead == \E t \in Terminals, len \in ReadLens :
             KernelTtyReadNow(t, len) \/ KernelTtyReadBlock(t, len)
TtyWrite == \E t \in Terminals, len \in WriteLens :
              KernelTtyWriteFirst(t, len) \/ KernelTtyWriteBlock(t, len)
Receive  == \E t \in Terminals, line \in Lines : TrapTTYReceive(t, line)
Transmitted == \E t \in Terminals : TrapTTYTransmit(t)

Clock == TrapClock \/ TrapClockIdle(Open)
Resume == ResumeUser \/ ResumeClock(Open)

Next ==
  \/ (Clock \/ Delay \/ Resume) /\ UNCHANGED <<readside, writeside, call>>
  \/ TtyRead \/ ResumeTtyRead \/ Receive
  \/ TtyWrite \/ ResumeTtyWrite \/ Transmitted

Spec == Init /\ [][Next]_vars

\* Handlers run to their end, the clock ticks, and a terminal that transmits
\* interrupts: interrupts wait while the kernel runs, hence SF.
Fairness ==
  /\ WF_vars(Resume /\ UNCHANGED <<readside, writeside, call>>)
  /\ WF_vars(ResumeTtyRead) /\ WF_vars(ResumeTtyWrite)
  /\ SF_vars(Clock /\ UNCHANGED <<readside, writeside, call>>)
  /\ \A t \in Terminals : SF_vars(TrapTTYTransmit(t))

FairSpec == Spec /\ Fairness

-----------------------------------------------------------------------------
(* Properties.                                                             *)

\* What TtyRead hands out is what was typed and fitted into the line buffer,
\* byte by byte, in order and once, whichever process reads it and however
\* the reads that waited and those that did not follow each other.
Stream == INSTANCE ByteStream WITH Streams <- Terminals,
            Capacity <- TERMINAL_MAX_LINE, accepted <- typed, delivered <- given

ReadIsStream == Stream!Spec

\* Nobody reads, or there are two processes and a read leaves nothing of a
\* line.  Then no reader is left in the queue when TakeLine looks at it.
\* Otherwise it is made ready and stays there, and is woken again out of
\* whatever it waits for next.
WholeLines ==
  \/ ReadLens = {}
  \/ /\ NProc <= 2
     /\ \A line \in Lines : FirstLine(line) = Len(line)
     /\ \A line \in Lines, len \in ReadLens : Len(line) <= len

\* One call of TtyWrite is one run of transmissions on its terminal: between
\* two chunks of it no other process transmits, although the writer leaves
\* the CPU for each of them and tests only the terminal when it comes back
\* (while no reader is woken twice).
WriteNotInterleaved ==
  WholeLines => \A p \in Proc : pc[p] = "ttywrite" /\ call[p].bytes_written > 0 =>
                  last[call[p].tty] = p

\* While no reader is left behind: no process waits for the CPU twice, or
\* while it has it, or while it is queued to read (syscalls.c:516, "move next
\* reader (if any) to the ready queue").
ScheduledOnce ==
  /\ TypeOK
  /\ WholeLines =>
       /\ NoDup(ready_q) /\ activePCB \notin Elems(ready_q)
       /\ \A t \in Terminals :
            Elems(ttyReadQueues[t]) \cap ({activePCB} \cup Elems(ready_q)) = {}

\* While no reader is left behind, every TtyWrite returns.  A process that is
\* still in the read queue may be woken out of its own TtyWrite by the next
\* line, transmit out of its turn, and take the writer that waits for the
\* terminal off the write queue (syscalls.c:608): nothing wakes that one.
WriteReturns ==
  WholeLines => \A p \in Proc : pc[p] = "ttywrite" ~> pc[p] = "user"

=============================================================================
