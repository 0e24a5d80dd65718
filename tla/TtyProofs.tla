----------------------------- MODULE TtyProofs ------------------------------
(***************************************************************************)
(* Terminals, for every number of processes and terminals, every size of   *)
(* the line buffer, all lines and all lengths of reads and writes: every   *)
(* variable keeps its type, and reading is a stream of bytes although a    *)
(* reader may be woken twice and another process may take its line.        *)
(* Where no reader is woken twice, no process is ready twice and no two    *)
(* writes to a terminal are mixed.                                         *)
(***************************************************************************)
EXTENDS Tty, SchedProofs

\* The bytes that users type.
Byte == UNION {Elems(l) : l \in Lines}

\* The saved arguments and locals of a call.
Calls == [tty : 0 .. 3, len : Nat, bytes_left : Nat, bytes_written : Nat]

Contexts == {"ttyread", "ttywrite"}

\* A process inside a call is at a terminal that exists.
Calling == \A p \in PCB : pc[p] \in Contexts => call[p].tty \in Terminals

\* A line buffer holds what was typed and not yet handed out.
Buffered ==
  /\ ttyReadbuffers \in [Terminals -> Seq(Byte)]
  /\ typed \in [Terminals -> Seq(Byte)] /\ given \in [Terminals -> Seq(Byte)]
  /\ \A t \in Terminals : typed[t] = given[t] \o ttyReadbuffers[t]

\* The inductive invariant.
StreamInv == TypeOK /\ Calling /\ Buffered

\* The lines are sequences of bytes.
LEMMA LineType ==
  ASSUME NEW line \in Lines
  PROVE  line \in Seq(Byte) /\ Len(line) \in 1 .. TERMINAL_MAX_LINE
<1>1. line \in Seq(Elems(line)) /\ Len(line) \in 1 .. TERMINAL_MAX_LINE
  BY TtyAssumption
<1>2. Elems(line) \subseteq Byte
  BY DEF Byte
<1>3. Len(line) \in Nat /\ line = [i \in 1 .. Len(line) |-> line[i]]
  BY <1>1
<1>4. \A i \in 1 .. Len(line) : line[i] \in Byte
  BY <1>1, <1>2 DEF Elems
<1> QED
  BY <1>1, <1>3, <1>4

\* Terminal numbers are numbers of the PCB field.
LEMMA TerminalNumbers == Terminals \subseteq 0 .. 3
  BY TtyAssumption

-----------------------------------------------------------------------------
(* Types.                                                                  *)

\* Waking.
LEMMA WakeNextType ==
  ASSUME TypeOK, NEW q \in Seq(Proc), WakeNext(q)
  PROVE  blocked_code' \in [PCB -> BlockedCodes] /\ ready_q' \in Seq(Proc)
<1> USE DEF TypeOK, SchedTypeOK
<1>1. CASE q = <<>>
  BY <1>1 DEF WakeNext
<1>2. CASE q # <<>>
  <2> DEFINE h == Head(q)
  <2>1. h \in Proc
    BY <1>2
  <2>2. NOT_BLOCKED \in BlockedCodes
    BY DEF BlockedCodes
  <2>3. blocked_code' = [blocked_code EXCEPT ![h] = NOT_BLOCKED]
        /\ ready_q' = Append(ready_q, h)
    BY <1>2 DEF WakeNext, WakeHead
  <2> HIDE DEF h
  <2>4. Append(ready_q, h) \in Seq(Proc)
    BY <2>1
  <2>5. [blocked_code EXCEPT ![h] = NOT_BLOCKED] \in [PCB -> BlockedCodes]
    BY <2>2
  <2> QED
    BY <2>3, <2>4, <2>5
<1> QED
  BY <1>1, <1>2

\* Blocking: the process has left the CPU.
LEMMA BlockType ==
  ASSUME TypeOK, NEW t \in Terminals, NEW code \in BlockedCodes, NEW where \in Contexts,
         BlockedOn(t, code), SwapProcess(ready_q, where),
         blocked_q' = blocked_q, clock_ticks' = clock_ticks
  PROVE  SchedTypeOK(Contexts)'
<1> USE DEF TypeOK, SchedTypeOK
<1>1. PopOr(ready_q, idle) \in PCB /\ AfterPop(ready_q) \in Seq(Proc)
  BY PopNext
<1>2. t \in 0 .. 3
  BY TerminalNumbers
<1>3. /\ blocked_code' \in [PCB -> BlockedCodes] /\ tty_terminal' \in [PCB -> 0 .. 3]
  BY <1>2 DEF BlockedOn
<1>4. pc' \in [PCB -> {"user", "start", "clock", "delay"} \cup Contexts]
  BY DEF SwapProcess, Contexts
<1> QED
  BY <1>1, <1>3, <1>4 DEF SwapProcess

\* The calls that are saved.
LEMMA SavedCalls ==
  /\ NoCall \in Calls
  /\ \A t \in Terminals, n \in Nat : [NoCall EXCEPT !.tty = t, !.len = n] \in Calls
  /\ \A t \in Terminals, n \in Nat : [NoCall EXCEPT !.tty = t, !.bytes_left = n] \in Calls
  /\ \A t \in Terminals, m, n \in Nat :
       [NoCall EXCEPT !.tty = t, !.bytes_left = m, !.bytes_written = n] \in Calls
<1>1. \A t \in Terminals : t \in 0 .. 3
  BY TerminalNumbers
<1>2. 0 \in Nat /\ 0 \in 0 .. 3
  OBVIOUS
<1>3. NoCall \in Calls
  BY <1>2 DEF NoCall, Calls
<1>4. \A t \in Terminals, n \in Nat : [NoCall EXCEPT !.tty = t, !.len = n] \in Calls
  BY <1>1, <1>2 DEF NoCall, Calls
<1>5. \A t \in Terminals, n \in Nat : [NoCall EXCEPT !.tty = t, !.bytes_left = n] \in Calls
  BY <1>1, <1>2 DEF NoCall, Calls
<1>6. \A t \in Terminals, m, n \in Nat :
        [NoCall EXCEPT !.tty = t, !.bytes_left = m, !.bytes_written = n] \in Calls
  BY <1>1, <1>2 DEF NoCall, Calls
<1> QED
  BY <1>3, <1>4, <1>5, <1>6

\* The lengths of calls.
LEMMA LengthTypes == ReadLens \subseteq Nat /\ WriteLens \subseteq Nat
  BY TtyAssumption

-----------------------------------------------------------------------------
(* The buffer.                                                             *)

\* A read returns some of the bytes in the buffer.
LEMMA LineTaken ==
  ASSUME Buffered, NEW t \in Terminals, NEW len \in Nat
  PROVE  BytesNum(t, len) \in 0 .. Len(ttyReadbuffers[t])
<1> DEFINE b == ttyReadbuffers[t]
           n == FirstLine(b)
           ends == {i \in DOMAIN b : b[i] = NL}
<1>1. b \in Seq(Byte) /\ Len(b) \in Nat
  BY DEF Buffered
<1>2. n \in 0 .. Len(b)
  <2>1. CASE ends = {}
    <3>1. n = Len(b)
      BY <2>1 DEF FirstLine
    <3> QED
      BY <1>1, <3>1
  <2>2. CASE ends # {}
    <3>1. ends = Kept(b, {NL})
      BY DEF Kept
    <3>2. n = FirstIn(b, {NL})
      BY <2>2, <3>1 DEF FirstLine, FirstIn
    <3>3. Elems(b) \cap {NL} # {}
      BY <2>2 DEF Elems
    <3>4. FirstIn(b, {NL}) \in 1 .. Len(b)
      BY <1>1, <3>3, FirstInLeast
    <3> HIDE DEF n, b
    <3> QED
      BY <1>1, <3>2, <3>4
  <2> QED
    BY <2>1, <2>2
<1>3. BytesNum(t, len) = IF n > len THEN len ELSE n
  BY DEF BytesNum
<1> HIDE DEF n, b
<1>4. BytesNum(t, len) \in 0 .. Len(b)
  BY <1>1, <1>2, <1>3
<1> QED
  BY <1>4 DEF b

\* What it returns, and what is left.
LEMMA TakenBytes ==
  ASSUME Buffered, NEW t \in Terminals, NEW len \in Nat
  PROVE  LET b == ttyReadbuffers[t]
             f == SubSeq(b, 1, BytesNum(t, len))
         IN  /\ f \in Seq(Byte) /\ Len(f) = BytesNum(t, len)
             /\ Rest(t, len) \in Seq(Byte) /\ Len(Rest(t, len)) <= Len(b)
             /\ b = f \o Rest(t, len)
<1> DEFINE b == ttyReadbuffers[t]
           k == BytesNum(t, len)
           f == SubSeq(b, 1, k)
           r == SubSeq(b, k + 1, Len(b))
<1>1. b \in Seq(Byte) /\ k \in 0 .. Len(b) /\ Len(b) \in Nat
  <2>1. b \in Seq(Byte) /\ Len(b) \in Nat
    BY DEF Buffered
  <2>2. k \in 0 .. Len(b)
    BY LineTaken
  <2> QED
    BY <2>1, <2>2
<1>2. r = Rest(t, len)
  BY DEF Rest
<1> HIDE DEF k, b
<1>3. /\ f \in Seq(Byte) /\ Len(f) = k
      /\ r \in Seq(Byte) /\ Len(r) = Len(b) - k
      /\ b = f \o r
  BY <1>1, SplitAt
<1>4. Len(b) - k <= Len(b)
  BY <1>1
<1> QED
  BY <1>2, <1>3, <1>4 DEF b, k

\* What a line adds: it fits.
LEMMA FittingBytes ==
  ASSUME TypeOK, Buffered, NEW t \in Terminals, NEW line \in Lines
  PROVE  /\ Fitting(t, line) \in Seq(Byte)
         /\ Len(ttyReadbuffers[t] \o Fitting(t, line)) <= TERMINAL_MAX_LINE
<1> DEFINE b == ttyReadbuffers[t]
           room == TERMINAL_MAX_LINE - Len(b)
           k == IF room < Len(line) THEN room ELSE Len(line)
           f == SubSeq(line, 1, k)
<1>1. /\ b \in Seq(Byte) /\ Len(b) \in Nat /\ Len(b) <= TERMINAL_MAX_LINE
      /\ TERMINAL_MAX_LINE \in Nat /\ line \in Seq(Byte) /\ Len(line) \in Nat
  BY LineType, TtyAssumption DEF Buffered, TypeOK
<1>2. Fitting(t, line) = f
  BY DEF Fitting
<1> HIDE DEF b
<1>3. k \in 0 .. Len(line) /\ k + Len(b) <= TERMINAL_MAX_LINE
  BY <1>1
<1> HIDE DEF k
<1>4. f \in Seq(Byte) /\ Len(f) = k
  BY <1>1, <1>3, SplitAt
<1> HIDE DEF f
<1>5. Len(b \o f) = Len(b) + Len(f)
  BY <1>1, <1>4, ConcatProperties
<1>6. Len(b \o f) <= TERMINAL_MAX_LINE
  BY <1>1, <1>3, <1>4, <1>5
<1> QED
  BY <1>2, <1>4, <1>6 DEF b

-----------------------------------------------------------------------------
(* Every step keeps the types, and who is in a call is at a terminal.      *)

LEMMA SchedKeeps ==
  ASSUME StreamInv, Clock \/ Delay \/ Resume, UNCHANGED <<readside, writeside, call>>
  PROVE  TypeOK' /\ Calling'
<1>1. SchedStep(Open)
  BY DEF SchedStep, Clock, Resume
<1>2. SchedTypeOK(Contexts)
  BY DEF StreamInv, TypeOK, Contexts
<1>3. SchedTypeOK(Contexts)'
  BY <1>1, <1>2, SchedStepType
<1>4. /\ pc'[activePCB] \in {"user", "start", "clock", "delay"}
      /\ \A p \in PCB : p # activePCB => pc'[p] = pc[p]
  BY <1>1, <1>2, SchedStepContext
<1>5. TypeOK'
  BY <1>3 DEF StreamInv, TypeOK, Contexts, readside, writeside
<1>6. Calling'
  BY <1>4 DEF StreamInv, Calling, Contexts
<1> QED
  BY <1>5, <1>6

\* KernelTtyRead, the part that takes a line.
LEMMA TakeKeeps ==
  ASSUME StreamInv, NEW t \in Terminals, NEW len \in Nat, TakeLine(t, len),
         \/ UNCHANGED <<pc, call>>
         \/ ToUser /\ call' = [call EXCEPT ![activePCB] = NoCall]
  PROVE  TypeOK' /\ Calling'
<1> USE DEF StreamInv
<1>1. blocked_code' \in [PCB -> BlockedCodes] /\ ready_q' \in Seq(Proc)
  <2> DEFINE q == IF Rest(t, len) = <<>> THEN <<>> ELSE ttyReadQueues[t]
  <2>1. q \in Seq(Proc)
    <3>1. <<>> \in Seq(Proc) /\ ttyReadQueues[t] \in Seq(Proc)
      BY DEF TypeOK
    <3> QED
      BY <3>1
  <2>2. WakeNext(q)
    BY DEF TakeLine
  <2> HIDE DEF q
  <2> QED
    BY <2>1, <2>2, WakeNextType
<1>2. SchedTypeOK(Contexts)'
  <2>1. /\ pc' \in [PCB -> {"user", "start", "clock", "delay"} \cup Contexts]
        /\ UNCHANGED <<activePCB, blocked_q, clock_ticks, tty_terminal>>
    BY DEF TypeOK, SchedTypeOK, Contexts, ToUser, TakeLine
  <2> QED
    BY <1>1, <2>1 DEF TypeOK, SchedTypeOK
<1>3. call' \in [PCB -> Calls]
  BY SavedCalls DEF TypeOK, Calls
<1>4. \A u \in Terminals : Len(ttyReadbuffers'[u]) <= TERMINAL_MAX_LINE
  <2> TAKE u \in Terminals
  <2>1. /\ Len(Rest(t, len)) <= Len(ttyReadbuffers[t])
        /\ Rest(t, len) \in Seq(Byte) /\ ttyReadbuffers[t] \in Seq(Byte)
    BY TakenBytes DEF Buffered
  <2>2. /\ Len(Rest(t, len)) \in Nat /\ Len(ttyReadbuffers[t]) \in Nat
        /\ TERMINAL_MAX_LINE \in Nat /\ Len(ttyReadbuffers[t]) <= TERMINAL_MAX_LINE
    BY <2>1, TtyAssumption DEF TypeOK
  <2>3. Len(Rest(t, len)) <= TERMINAL_MAX_LINE
    BY <2>1, <2>2
  <2>4. ttyReadbuffers' = [ttyReadbuffers EXCEPT ![t] = Rest(t, len)]
    BY DEF TakeLine
  <2>5. ttyReadbuffers'[u] = IF u = t THEN Rest(t, len) ELSE ttyReadbuffers[u]
    BY <2>4 DEF Buffered
  <2> QED
    BY <2>3, <2>5 DEF TypeOK
<1>5. TypeOK'
  BY <1>2, <1>3, <1>4 DEF TypeOK, Contexts, Calls, TakeLine, writeside
<1>6. Calling'
  <2>1. CASE UNCHANGED <<pc, call>>
    BY <2>1 DEF Calling
  <2>2. CASE ToUser /\ call' = [call EXCEPT ![activePCB] = NoCall]
    BY <2>2 DEF Calling, Contexts, ToUser, TypeOK, SchedTypeOK
  <2> QED
    BY <2>1, <2>2
<1> QED
  BY <1>5, <1>6

\* A process that blocks saves its call.
LEMMA BlockKeepsCalling ==
  ASSUME StreamInv, NEW c \in Calls, c.tty \in Terminals, NEW where \in Contexts,
         SwapProcess(ready_q, where), call' = [call EXCEPT ![activePCB] = c]
  PROVE  Calling' /\ call' \in [PCB -> Calls]
<1>1. /\ activePCB \in PCB /\ call \in [PCB -> Calls]
      /\ pc \in [PCB -> {"user", "start", "clock", "delay"} \cup Contexts]
  BY DEF StreamInv, TypeOK, SchedTypeOK, Calls, Contexts
<1>2. \A p \in PCB : p # activePCB => call'[p] = call[p] /\ pc'[p] = pc[p]
  BY <1>1 DEF SwapProcess
<1>3. call'[activePCB] = c
  BY <1>1
<1>4. Calling'
  BY <1>2, <1>3 DEF StreamInv, Calling
<1> QED
  BY <1>1, <1>4

LEMMA ReadBlockKeeps ==
  ASSUME StreamInv, NEW t \in Terminals, NEW len \in ReadLens, KernelTtyReadBlock(t, len)
  PROVE  TypeOK' /\ Calling'
<1> USE DEF StreamInv
<1> DEFINE c == [NoCall EXCEPT !.tty = t, !.len = len]
<1>1. c \in Calls /\ c.tty = t
  BY SavedCalls, LengthTypes DEF NoCall
<1>2. "ttyread" \in Contexts /\ BLOCKED_TTY_READ \in BlockedCodes
  BY DEF Contexts, BlockedCodes, BLOCKED_TTY_READ
<1>3. /\ BlockedOn(t, BLOCKED_TTY_READ) /\ SwapProcess(ready_q, "ttyread")
      /\ call' = [call EXCEPT ![activePCB] = c]
      /\ ttyReadQueues' = [ttyReadQueues EXCEPT ![t] = Joined(@)]
      /\ UNCHANGED <<blocked_q, clock_ticks, ttyReadbuffers, typed, given, writeside>>
  BY DEF KernelTtyReadBlock
<1> HIDE DEF c
<1>4. SchedTypeOK(Contexts)'
  BY <1>2, <1>3, BlockType
<1>5. Calling' /\ call' \in [PCB -> Calls]
  BY <1>1, <1>2, <1>3, BlockKeepsCalling
<1>6. Joined(ttyReadQueues[t]) \in Seq(Proc)
  BY JoinQueue DEF TypeOK, SchedTypeOK
<1>7. ttyReadQueues' \in [Terminals -> Seq(Proc)]
  BY <1>3, <1>6 DEF TypeOK
<1> QED
  BY <1>3, <1>4, <1>5, <1>7 DEF TypeOK, Contexts, Calls, writeside

LEMMA ReceiveKeeps ==
  ASSUME StreamInv, NEW t \in Terminals, NEW line \in Lines, TrapTTYReceive(t, line)
  PROVE  TypeOK' /\ Calling'
<1> USE DEF StreamInv
<1>1. ttyReadQueues[t] \in Seq(Proc) /\ AfterPop(ttyReadQueues[t]) \in Seq(Proc)
  BY PopNext DEF TypeOK
<1>2. blocked_code' \in [PCB -> BlockedCodes] /\ ready_q' \in Seq(Proc)
  BY <1>1, WakeNextType DEF TrapTTYReceive
<1>3. ttyReadQueues' \in [Terminals -> Seq(Proc)]
  BY <1>1 DEF TrapTTYReceive, TypeOK
<1>4. \A u \in Terminals : Len(ttyReadbuffers'[u]) <= TERMINAL_MAX_LINE
  <2> TAKE u \in Terminals
  <2> DEFINE b == ttyReadbuffers[t] \o Fitting(t, line)
  <2>1. Len(b) <= TERMINAL_MAX_LINE
    BY FittingBytes
  <2>2. ttyReadbuffers' = [ttyReadbuffers EXCEPT ![t] = b]
    BY DEF TrapTTYReceive
  <2> HIDE DEF b
  <2>3. ttyReadbuffers'[u] = IF u = t THEN b ELSE ttyReadbuffers[u]
    BY <2>2 DEF Buffered
  <2> QED
    BY <2>1, <2>3 DEF TypeOK
<1>5. UNCHANGED <<activePCB, blocked_q, clock_ticks, tty_terminal, pc, call, writeside>>
  BY DEF TrapTTYReceive
<1> QED
  BY <1>2, <1>3, <1>4, <1>5 DEF TypeOK, SchedTypeOK, Calling, writeside

\* KernelTtyWrite, from entering or resuming the loop to the next switch.
LEMMA WriteLoopKeeps ==
  ASSUME StreamInv, NEW t \in Terminals, NEW left \in Nat, NEW written \in Nat,
         NEW wq \in Seq(Proc), WriteLoop(t, left, written, wq), writes' \in 0 .. MaxWrites
  PROVE  TypeOK' /\ Calling'
<1> USE DEF StreamInv
<1>0. UNCHANGED <<blocked_q, clock_ticks, ttyReadQueues, ttyReadbuffers>>
  BY DEF WriteLoop, readside
<1>1. ASSUME NEW m \in Nat, NEW n \in Nat, AwaitTransmit(t, m, n, wq)
      PROVE  /\ SchedTypeOK(Contexts)' /\ Calling' /\ call' \in [PCB -> Calls]
             /\ ttyWriteQueues' \in [Terminals -> Seq(Proc)]
  <2> DEFINE c == [NoCall EXCEPT !.tty = t, !.bytes_left = m, !.bytes_written = n]
  <2>1. c \in Calls /\ c.tty = t
    BY SavedCalls DEF NoCall
  <2>2. "ttywrite" \in Contexts /\ BLOCKED_TTY_TRANSMIT \in BlockedCodes
    BY DEF Contexts, BlockedCodes, BLOCKED_TTY_TRANSMIT
  <2>3. /\ BlockedOn(t, BLOCKED_TTY_TRANSMIT) /\ SwapProcess(ready_q, "ttywrite")
        /\ call' = [call EXCEPT ![activePCB] = c]
        /\ ttyWriteQueues' = [ttyWriteQueues EXCEPT ![t] = wq]
    BY <1>1 DEF AwaitTransmit
  <2> HIDE DEF c
  <2>4. SchedTypeOK(Contexts)'
    BY <1>0, <2>2, <2>3, BlockType
  <2>5. Calling' /\ call' \in [PCB -> Calls]
    BY <2>1, <2>2, <2>3, BlockKeepsCalling
  <2> QED
    BY <2>3, <2>4, <2>5 DEF TypeOK
<1>2. ASSUME FinishWrite(t, wq)
      PROVE  /\ SchedTypeOK(Contexts)' /\ Calling' /\ call' \in [PCB -> Calls]
             /\ ttyWriteQueues' \in [Terminals -> Seq(Proc)]
  <2>1. AfterPop(wq) \in Seq(Proc)
    BY PopNext
  <2>2. blocked_code' \in [PCB -> BlockedCodes] /\ ready_q' \in Seq(Proc)
    BY <1>2, <2>1, WakeNextType DEF FinishWrite
  <2>3. /\ pc' = [pc EXCEPT ![activePCB] = "user"]
        /\ call' = [call EXCEPT ![activePCB] = NoCall]
        /\ ttyWriteQueues' = [ttyWriteQueues EXCEPT ![t] = AfterPop(wq)]
        /\ UNCHANGED <<activePCB, tty_terminal>>
    BY <1>2 DEF FinishWrite, ToUser
  <2>4. SchedTypeOK(Contexts)'
    BY <1>0, <2>2, <2>3 DEF TypeOK, SchedTypeOK, Contexts
  <2>5. Calling'
    BY <2>3 DEF Calling, Contexts, TypeOK, SchedTypeOK
  <2>6. call' \in [PCB -> Calls]
    BY <2>3, SavedCalls DEF TypeOK, Calls
  <2> QED
    BY <2>1, <2>3, <2>4, <2>5, <2>6 DEF TypeOK
<1>3. /\ SchedTypeOK(Contexts)' /\ Calling' /\ call' \in [PCB -> Calls]
      /\ ttyWriteQueues' \in [Terminals -> Seq(Proc)]
  <2>1. CASE AwaitTransmit(t, left, written, wq)
    BY <1>1, <2>1
  <2>2. CASE left > TERMINAL_MAX_LINE
             /\ AwaitTransmit(t, left - TERMINAL_MAX_LINE, written + TERMINAL_MAX_LINE, wq)
    <3>1. left - TERMINAL_MAX_LINE \in Nat /\ written + TERMINAL_MAX_LINE \in Nat
      BY <2>2, TtyAssumption
    <3> QED
      BY <1>1, <2>2, <3>1
  <2>3. CASE FinishWrite(t, wq)
    BY <1>2, <2>3
  <2> QED
    BY <2>1, <2>2, <2>3 DEF WriteLoop
<1>4. /\ ttyWriteTrackers' \in [Terminals -> BOOLEAN] /\ busy' \in [Terminals -> BOOLEAN]
      /\ last' \in [Terminals -> PCB]
  BY ZenonT(40) DEF WriteLoop, Transmit, TypeOK, SchedTypeOK
<1> QED
  BY <1>0, <1>3, <1>4 DEF TypeOK, Contexts, Calls

LEMMA WriteBlockKeeps ==
  ASSUME StreamInv, NEW t \in Terminals, NEW len \in WriteLens, KernelTtyWriteBlock(t, len)
  PROVE  TypeOK' /\ Calling'
<1> USE DEF StreamInv
<1> DEFINE c == [NoCall EXCEPT !.tty = t, !.bytes_left = len]
<1>1. c \in Calls /\ c.tty = t
  BY SavedCalls, LengthTypes DEF NoCall
<1>2. "ttywrite" \in Contexts /\ BLOCKED_TTY_WRITE \in BlockedCodes
  BY DEF Contexts, BlockedCodes, BLOCKED_TTY_WRITE
<1>3. /\ BlockedOn(t, BLOCKED_TTY_WRITE) /\ SwapProcess(ready_q, "ttywrite")
      /\ call' = [call EXCEPT ![activePCB] = c]
      /\ ttyWriteQueues' = [ttyWriteQueues EXCEPT ![t] = Joined(@)]
      /\ UNCHANGED <<blocked_q, clock_ticks, ttyWriteTrackers, busy, last, readside>>
      /\ CountWrite
  BY DEF KernelTtyWriteBlock
<1> HIDE DEF c
<1>4. SchedTypeOK(Contexts)'
  BY <1>2, <1>3, BlockType
<1>5. Calling' /\ call' \in [PCB -> Calls]
  BY <1>1, <1>2, <1>3, BlockKeepsCalling
<1>6. Joined(ttyWriteQueues[t]) \in Seq(Proc)
  BY JoinQueue DEF TypeOK, SchedTypeOK
<1>7. ttyWriteQueues' \in [Terminals -> Seq(Proc)]
  BY <1>3, <1>6 DEF TypeOK
<1>8. writes' \in 0 .. MaxWrites
  BY <1>3, TtyAssumption DEF CountWrite, TypeOK
<1> QED
  BY <1>3, <1>4, <1>5, <1>7, <1>8 DEF TypeOK, Contexts, Calls, readside

LEMMA TransmittedKeeps ==
  ASSUME StreamInv, NEW t \in Terminals, TrapTTYTransmit(t)
  PROVE  TypeOK' /\ Calling'
<1> USE DEF StreamInv
<1> DEFINE s == AfterTransmit(t)
           q == ttyWriteQueues[t]
<1>1. Now \in States
  BY NowTyped DEF TypeOK
<1>2. s \in States
  <2>1. q \in Seq(Proc)
    BY DEF TypeOK
  <2> HIDE DEF q
  <2>2. q # <<>> => Head(q) \in Proc
    BY <2>1
  <2>3. q # <<>> => Requeue(Now, Head(q), Open \cup {t}) \in States
    BY <1>1, <2>2, RequeueType
  <2>4. s = IF q # <<>> /\ Head(q) # activePCB
            THEN Requeue(Now, Head(q), Open \cup {t}) ELSE Now
    BY DEF AfterTransmit, q
  <2> HIDE DEF s
  <2> QED
    BY <1>1, <2>3, <2>4
<1> HIDE DEF s
<1>3. /\ blocked_code' = s.code /\ clock_ticks' = s.ticks /\ tty_terminal' = s.term
      /\ ready_q' = s.ready /\ blocked_q' = s.blocked
      /\ busy' = [busy EXCEPT ![t] = FALSE]
      /\ ttyWriteTrackers' = [ttyWriteTrackers EXCEPT ![t] = TRUE]
      /\ UNCHANGED <<activePCB, pc, call, ttyWriteQueues, last, writes, readside>>
  BY DEF TrapTTYTransmit, s
<1>4. SchedTypeOK(Contexts)'
  BY <1>2, <1>3 DEF States, TypeOK, SchedTypeOK, Contexts
<1>5. Calling'
  BY <1>3 DEF Calling
<1> QED
  BY <1>3, <1>4, <1>5 DEF TypeOK, Contexts, readside

-----------------------------------------------------------------------------
(* The stream.                                                             *)

\* Taking a line moves the first bytes from the buffer to those handed out.
LEMMA TakeBuffered ==
  ASSUME Buffered, NEW t \in Terminals, NEW len \in Nat, TakeLine(t, len)
  PROVE  Buffered'
<1> DEFINE f == SubSeq(ttyReadbuffers[t], 1, BytesNum(t, len))
           r == Rest(t, len)
           g == given[t]
<1>1. /\ f \in Seq(Byte) /\ r \in Seq(Byte) /\ g \in Seq(Byte)
      /\ ttyReadbuffers[t] = f \o r /\ typed[t] = g \o ttyReadbuffers[t]
  BY TakenBytes DEF Buffered
<1>2. /\ ttyReadbuffers' = [ttyReadbuffers EXCEPT ![t] = r]
      /\ given' = [given EXCEPT ![t] = g \o f]
      /\ typed' = typed
  BY DEF TakeLine
<1> HIDE DEF f, r, g
<1>3. g \o f \in Seq(Byte)
  BY <1>1, ConcatProperties
<1>4. (g \o f) \o r = typed[t]
  <2>1. (g \o f) \o r = g \o (f \o r)
    BY <1>1, ConcatAssociative, SMTT(40)
  <2> QED
    BY <1>1, <2>1
<1> QED
  BY <1>1, <1>2, <1>3, <1>4 DEF Buffered

\* A line that arrives is added at the end of both.
LEMMA ReceiveBuffered ==
  ASSUME TypeOK, Buffered, NEW t \in Terminals, NEW line \in Lines, TrapTTYReceive(t, line)
  PROVE  Buffered'
<1> DEFINE n == Fitting(t, line)
           g == given[t]
           b == ttyReadbuffers[t]
<1>1. n \in Seq(Byte) /\ g \in Seq(Byte) /\ b \in Seq(Byte) /\ typed[t] = g \o b
  BY FittingBytes DEF Buffered
<1>2. /\ ttyReadbuffers' = [ttyReadbuffers EXCEPT ![t] = b \o n]
      /\ typed' = [typed EXCEPT ![t] = (g \o b) \o n]
      /\ given' = given
  BY <1>1 DEF TrapTTYReceive
<1> HIDE DEF n, g, b
<1>3. b \o n \in Seq(Byte) /\ g \o b \in Seq(Byte)
  BY <1>1, ConcatProperties
<1>4. (g \o b) \o n \in Seq(Byte)
  BY <1>1, <1>3, ConcatProperties
<1>5. (g \o b) \o n = g \o (b \o n)
  BY <1>1, ConcatAssociative, SMTT(40)
<1> QED
  BY <1>1, <1>2, <1>3, <1>4, <1>5 DEF Buffered, g

\* What a step does to the stream: a read, a line that arrives, or nothing.
TakesLine == \E t \in Terminals, len \in Nat : TakeLine(t, len)
Quiet == UNCHANGED <<ttyReadbuffers, typed, given>>

LEMMA StepKinds ==
  ASSUME StreamInv, [Next]_vars
  PROVE  TakesLine \/ Receive \/ Quiet
<1> USE DEF StreamInv
<1>1. CASE TtyRead
  <2>1. PICK t \in Terminals, len \in ReadLens :
          KernelTtyReadNow(t, len) \/ KernelTtyReadBlock(t, len)
    BY <1>1 DEF TtyRead
  <2>2. len \in Nat
    BY LengthTypes
  <2> QED
    BY <2>1, <2>2 DEF KernelTtyReadNow, KernelTtyReadBlock, TakesLine, Quiet
<1>2. CASE ResumeTtyRead
  <2> DEFINE c == call[activePCB]
  <2>1. c.tty \in Terminals /\ c.len \in Nat
    BY <1>2 DEF ResumeTtyRead, ContinuesAt, Calling, Contexts, TypeOK, SchedTypeOK
  <2> QED
    BY <1>2, <2>1 DEF ResumeTtyRead, TakesLine
<1>3. CASE UNCHANGED readside
  BY <1>3 DEF readside, Quiet
<1>4. CASE Transmitted \/ ResumeTtyWrite \/ TtyWrite
  BY <1>3, <1>4 DEF Transmitted, TrapTTYTransmit, ResumeTtyWrite, WriteLoop,
     TtyWrite, KernelTtyWriteFirst, KernelTtyWriteBlock
<1> QED
  BY <1>1, <1>2, <1>3, <1>4 DEF Next, vars

\* Terminals: every variable keeps its type, a process in a call is at a
\* terminal that exists, and a line buffer holds exactly the bytes that were
\* typed and not yet handed out, in order.
THEOREM StreamInvariant == Spec => []StreamInv
<1>1. Init => StreamInv
  <2> SUFFICES ASSUME Init
               PROVE  StreamInv
    OBVIOUS
  <2>1. SchedTypeOK(Contexts)
    <3>1. ready_q \in Seq(Proc) /\ blocked_q \in Seq(Proc)
      BY NProcAssumption DEF Init, SchedInit, Proc
    <3> QED
      BY <3>1, MaxDelayAssumption DEF Init, SchedInit, SchedTypeOK, PCB, idle,
         BlockedCodes, NOT_BLOCKED, Contexts
  <2>2. call \in [PCB -> Calls]
    BY SavedCalls DEF Init
  <2>3. Buffered
    <3>1. <<>> \in Seq(Byte) /\ <<>> \o <<>> = <<>>
      BY ConcatEmptySeq
    <3> QED
      BY <3>1 DEF Init, Buffered
  <2>4. \A t \in Terminals : Len(ttyReadbuffers[t]) <= TERMINAL_MAX_LINE
    <3>1. Len(<<>>) = 0 /\ TERMINAL_MAX_LINE \in Nat
      BY TtyAssumption
    <3> QED
      BY <3>1 DEF Init
  <2>5. /\ ttyReadQueues \in [Terminals -> Seq(Proc)] /\ ttyWriteQueues \in [Terminals -> Seq(Proc)]
        /\ ttyWriteTrackers \in [Terminals -> BOOLEAN] /\ busy \in [Terminals -> BOOLEAN]
        /\ last \in [Terminals -> PCB] /\ writes \in 0 .. MaxWrites
    BY TtyAssumption DEF Init, PCB
  <2>6. Calling
    BY DEF Init, SchedInit, Calling, Contexts
  <2> QED
    BY <2>1, <2>2, <2>3, <2>4, <2>5, <2>6 DEF StreamInv, TypeOK, Contexts, Calls
<1>2. StreamInv /\ [Next]_vars => StreamInv'
  <2> SUFFICES ASSUME StreamInv, [Next]_vars
               PROVE  StreamInv'
    OBVIOUS
  <2>1. Buffered'
    <3>1. CASE TakesLine
      BY <3>1, TakeBuffered DEF TakesLine, StreamInv
    <3>2. CASE Receive
      BY <3>2, ReceiveBuffered DEF Receive, StreamInv
    <3>3. CASE Quiet
      BY <3>3 DEF Quiet, StreamInv, Buffered
    <3> QED
      BY <3>1, <3>2, <3>3, StepKinds
  <2>2. TypeOK' /\ Calling'
    <3>1. CASE (Clock \/ Delay \/ Resume) /\ UNCHANGED <<readside, writeside, call>>
      BY <3>1, SchedKeeps
    <3>2. CASE TtyRead
      <4>1. PICK t \in Terminals, len \in ReadLens :
              KernelTtyReadNow(t, len) \/ KernelTtyReadBlock(t, len)
        BY <3>2 DEF TtyRead
      <4>2. CASE KernelTtyReadNow(t, len)
        BY <4>2, LengthTypes, TakeKeeps DEF KernelTtyReadNow
      <4>3. CASE KernelTtyReadBlock(t, len)
        BY <4>3, ReadBlockKeeps
      <4> QED
        BY <4>1, <4>2, <4>3
    <3>3. CASE ResumeTtyRead
      <4> DEFINE c == call[activePCB]
      <4>1. c.tty \in Terminals /\ c.len \in Nat
        BY <3>3 DEF ResumeTtyRead, ContinuesAt, StreamInv, Calling, Contexts, TypeOK, SchedTypeOK
      <4>2. TakeLine(c.tty, c.len) /\ ToUser /\ call' = [call EXCEPT ![activePCB] = NoCall]
        BY <3>3 DEF ResumeTtyRead
      <4> HIDE DEF c
      <4> QED
        BY <4>1, <4>2, TakeKeeps
    <3>4. CASE Receive
      BY <3>4, ReceiveKeeps DEF Receive
    <3>5. CASE TtyWrite
      <4>1. PICK t \in Terminals, len \in WriteLens :
              KernelTtyWriteFirst(t, len) \/ KernelTtyWriteBlock(t, len)
        BY <3>5 DEF TtyWrite
      <4>2. CASE KernelTtyWriteFirst(t, len)
        <5> DEFINE wq == Joined(ttyWriteQueues[t])
        <5>1. wq \in Seq(Proc)
          BY JoinQueue DEF StreamInv, TypeOK, SchedTypeOK
        <5>2. WriteLoop(t, len, 0, wq) /\ CountWrite
          BY <4>2 DEF KernelTtyWriteFirst
        <5>3. len \in Nat /\ 0 \in Nat /\ writes' \in 0 .. MaxWrites
          BY <5>2, LengthTypes, TtyAssumption DEF CountWrite, StreamInv, TypeOK
        <5> HIDE DEF wq
        <5> QED
          BY <5>1, <5>2, <5>3, WriteLoopKeeps
      <4>3. CASE KernelTtyWriteBlock(t, len)
        BY <4>3, WriteBlockKeeps
      <4> QED
        BY <4>1, <4>2, <4>3
    <3>6. CASE ResumeTtyWrite
      <4> DEFINE c == call[activePCB]
                 wq == ttyWriteQueues[c.tty]
      <4>1. c.tty \in Terminals /\ c.bytes_left \in Nat /\ c.bytes_written \in Nat
        BY <3>6 DEF ResumeTtyWrite, ContinuesAt, StreamInv, Calling, Contexts, TypeOK, SchedTypeOK
      <4>2. wq \in Seq(Proc) /\ writes' \in 0 .. MaxWrites
        BY <3>6, <4>1 DEF ResumeTtyWrite, StreamInv, TypeOK
      <4>3. WriteLoop(c.tty, c.bytes_left, c.bytes_written, wq)
        BY <3>6 DEF ResumeTtyWrite
      <4> HIDE DEF c, wq
      <4> QED
        BY <4>1, <4>2, <4>3, WriteLoopKeeps
    <3>7. CASE Transmitted
      BY <3>7, TransmittedKeeps DEF Transmitted
    <3>8. CASE UNCHANGED vars
      BY <3>8 DEF vars, sched, readside, writeside, StreamInv, TypeOK, SchedTypeOK, Calling
    <3> QED
      BY <3>1, <3>2, <3>3, <3>4, <3>5, <3>6, <3>7, <3>8 DEF Next
  <2> QED
    BY <2>1, <2>2 DEF StreamInv
<1> QED
  BY <1>1, <1>2, PTL DEF Spec

-----------------------------------------------------------------------------
(* Reading implements ByteStream.                                          *)

\* A read delivers the oldest bytes, or nothing when the buffer is empty.
LEMMA ReadDelivers ==
  ASSUME Buffered, NEW t \in Terminals, NEW len \in Nat, TakeLine(t, len)
  PROVE  Stream!Deliver(t) \/ UNCHANGED <<typed, given>>
<1> DEFINE k == BytesNum(t, len)
           b == ttyReadbuffers[t]
           f == SubSeq(b, 1, k)
           r == Rest(t, len)
           g == given[t]
           a == typed[t]
           gf == g \o f
<1>1. /\ f \in Seq(Byte) /\ r \in Seq(Byte) /\ g \in Seq(Byte) /\ b \in Seq(Byte)
      /\ Len(f) = k /\ b = f \o r /\ a = g \o b
  BY TakenBytes DEF Buffered
<1>2. k \in 0 .. Len(b)
  BY LineTaken
<1>3. given' = [given EXCEPT ![t] = gf] /\ typed' = typed
  BY DEF TakeLine
<1> HIDE DEF k, f, r, b
<1>4. CASE k = 0
  <2>1. f = <<>>
    BY <1>1, <1>4, EmptySeq
  <2>2. gf = g
    BY <1>1, <2>1, ConcatEmptySeq
  <2> QED
    BY <1>3, <2>2 DEF Buffered
<1>5. CASE k # 0
  <2>1. Len(g) + k = Len(gf) /\ gf \in Seq(Byte)
    BY <1>1, ConcatProperties
  <2>2. a = gf \o r
    <3>1. (g \o f) \o r = g \o (f \o r)
      <4> HIDE DEF g, a, gf
      <4> QED
        BY <1>1, Regroup, SMTT(40)
    <3> QED
      BY <1>1, <3>1, Zenon
  <2> HIDE DEF gf, a, g
  <2>3. SubSeq(gf \o r, 1, Len(gf)) = gf
    BY <1>1, <2>1, FirstPart
  <2>4. SubSeq(a, 1, Len(g) + k) = gf
    BY <2>1, <2>2, <2>3
  <2>5. k \in 1 .. Len(a) - Len(g)
    <3>1. Len(a) = Len(g) + Len(b)
      BY <1>1, ConcatProperties
    <3>2. Len(g) \in Nat /\ Len(b) \in Nat
      BY <1>1
    <3> QED
      BY <1>2, <1>5, <3>1, <3>2
  <2>6. given' = [given EXCEPT ![t] = SubSeq(typed[t], 1, Len(@) + k)]
    BY <1>3, <2>4 DEF a, g
  <2> QED
    BY <1>3, <2>5, <2>6 DEF Stream!Deliver, Stream!InTransit, a, g
<1> QED
  BY <1>4, <1>5

\* A line that arrives is accepted as far as there is room.
LEMMA ReceiveAccepts ==
  ASSUME TypeOK, Buffered, TypeOK', Buffered', NEW t \in Terminals, NEW line \in Lines,
         TrapTTYReceive(t, line)
  PROVE  Stream!Accept(t) \/ UNCHANGED <<typed, given>>
<1> DEFINE n == Fitting(t, line)
           a == typed[t]
<1>1. /\ n \in Seq(Byte) /\ a \in Seq(Byte)
      /\ typed \in [Terminals -> Seq(Byte)] /\ given \in [Terminals -> Seq(Byte)]
  BY FittingBytes DEF Buffered
<1>2. typed' = [typed EXCEPT ![t] = a \o n] /\ given' = given
  BY DEF TrapTTYReceive
<1> HIDE DEF n
<1>3. CASE n = <<>>
  <2>1. a \o n = a
    BY <1>1, <1>3, ConcatEmptySeq
  <2> QED
    BY <1>1, <1>2, <2>1
<1>4. CASE n # <<>>
  <2>1. typed'[t] = a \o n
    BY <1>1, <1>2
  <2>2. typed' = [typed EXCEPT ![t] = typed'[t]]
    BY <1>2, <2>1
  <2>3. Len(a \o n) = Len(a) + Len(n)
    BY <1>1, ConcatProperties
  <2>4. Len(a) \in Nat /\ Len(n) \in Nat /\ Len(n) # 0
    BY <1>1, <1>4, EmptySeq
  <2>5. Len(typed'[t]) > Len(typed[t])
    BY <2>1, <2>3, <2>4
  <2>6. SubSeq(typed'[t], 1, Len(typed[t])) = typed[t]
    BY <1>1, <2>1, FirstPart
  <2>7. Len(typed'[t]) - Len(given'[t]) <= TERMINAL_MAX_LINE
    <3> DEFINE b == ttyReadbuffers'[t]
               g == given'[t]
    <3>1. b \in Seq(Byte) /\ g \in Seq(Byte) /\ typed'[t] = g \o b
      BY DEF Buffered
    <3>2. Len(b) <= TERMINAL_MAX_LINE
      BY DEF TypeOK
    <3> HIDE DEF b, g
    <3>3. Len(g \o b) = Len(g) + Len(b)
      BY <3>1, ConcatProperties
    <3>4. Len(g) \in Nat /\ Len(b) \in Nat /\ TERMINAL_MAX_LINE \in Nat
      BY <3>1, TtyAssumption
    <3>5. Len(g \o b) - Len(g) <= TERMINAL_MAX_LINE
      BY <3>2, <3>3, <3>4
    <3> QED
      BY <3>1, <3>5 DEF g
  <2> QED
    BY <1>2, <2>2, <2>5, <2>6, <2>7 DEF Stream!Accept, Stream!InTransit
<1> QED
  BY <1>3, <1>4

\* TrapTTYReceiveHandler and KernelTtyRead make of every terminal a stream of
\* bytes: what is read is what was typed and fitted into the line buffer, in
\* order, nothing lost and nothing twice, never more than TERMINAL_MAX_LINE in
\* between, whoever reads, for every number of processes.
THEOREM ReadIsStreamCorrect == Spec => ReadIsStream
<1>1. Init => Stream!Init
  BY DEF Init, Stream!Init
<1>2. ASSUME StreamInv, StreamInv', [Next]_vars
      PROVE  [Stream!Next]_<<typed, given>>
  <2>1. CASE TakesLine
    BY <1>2, <2>1, ReadDelivers DEF TakesLine, Stream!Next, StreamInv
  <2>2. CASE Receive
    BY <1>2, <2>2, ReceiveAccepts DEF Receive, Stream!Next, StreamInv
  <2>3. CASE Quiet
    BY <2>3 DEF Quiet
  <2> QED
    BY <1>2, <2>1, <2>2, <2>3, StepKinds
<1> QED
  BY <1>1, <1>2, StreamInvariant, PTL DEF Spec, ReadIsStream, Stream!Spec

-----------------------------------------------------------------------------
(* Who is ready, who waits, and whose turn it is to write.                 *)

\* A process that has the CPU or waits for it is there once, and is not
\* blocked: every loop that makes a process ready goes by its blocked_code.
OnceReady ==
  /\ NoDup(ready_q) /\ activePCB \notin Elems(ready_q)
  /\ \A p \in Proc : p \in {activePCB} \cup Elems(ready_q) => blocked_code[p] = NOT_BLOCKED

Reader(p, t) == pc[p] = "ttyread" /\ call[p].tty = t
Writer(p, t) == pc[p] = "ttywrite" /\ call[p].tty = t

\* Who is queued to read is blocked for that.
Readers ==
  \A t \in Terminals :
    /\ NoDup(ttyReadQueues[t])
    /\ \A p \in Elems(ttyReadQueues[t]) :
         blocked_code[p] = BLOCKED_TTY_READ /\ Reader(p, t)

\* When somebody is queued to read although there is input, the input is one
\* line, and another reader was woken for it and has not run yet.
OneLine ==
  \A t \in Terminals : ttyReadQueues[t] # <<>> /\ ttyReadbuffers[t] # <<>> =>
    /\ ttyReadbuffers[t] \in Lines
    /\ \E p \in Proc \ Elems(ttyReadQueues[t]) : Reader(p, t)

\* The first writer in a queue is ready, or waits for its transmission; the
\* others are blocked and have written nothing.
WritersAt(t) ==
  LET W == ttyWriteQueues[t]
  IN  /\ NoDup(W) /\ \A p \in Elems(W) : Writer(p, t)
      /\ W # <<>> =>
           /\ blocked_code[Head(W)] \in {NOT_BLOCKED, BLOCKED_TTY_TRANSMIT}
           /\ \A p \in Elems(Tail(W)) :
                blocked_code[p] = BLOCKED_TTY_WRITE /\ call[p].bytes_written = 0

Writers == \A t \in Terminals : WritersAt(t)

\* A process in a call is not idle; a writer is queued, a reader has asked for
\* one of the lengths, and who has written a chunk was the last to transmit.
InCall ==
  /\ pc[idle] \notin Contexts
  /\ \A p \in Proc : pc[p] = "ttyread" => call[p].len \in ReadLens
  /\ \A p \in Proc : pc[p] = "ttywrite" =>
       /\ p \in Elems(ttyWriteQueues[call[p].tty])
       /\ call[p].bytes_written > 0 => last[call[p].tty] = p

Turns == OnceReady /\ Readers /\ OneLine /\ Writers /\ InCall

\* The inductive invariant, on top of StreamInv.
TurnInv == WholeLines => Turns

-----------------------------------------------------------------------------
(* The scheduler makes ready only who is blocked.                          *)

\* The ready queue of s has everybody once, and nobody who is blocked.
ReadyOnce(s) == NoDup(s.ready) /\ \A p \in Elems(s.ready) : s.code[p] = NOT_BLOCKED

\* From s to r only those in Delay or waiting for a transmission are woken.
WokenOnly(s, r) ==
  /\ \A q \in PCB : \/ r.code[q] = s.code[q]
                    \/ /\ s.code[q] \in {BLOCKED_DELAY, BLOCKED_TTY_TRANSMIT}
                       /\ r.code[q] = NOT_BLOCKED
  /\ \A q \in Elems(r.ready) :
       q \in Elems(s.ready) \/ s.code[q] \in {BLOCKED_DELAY, BLOCKED_TTY_TRANSMIT}

LEMMA RequeueReady ==
  ASSUME NEW s \in States, NEW p \in Proc, NEW open, ReadyOnce(s),
         NEW r, r = Requeue(s, p, open)
  PROVE  ReadyOnce(r) /\ WokenOnly(s, r)
<1>1. /\ s.ready \in Seq(Proc) /\ p \in PCB /\ s.code \in [PCB -> BlockedCodes]
      /\ Elems(s.ready) \subseteq Proc
  BY QueueHolds DEF States, PCB
<1>2. CASE r.code = s.code /\ r.ready = s.ready
  BY <1>2 DEF ReadyOnce, WokenOnly
<1>3. CASE /\ s.code[p] \in {BLOCKED_DELAY, BLOCKED_TTY_TRANSMIT}
           /\ r.code = [s.code EXCEPT ![p] = NOT_BLOCKED] /\ r.ready = Append(s.ready, p)
  <2>1. p \notin Elems(s.ready)
    BY <1>3 DEF ReadyOnce, NOT_BLOCKED, BLOCKED_DELAY, BLOCKED_TTY_TRANSMIT
  <2>2. Elems(r.ready) = Elems(s.ready) \cup {p} /\ NoDup(r.ready)
    BY <1>1, <1>3, <2>1, AppendQueue DEF ReadyOnce
  <2>3. r.code[p] = NOT_BLOCKED /\ \A q \in PCB : q # p => r.code[q] = s.code[q]
    BY <1>1, <1>3
  <2>4. \A q \in Elems(s.ready) : q \in PCB /\ q # p
    BY <1>1, <2>1 DEF PCB
  <2> QED
    BY <1>3, <2>2, <2>3, <2>4 DEF ReadyOnce, WokenOnly
<1> QED
  BY <1>2, <1>3 DEF Requeue, States

\* So does the scan of blocked_q, whatever is in it, and however often.
LEMMA ScanReady ==
  ASSUME Now \in States, NEW open, ReadyOnce(Now)
  PROVE  ReadyOnce(Scanned(open)) /\ WokenOnly(Now, Scanned(open))
<1> DEFINE n == Len(blocked_q)
           Good(s) == ReadyOnce(s) /\ WokenOnly(Now, s)
<1>1. PICK f \in [0 .. n -> States] :
         /\ f[0] = [Now EXCEPT !.blocked = <<>>]
         /\ \A i \in 1 .. n : f[i] = Requeue(f[i - 1], blocked_q[i], open)
         /\ Scanned(open) = f[n]
  BY ScanRuns
<1>2. blocked_q \in Seq(Proc) /\ n \in Nat /\ \A i \in 1 .. n : blocked_q[i] \in Proc
  BY DEF States, Now
<1>3. Good(f[0])
  <2>1. f[0].ready = Now.ready /\ f[0].code = Now.code
    BY <1>1 DEF Now
  <2> QED
    BY <2>1 DEF ReadyOnce, WokenOnly
<1>4. ASSUME NEW i \in 1 .. n, Good(f[i - 1])
      PROVE  Good(f[i])
  <2> DEFINE s == f[i - 1]
             r == f[i]
  <2>1. s \in States /\ r = Requeue(s, blocked_q[i], open) /\ blocked_q[i] \in Proc
    <3>1. i - 1 \in 0 .. n
      BY <1>2
    <3> QED
      BY <1>1, <1>2, <3>1
  <2>2. Good(s)
    BY <1>4
  <2> HIDE DEF s, r
  <2>3. ReadyOnce(r) /\ WokenOnly(s, r)
    BY <2>1, <2>2, RequeueReady
  <2>4. s.ready \in Seq(Proc) /\ r \in States
    BY <2>1, RequeueType DEF States
  <2>5. \A q \in Elems(s.ready) \cup Elems(r.ready) : q \in PCB
    BY <2>4, QueueHolds DEF States, PCB
  <2>6. NOT_BLOCKED \notin {BLOCKED_DELAY, BLOCKED_TTY_TRANSMIT}
    BY DEF NOT_BLOCKED, BLOCKED_DELAY, BLOCKED_TTY_TRANSMIT
  <2>7. WokenOnly(Now, r)
    <3>1. \A q \in PCB : \/ r.code[q] = Now.code[q]
                         \/ /\ Now.code[q] \in {BLOCKED_DELAY, BLOCKED_TTY_TRANSMIT}
                            /\ r.code[q] = NOT_BLOCKED
      BY <2>2, <2>3, <2>6 DEF WokenOnly
    <3>2. \A q \in Elems(r.ready) :
            q \in Elems(Now.ready) \/ Now.code[q] \in {BLOCKED_DELAY, BLOCKED_TTY_TRANSMIT}
      BY <2>2, <2>3, <2>5, <2>6 DEF WokenOnly
    <3> QED
      BY <3>1, <3>2 DEF WokenOnly
  <2> QED
    BY <2>3, <2>7 DEF r
<1> DEFINE I == {i \in 0 .. n : Good(f[i])}
<1> HIDE DEF Good
<1>5. 0 \in I /\ I \in SUBSET (0 .. n)
  BY <1>2, <1>3
<1>6. \A i \in 1 .. n : i - 1 \in I => i \in I
  BY <1>2, <1>4
<1> HIDE DEF I
<1>7. I = 0 .. n
  BY <1>2, <1>5, <1>6, UpTo
<1>8. Good(f[n])
  BY <1>2, <1>7 DEF I
<1> QED
  BY <1>1, <1>8 DEF Good

-----------------------------------------------------------------------------
(* How OnceReady is kept.                                                  *)

\* By a handler that requeues.
LEMMA RequeuedOnce ==
  ASSUME TypeOK, OnceReady, NEW s \in States, ReadyOnce(s), WokenOnly(Now, s),
         blocked_code' = s.code, ready_q' = s.ready, activePCB' = activePCB
  PROVE  OnceReady'
<1>1. activePCB \in PCB /\ Elems(ready_q') \subseteq Proc
  BY QueueHolds DEF TypeOK, SchedTypeOK, States
<1>2. Now.code = blocked_code /\ Now.ready = ready_q
  BY DEF Now
<1>3. activePCB \in Proc => blocked_code[activePCB] = NOT_BLOCKED
  BY DEF OnceReady
<1>4. activePCB \notin Elems(ready_q')
  BY <1>1, <1>2, <1>3 DEF WokenOnly, OnceReady, NOT_BLOCKED, BLOCKED_DELAY, BLOCKED_TTY_TRANSMIT
<1>5. activePCB \in Proc => blocked_code'[activePCB] = NOT_BLOCKED
  BY <1>1, <1>2, <1>3 DEF WokenOnly
<1> QED
  BY <1>4, <1>5 DEF ReadyOnce, OnceReady

\* By a process that blocks itself.
LEMMA BlockedOnce ==
  ASSUME TypeOK, OnceReady, NEW where, SwapProcess(ready_q, where), NEW code,
         blocked_code' = [blocked_code EXCEPT ![activePCB] = code]
  PROVE  OnceReady'
<1> DEFINE a == PopOr(ready_q, idle)
           r == AfterPop(ready_q)
<1>0. ready_q \in Seq(Proc) /\ blocked_code \in [PCB -> BlockedCodes] /\ Proc \subseteq PCB
  BY DEF TypeOK, SchedTypeOK, PCB
<1>1. /\ Elems(ready_q) = (Elems(r) \cup {a}) \ {idle}
      /\ NoDup(r) /\ a \notin Elems(r) /\ Elems(r) \subseteq Elems(ready_q)
  BY <1>0, PopNext DEF OnceReady
<1>2. activePCB' = a /\ ready_q' = r
  BY DEF SwapProcess
<1> HIDE DEF a, r
<1>3. \A p \in Proc : p \in {a} \cup Elems(r) => p \in Elems(ready_q)
  BY <1>0, <1>1, QueueHolds
<1>4. \A p \in Proc : p \in Elems(ready_q) => blocked_code'[p] = NOT_BLOCKED
  BY <1>0 DEF OnceReady
<1> QED
  BY <1>1, <1>2, <1>3, <1>4 DEF OnceReady

\* By a handler that wakes somebody who is blocked.
LEMMA WokenOnce ==
  ASSUME TypeOK, OnceReady, NEW q \in Seq(Proc), WakeNext(q), activePCB' = activePCB,
         q # <<>> => blocked_code[Head(q)] # NOT_BLOCKED
  PROVE  OnceReady'
<1>1. CASE q = <<>>
  BY <1>1 DEF WakeNext, OnceReady
<1>2. CASE q # <<>>
  <2> DEFINE h == Head(q)
  <2>1. h \in Proc /\ blocked_code[h] # NOT_BLOCKED
    BY <1>2
  <2>2. /\ blocked_code' = [blocked_code EXCEPT ![h] = NOT_BLOCKED]
        /\ ready_q' = Append(ready_q, h)
    BY <1>2 DEF WakeNext, WakeHead
  <2> HIDE DEF h
  <2>3. /\ ready_q \in Seq(Proc) /\ blocked_code \in [PCB -> BlockedCodes]
        /\ Proc \subseteq PCB
    BY DEF TypeOK, SchedTypeOK, PCB
  <2>4. h \notin Elems(ready_q) /\ h # activePCB
    BY <2>1 DEF OnceReady
  <2>5. Elems(ready_q') = Elems(ready_q) \cup {h} /\ NoDup(ready_q')
    BY <2>1, <2>2, <2>3, <2>4, AppendQueue DEF OnceReady
  <2>6. \A p \in Proc : blocked_code'[p] = IF p = h THEN NOT_BLOCKED ELSE blocked_code[p]
    BY <2>2, <2>3
  <2> QED
    BY <2>4, <2>5, <2>6 DEF OnceReady
<1> QED
  BY <1>1, <1>2

\* By the scheduler itself.
LEMMA SchedReady ==
  ASSUME StreamInv, OnceReady, SchedStep(Open)
  PROVE  /\ OnceReady'
         /\ \A p \in PCB : \/ blocked_code'[p] = blocked_code[p]
                           \/ /\ blocked_code[p] \in {BLOCKED_DELAY, BLOCKED_TTY_TRANSMIT}
                              /\ blocked_code'[p] = NOT_BLOCKED
                           \/ p = activePCB
<1> USE DEF StreamInv
<1>0. /\ ready_q \in Seq(Proc) /\ activePCB \in PCB /\ Now \in States /\ Proc \subseteq PCB
      /\ blocked_code \in [PCB -> BlockedCodes]
  BY NowTyped DEF TypeOK, SchedTypeOK, PCB
<1>1. CASE TrapClock
  <2> DEFINE a == PopOr(ready_q, idle)
             r == AfterPop(ready_q)
  <2>1. /\ Elems(ready_q) = (Elems(r) \cup {a}) \ {idle} /\ r \in Seq(Proc)
        /\ NoDup(r) /\ a \notin Elems(r) /\ Elems(r) \subseteq Elems(ready_q)
    BY <1>0, PopNext DEF OnceReady
  <2>2. /\ activePCB' = a /\ ready_q' = Joined(r) /\ blocked_code' = blocked_code
        /\ ~(activePCB = idle /\ ready_q = <<>>)
    BY <1>1 DEF TrapClock, SwapToReady, NothingToRun
  <2> HIDE DEF a, r
  <2>3. /\ Elems(Joined(r)) = Elems(r) \cup ({activePCB} \ {idle})
        /\ NoDup(r) /\ activePCB \notin Elems(r) => NoDup(Joined(r))
    BY <1>0, <2>1, JoinQueue
  <2>4. activePCB \notin Elems(ready_q) /\ idle \notin Elems(ready_q)
    BY <1>0, QueueHolds DEF OnceReady
  <2>5. NoDup(ready_q') /\ activePCB' \notin Elems(ready_q')
    BY <2>1, <2>2, <2>3, <2>4
  <2>6. \A p \in Proc : p \in {activePCB'} \cup Elems(ready_q') =>
          p \in {activePCB} \cup Elems(ready_q)
    BY <1>0, <2>1, <2>2, <2>3, QueueHolds
  <2> QED
    BY <2>2, <2>5, <2>6 DEF OnceReady
<1>2. CASE TrapClockIdle(Open) \/ ResumeClock(Open)
  <2> DEFINE s == Scanned(Open)
  <2>1. ReadyOnce(Now)
    <3>1. \A p \in Elems(ready_q) : p \in Proc
      BY <1>0, QueueHolds
    <3> QED
      BY <3>1 DEF ReadyOnce, Now, OnceReady
  <2>2. s \in States /\ ReadyOnce(s) /\ WokenOnly(Now, s)
    BY <1>0, <2>1, ScanType, ScanReady
  <2>3. blocked_code' = s.code /\ ready_q' = s.ready /\ activePCB' = activePCB
    BY <1>2 DEF TrapClockIdle, ResumeClock, ScanBlocked
  <2> HIDE DEF s
  <2>4. OnceReady'
    BY <2>2, <2>3, RequeuedOnce
  <2> QED
    BY <2>2, <2>3, <2>4 DEF WokenOnly, Now
<1>3. CASE ResumeUser
  BY <1>3 DEF ResumeUser, OnceReady
<1>4. CASE Delay
  <2>1. PICK n \in 0 .. MaxDelay : KernelDelay(n)
    BY <1>4 DEF Delay
  <2>2. /\ SwapProcess(ready_q, "delay")
        /\ blocked_code' = [blocked_code EXCEPT ![activePCB] = BLOCKED_DELAY]
    BY <2>1 DEF KernelDelay
  <2>3. OnceReady'
    BY <2>2, BlockedOnce
  <2> QED
    BY <1>0, <2>2, <2>3
<1> QED
  BY <1>1, <1>2, <1>3, <1>4 DEF SchedStep

-----------------------------------------------------------------------------
(* The steps, one by one.                                                  *)

\* Neither the running process nor idle is queued to read, and who is in user
\* code is not queued to write.
LEMMA NotQueued ==
  ASSUME StreamInv, Turns, NEW t \in Terminals
  PROVE  /\ ttyReadQueues[t] \in Seq(Proc) /\ Elems(ttyReadQueues[t]) \subseteq Proc
         /\ ttyWriteQueues[t] \in Seq(Proc) /\ Elems(ttyWriteQueues[t]) \subseteq Proc
         /\ activePCB \notin Elems(ttyReadQueues[t])
         /\ pc[activePCB] # "ttywrite" => activePCB \notin Elems(ttyWriteQueues[t])
<1>1. /\ ttyReadQueues[t] \in Seq(Proc) /\ Elems(ttyReadQueues[t]) \subseteq Proc
      /\ ttyWriteQueues[t] \in Seq(Proc) /\ Elems(ttyWriteQueues[t]) \subseteq Proc
  BY QueueHolds DEF StreamInv, TypeOK
<1>2. activePCB \in Proc => blocked_code[activePCB] = NOT_BLOCKED
  BY DEF Turns, OnceReady
<1>3. activePCB \notin Elems(ttyReadQueues[t])
  BY <1>1, <1>2 DEF Turns, Readers, NOT_BLOCKED, BLOCKED_TTY_READ
<1>4. pc[activePCB] # "ttywrite" => activePCB \notin Elems(ttyWriteQueues[t])
  BY DEF Turns, Writers, WritersAt, Writer
<1> QED
  BY <1>1, <1>3, <1>4

\* A step that leaves the terminals alone and wakes at most processes that
\* wait for a transmission.
LEMMA CallsKept ==
  ASSUME StreamInv, Turns,
         UNCHANGED <<ttyReadQueues, ttyReadbuffers, ttyWriteQueues, last, call>>,
         \A p \in PCB : pc[p] \in Contexts \/ pc'[p] \in Contexts => pc'[p] = pc[p],
         \A p \in PCB : pc[p] \in Contexts =>
           \/ blocked_code'[p] = blocked_code[p]
           \/ /\ blocked_code[p] \in {BLOCKED_DELAY, BLOCKED_TTY_TRANSMIT}
              /\ blocked_code'[p] = NOT_BLOCKED
  PROVE  Readers' /\ OneLine' /\ Writers' /\ InCall'
<1>0. Proc \subseteq PCB /\ idle \in PCB
  BY DEF PCB
<1>q. \A t \in Terminals : /\ Elems(ttyReadQueues[t]) \subseteq Proc
                           /\ Elems(ttyWriteQueues[t]) \subseteq Proc
                           /\ ttyWriteQueues[t] \in Seq(Proc)
  BY NotQueued
<1>c. "ttyread" \in Contexts /\ "ttywrite" \in Contexts
  BY DEF Contexts
<1>1. Readers'
  <2> SUFFICES ASSUME NEW t \in Terminals
               PROVE  /\ NoDup(ttyReadQueues[t])
                      /\ \A p \in Elems(ttyReadQueues[t]) :
                           blocked_code'[p] = BLOCKED_TTY_READ /\ Reader(p, t)'
    BY DEF Readers
  <2>1. /\ NoDup(ttyReadQueues[t])
        /\ \A p \in Elems(ttyReadQueues[t]) :
             blocked_code[p] = BLOCKED_TTY_READ /\ Reader(p, t) /\ p \in PCB
    BY <1>0, <1>q DEF Turns, Readers
  <2> QED
    BY <1>c, <2>1 DEF Reader, BLOCKED_TTY_READ, BLOCKED_TTY_TRANSMIT, BLOCKED_DELAY
<1>2. OneLine'
  <2> SUFFICES ASSUME NEW t \in Terminals, ttyReadQueues[t] # <<>>, ttyReadbuffers[t] # <<>>
               PROVE  /\ ttyReadbuffers[t] \in Lines
                      /\ \E p \in Proc \ Elems(ttyReadQueues[t]) : Reader(p, t)'
    BY DEF OneLine
  <2>1. PICK p \in Proc \ Elems(ttyReadQueues[t]) : Reader(p, t)
    BY DEF Turns, OneLine
  <2>2. Reader(p, t)'
    BY <1>0, <1>c, <2>1 DEF Reader
  <2> QED
    BY <2>2 DEF Turns, OneLine
<1>3. Writers'
  <2> SUFFICES ASSUME NEW t \in Terminals
               PROVE  WritersAt(t)'
    BY DEF Writers
  <2> DEFINE W == ttyWriteQueues[t]
  <2>1. /\ NoDup(W) /\ \A p \in Elems(W) : Writer(p, t) /\ p \in PCB
        /\ W # <<>> =>
             /\ blocked_code[Head(W)] \in {NOT_BLOCKED, BLOCKED_TTY_TRANSMIT}
             /\ \A p \in Elems(Tail(W)) :
                  blocked_code[p] = BLOCKED_TTY_WRITE /\ call[p].bytes_written = 0
    BY <1>0, <1>q DEF Turns, Writers, WritersAt
  <2>2. W # <<>> => Elems(W) = Elems(Tail(W)) \cup {Head(W)}
    BY <1>q, PopQueue
  <2> HIDE DEF W
  <2>3. \A p \in Elems(W) : Writer(p, t)' /\ pc[p] \in Contexts /\ p \in PCB
    BY <1>c, <2>1 DEF Writer
  <2>4. W # <<>> => blocked_code'[Head(W)] \in {NOT_BLOCKED, BLOCKED_TTY_TRANSMIT}
    BY <2>1, <2>2, <2>3
  <2>5. W # <<>> => \A p \in Elems(Tail(W)) :
          blocked_code'[p] = BLOCKED_TTY_WRITE /\ call'[p].bytes_written = 0
    BY <2>1, <2>2, <2>3 DEF BLOCKED_TTY_WRITE, BLOCKED_TTY_TRANSMIT, BLOCKED_DELAY
  <2> QED
    BY <2>1, <2>3, <2>4, <2>5 DEF W, WritersAt
<1>4. InCall'
  BY <1>0, <1>c DEF Turns, InCall
<1> QED
  BY <1>1, <1>2, <1>3, <1>4

\* The clock and Delay.
LEMMA SchedTurns ==
  ASSUME StreamInv, Turns, Clock \/ Delay \/ Resume, UNCHANGED <<readside, writeside, call>>
  PROVE  Turns'
<1>1. SchedStep(Open) /\ SchedTypeOK(Contexts)
  BY DEF SchedStep, Clock, Resume, StreamInv, TypeOK, Contexts
<1>2. /\ OnceReady'
      /\ \A p \in PCB : \/ blocked_code'[p] = blocked_code[p]
                        \/ /\ blocked_code[p] \in {BLOCKED_DELAY, BLOCKED_TTY_TRANSMIT}
                           /\ blocked_code'[p] = NOT_BLOCKED
                        \/ p = activePCB
  BY <1>1, SchedReady DEF Turns
<1>3. /\ pc[activePCB] \in {"user", "start", "clock", "delay"}
      /\ pc'[activePCB] \in {"user", "start", "clock", "delay"}
      /\ \A p \in PCB : p # activePCB => pc'[p] = pc[p]
  BY <1>1, SchedStepContext
<1>4. pc[activePCB] \notin Contexts /\ pc'[activePCB] \notin Contexts
  BY <1>3 DEF Contexts
<1>5. UNCHANGED <<ttyReadQueues, ttyReadbuffers, ttyWriteQueues, last, call>>
  BY DEF readside, writeside
<1>6. /\ \A p \in PCB : pc[p] \in Contexts \/ pc'[p] \in Contexts => pc'[p] = pc[p]
      /\ \A p \in PCB : pc[p] \in Contexts =>
           \/ blocked_code'[p] = blocked_code[p]
           \/ /\ blocked_code[p] \in {BLOCKED_DELAY, BLOCKED_TTY_TRANSMIT}
              /\ blocked_code'[p] = NOT_BLOCKED
  BY <1>2, <1>3, <1>4
<1>7. Readers' /\ OneLine' /\ Writers' /\ InCall'
  BY <1>5, <1>6, CallsKept
<1> QED
  BY <1>2, <1>7 DEF Turns

\* TrapTTYTransmitHandler.
LEMMA TransmittedTurns ==
  ASSUME StreamInv, Turns, NEW t \in Terminals, TrapTTYTransmit(t)
  PROVE  Turns'
<1> DEFINE s == AfterTransmit(t)
           q == ttyWriteQueues[t]
<1>1. Now \in States /\ q \in Seq(Proc)
  BY NowTyped, NotQueued DEF StreamInv, TypeOK
<1>2. ReadyOnce(Now) /\ WokenOnly(Now, Now)
  <2>1. \A p \in Elems(ready_q) : p \in Proc
    BY QueueHolds DEF StreamInv, TypeOK, SchedTypeOK
  <2> QED
    BY <2>1 DEF ReadyOnce, WokenOnly, Now, Turns, OnceReady
<1>3. s \in States /\ ReadyOnce(s) /\ WokenOnly(Now, s)
  <2>1. CASE s = Now
    BY <1>1, <1>2, <2>1
  <2>2. CASE q # <<>> /\ s = Requeue(Now, Head(q), Open \cup {t})
    <3> DEFINE h == Head(q)
    <3>1. h \in Proc /\ s = Requeue(Now, h, Open \cup {t})
      BY <1>1, <2>2
    <3> HIDE DEF h, s, q
    <3> QED
      BY <1>1, <1>2, <3>1, RequeueType, RequeueReady
  <2> QED
    BY <2>1, <2>2 DEF AfterTransmit
<1>4. /\ blocked_code' = s.code /\ ready_q' = s.ready
      /\ UNCHANGED <<activePCB, pc, call, ttyWriteQueues, last, readside>>
  BY DEF TrapTTYTransmit
<1> HIDE DEF s
<1>5. OnceReady'
  BY <1>3, <1>4, RequeuedOnce DEF StreamInv, Turns
<1>6. \A p \in PCB : \/ blocked_code'[p] = blocked_code[p]
                      \/ /\ blocked_code[p] \in {BLOCKED_DELAY, BLOCKED_TTY_TRANSMIT}
                         /\ blocked_code'[p] = NOT_BLOCKED
  BY <1>3, <1>4 DEF WokenOnly, Now
<1>7. UNCHANGED <<ttyReadQueues, ttyReadbuffers, ttyWriteQueues, last, call, pc>>
  BY <1>4 DEF readside
<1>8. Readers' /\ OneLine' /\ Writers' /\ InCall'
  BY <1>6, <1>7, CallsKept
<1> QED
  BY <1>5, <1>8 DEF Turns

\* The members of a write queue that do not move.
LEMMA WritersKept ==
  ASSUME StreamInv, Turns, NEW u \in Terminals, ttyWriteQueues'[u] = ttyWriteQueues[u],
         \A p \in Elems(ttyWriteQueues[u]) :
           pc'[p] = pc[p] /\ call'[p] = call[p] /\ blocked_code'[p] = blocked_code[p]
  PROVE  WritersAt(u)'
<1> DEFINE W == ttyWriteQueues[u]
<1>1. W # <<>> => Elems(W) = Elems(Tail(W)) \cup {Head(W)}
  BY PopQueue, NotQueued
<1>2. /\ NoDup(W) /\ \A p \in Elems(W) : Writer(p, u)
      /\ W # <<>> =>
           /\ blocked_code[Head(W)] \in {NOT_BLOCKED, BLOCKED_TTY_TRANSMIT}
           /\ \A p \in Elems(Tail(W)) :
                blocked_code[p] = BLOCKED_TTY_WRITE /\ call[p].bytes_written = 0
  BY DEF Turns, Writers, WritersAt
<1>3. \A p \in Elems(W) :
        pc'[p] = pc[p] /\ call'[p] = call[p] /\ blocked_code'[p] = blocked_code[p]
  OBVIOUS
<1>4. ttyWriteQueues'[u] = W
  OBVIOUS
<1> HIDE DEF W
<1> QED
  BY <1>1, <1>2, <1>3, <1>4 DEF Writer, WritersAt

\* A read that comes back takes all there is when another reader is queued.
LEMMA NothingLeft ==
  ASSUME StreamInv, Turns, WholeLines, NEW t \in Terminals, NEW len \in ReadLens,
         ttyReadQueues[t] # <<>>
  PROVE  Rest(t, len) = <<>>
<1> DEFINE b == ttyReadbuffers[t]
<1>0. len \in Nat /\ Buffered
  BY LengthTypes DEF StreamInv
<1>1. /\ b \in Seq(Byte) /\ Len(b) \in Nat
      /\ Rest(t, len) \in Seq(Byte) /\ Len(Rest(t, len)) <= Len(b)
      /\ Rest(t, len) = SubSeq(b, BytesNum(t, len) + 1, Len(b))
  <2>1. b \in Seq(Byte) /\ Len(b) \in Nat
    BY <1>0 DEF Buffered
  <2>2. Rest(t, len) \in Seq(Byte) /\ Len(Rest(t, len)) <= Len(b)
    BY <1>0, TakenBytes
  <2>3. Rest(t, len) = SubSeq(b, BytesNum(t, len) + 1, Len(b))
    BY DEF Rest
  <2> QED
    BY <2>1, <2>2, <2>3
<1>2. CASE b = <<>>
  <2>1. Len(b) = 0
    BY <1>2
  <2>2. Len(Rest(t, len)) = 0
    BY <1>1, <2>1
  <2> QED
    BY <1>1, <2>2, EmptySeq
<1>3. CASE b # <<>>
  <2>1. b \in Lines
    BY <1>3 DEF Turns, OneLine
  <2>2. FirstLine(b) = Len(b) /\ Len(b) <= len
    BY <2>1 DEF WholeLines
  <2>3. BytesNum(t, len) = Len(b)
    BY <1>0, <1>1, <2>2 DEF BytesNum
  <2> HIDE DEF b
  <2>4. SubSeq(b, Len(b) + 1, Len(b)) = <<>>
    BY <1>1, SubSeqProperties
  <2> QED
    BY <1>1, <2>3, <2>4
<1> QED
  BY <1>2, <1>3

\* KernelTtyRead, the part that takes a line: nobody is woken.
LEMMA TakeTurns ==
  ASSUME StreamInv, Turns, WholeLines, NEW t \in Terminals, NEW len \in ReadLens,
         TakeLine(t, len),
         \/ UNCHANGED <<pc, call>> /\ pc[activePCB] = "user" /\ ttyReadQueues[t] = <<>>
         \/ /\ ToUser /\ call' = [call EXCEPT ![activePCB] = NoCall]
            /\ Reader(activePCB, t)
  PROVE  Turns'
<1>0. /\ Proc \subseteq PCB /\ idle \in PCB /\ activePCB \in PCB
      /\ pc \in [PCB -> {"user", "start", "clock", "delay"} \cup Contexts]
      /\ call \in [PCB -> Calls]
  BY DEF StreamInv, TypeOK, SchedTypeOK, PCB, Contexts, Calls
<1>1. ttyReadQueues[t] # <<>> => Rest(t, len) = <<>>
  BY NothingLeft
<1>2. /\ UNCHANGED <<blocked_code, ready_q, activePCB, ttyReadQueues, ttyWriteQueues, last>>
      /\ ttyReadbuffers' = [ttyReadbuffers EXCEPT ![t] = Rest(t, len)]
  BY <1>1 DEF TakeLine, WakeNext, writeside
<1>3. OnceReady'
  BY <1>2 DEF OnceReady, Turns
<1>4. \A p \in PCB : p # activePCB => pc'[p] = pc[p] /\ call'[p] = call[p]
  BY <1>0 DEF ToUser
<1>5. pc[activePCB] # "ttywrite" /\ pc'[activePCB] = "user"
  BY <1>0 DEF ToUser, Reader
<1>q. \A u \in Terminals :
        /\ \A p \in Elems(ttyReadQueues[u]) : p \in PCB /\ p # activePCB
        /\ \A p \in Elems(ttyWriteQueues[u]) : p \in PCB /\ p # activePCB
        /\ ttyWriteQueues[u] \in Seq(Proc)
  BY <1>0, <1>5, NotQueued
<1>6. Readers'
  BY <1>2, <1>4, <1>q DEF Turns, Readers, Reader
<1>7. OneLine'
  <2> SUFFICES ASSUME NEW u \in Terminals, ttyReadQueues[u] # <<>>, ttyReadbuffers'[u] # <<>>
               PROVE  /\ ttyReadbuffers'[u] \in Lines
                      /\ \E p \in Proc \ Elems(ttyReadQueues[u]) : Reader(p, u)'
    BY <1>2 DEF OneLine
  <2>1. u # t /\ ttyReadbuffers'[u] = ttyReadbuffers[u]
    BY <1>1, <1>2 DEF StreamInv, Buffered
  <2>2. PICK p \in Proc \ Elems(ttyReadQueues[u]) : Reader(p, u)
    BY <2>1 DEF Turns, OneLine
  <2>3. p # activePCB
    BY <2>1, <2>2 DEF Reader
  <2>4. Reader(p, u)'
    BY <1>0, <1>4, <2>2, <2>3 DEF Reader
  <2> QED
    BY <2>1, <2>2, <2>4 DEF Turns, OneLine
<1>8. Writers'
  <2> SUFFICES ASSUME NEW u \in Terminals
               PROVE  WritersAt(u)'
    BY DEF Writers
  <2>1. \A p \in Elems(ttyWriteQueues[u]) :
          pc'[p] = pc[p] /\ call'[p] = call[p] /\ blocked_code'[p] = blocked_code[p]
    BY <1>2, <1>4, <1>q
  <2> QED
    BY <1>2, <2>1, WritersKept
<1>9. InCall'
  BY <1>0, <1>2, <1>4, <1>5 DEF Turns, InCall, Contexts
<1> QED
  BY <1>3, <1>6, <1>7, <1>8, <1>9 DEF Turns

\* KernelTtyRead, when it blocks.
LEMMA ReadBlockTurns ==
  ASSUME StreamInv, Turns, NEW t \in Terminals, NEW len \in ReadLens,
         KernelTtyReadBlock(t, len)
  PROVE  Turns'
<1> DEFINE c == [NoCall EXCEPT !.tty = t, !.len = len]
           Q == ttyReadQueues[t]
<1>0. /\ Proc \subseteq PCB /\ idle \in PCB /\ activePCB \in PCB /\ activePCB \in Proc
      /\ pc \in [PCB -> {"user", "start", "clock", "delay"} \cup Contexts]
      /\ call \in [PCB -> Calls] /\ blocked_code \in [PCB -> BlockedCodes]
      /\ ttyReadQueues \in [Terminals -> Seq(Proc)] /\ idle \notin Proc
  BY QueueHolds DEF StreamInv, TypeOK, SchedTypeOK, PCB, Contexts, Calls, KernelTtyReadBlock,
     UserProgram
<1>1. c.tty = t /\ c.len = len
  BY DEF NoCall
<1>2. /\ pc[activePCB] = "user" /\ MustWait(t)
      /\ SwapProcess(ready_q, "ttyread") /\ call' = [call EXCEPT ![activePCB] = c]
      /\ blocked_code' = [blocked_code EXCEPT ![activePCB] = BLOCKED_TTY_READ]
      /\ ttyReadQueues' = [ttyReadQueues EXCEPT ![t] = Joined(Q)]
      /\ UNCHANGED <<ttyReadbuffers, ttyWriteQueues, last>>
  BY DEF KernelTtyReadBlock, BlockedOn, UserProgram, UserMode, writeside
<1> HIDE DEF c
<1>3. OnceReady'
  BY <1>2, BlockedOnce DEF StreamInv, Turns
<1>4. /\ \A p \in PCB : p # activePCB =>
           pc'[p] = pc[p] /\ call'[p] = call[p] /\ blocked_code'[p] = blocked_code[p]
      /\ pc'[activePCB] = "ttyread" /\ call'[activePCB] = c
      /\ blocked_code'[activePCB] = BLOCKED_TTY_READ
  BY <1>0, <1>2 DEF SwapProcess
<1>q. \A u \in Terminals :
        /\ \A p \in Elems(ttyReadQueues[u]) : p \in PCB /\ p # activePCB
        /\ \A p \in Elems(ttyWriteQueues[u]) : p \in PCB /\ p # activePCB
  BY <1>0, <1>2, NotQueued
<1>5. /\ Elems(Joined(Q)) = Elems(Q) \cup {activePCB} /\ NoDup(Joined(Q))
  <2>1. NoDup(Q) /\ activePCB \notin Elems(Q) /\ Q \in Seq(Proc)
    BY <1>q, NotQueued DEF Turns, Readers
  <2> HIDE DEF Q
  <2> QED
    BY <1>0, <2>1, JoinQueue
<1>6. \A u \in Terminals : ttyReadQueues'[u] = IF u = t THEN Joined(Q) ELSE ttyReadQueues[u]
  BY <1>0, <1>2
<1>7. Readers'
  <2> SUFFICES ASSUME NEW u \in Terminals
               PROVE  /\ NoDup(ttyReadQueues'[u])
                      /\ \A p \in Elems(ttyReadQueues'[u]) :
                           blocked_code'[p] = BLOCKED_TTY_READ /\ Reader(p, u)'
    BY DEF Readers
  <2>1. /\ NoDup(ttyReadQueues[u])
        /\ \A p \in Elems(ttyReadQueues[u]) :
             blocked_code'[p] = BLOCKED_TTY_READ /\ Reader(p, u)'
    BY <1>4, <1>q DEF Turns, Readers, Reader
  <2>2. CASE u = t
    <3>1. Reader(activePCB, t) \in BOOLEAN /\ \A p \in {activePCB} : Reader(p, t)'
      BY <1>1, <1>4 DEF Reader
    <3> QED
      BY <1>4, <1>5, <1>6, <2>1, <2>2, <3>1
  <2>3. CASE u # t
    BY <1>6, <2>1, <2>3
  <2> QED
    BY <2>2, <2>3
<1>8. OneLine'
  <2> SUFFICES ASSUME NEW u \in Terminals, ttyReadQueues'[u] # <<>>, ttyReadbuffers[u] # <<>>
               PROVE  /\ ttyReadbuffers[u] \in Lines
                      /\ \E p \in Proc \ Elems(ttyReadQueues'[u]) : Reader(p, u)'
    BY <1>2 DEF OneLine
  <2>1. ttyReadQueues[u] # <<>>
    BY <1>2, <1>6 DEF MustWait
  <2>2. PICK p \in Proc \ Elems(ttyReadQueues[u]) : Reader(p, u)
    BY <2>1 DEF Turns, OneLine
  <2>3. p # activePCB
    BY <1>2, <2>2 DEF Reader
  <2>4. p \notin Elems(ttyReadQueues'[u]) /\ Reader(p, u)'
    BY <1>0, <1>4, <1>5, <1>6, <2>2, <2>3 DEF Reader
  <2> QED
    BY <2>1, <2>2, <2>4 DEF Turns, OneLine
<1>9. Writers'
  <2> SUFFICES ASSUME NEW u \in Terminals
               PROVE  WritersAt(u)'
    BY DEF Writers
  <2>1. \A p \in Elems(ttyWriteQueues[u]) :
          pc'[p] = pc[p] /\ call'[p] = call[p] /\ blocked_code'[p] = blocked_code[p]
    BY <1>4, <1>q
  <2> QED
    BY <1>2, <2>1, WritersKept
<1>10. InCall'
  BY <1>0, <1>1, <1>2, <1>4 DEF Turns, InCall, Contexts
<1> QED
  BY <1>3, <1>7, <1>8, <1>9, <1>10 DEF Turns

\* TrapTTYReceiveHandler.
LEMMA ReceiveTurns ==
  ASSUME StreamInv, Turns, WholeLines, NEW t \in Terminals, NEW line \in Lines,
         TrapTTYReceive(t, line)
  PROVE  Turns'
<1> DEFINE Q == ttyReadQueues[t]
           h == Head(Q)
           b == ttyReadbuffers[t]
<1>0. /\ Proc \subseteq PCB /\ blocked_code \in [PCB -> BlockedCodes]
      /\ ttyReadQueues \in [Terminals -> Seq(Proc)]
      /\ Q \in Seq(Proc) /\ Elems(Q) \subseteq Proc
  BY QueueHolds DEF StreamInv, TypeOK, SchedTypeOK, PCB
<1>1. /\ WakeNext(Q) /\ ttyReadQueues' = [ttyReadQueues EXCEPT ![t] = AfterPop(Q)]
      /\ ttyReadbuffers' = [ttyReadbuffers EXCEPT ![t] = b \o Fitting(t, line)]
      /\ UNCHANGED <<activePCB, pc, call, ttyWriteQueues, last>>
  BY DEF TrapTTYReceive, writeside
<1>2. Q # <<>> => /\ h \in Proc /\ h \in Elems(Q) /\ h \notin Elems(Tail(Q))
                  /\ Tail(Q) \in Seq(Proc) /\ NoDup(Tail(Q))
                  /\ Elems(Q) = Elems(Tail(Q)) \cup {h}
  BY <1>0, PopQueue DEF Turns, Readers
<1>3. Q # <<>> => blocked_code[h] = BLOCKED_TTY_READ /\ Reader(h, t)
  BY <1>2 DEF Turns, Readers
<1>4. OnceReady'
  BY <1>0, <1>1, <1>3, WokenOnce DEF StreamInv, Turns, NOT_BLOCKED, BLOCKED_TTY_READ
<1>5. \A p \in PCB : blocked_code'[p] = blocked_code[p] \/ (Q # <<>> /\ p = h)
  BY <1>0, <1>1 DEF WakeNext, WakeHead
<1>6. \A u \in Terminals :
        ttyReadQueues'[u] = IF u = t /\ Q # <<>> THEN Tail(Q) ELSE ttyReadQueues[u]
  BY <1>0, <1>1 DEF AfterPop
<1> HIDE DEF h, Q
<1>7. Readers'
  <2> SUFFICES ASSUME NEW u \in Terminals
               PROVE  /\ NoDup(ttyReadQueues'[u])
                      /\ \A p \in Elems(ttyReadQueues'[u]) :
                           blocked_code'[p] = BLOCKED_TTY_READ /\ Reader(p, u)'
    BY DEF Readers
  <2>1. /\ NoDup(ttyReadQueues[u])
        /\ \A p \in Elems(ttyReadQueues[u]) :
             blocked_code[p] = BLOCKED_TTY_READ /\ Reader(p, u)' /\ p \in PCB
    BY <1>0, <1>1, NotQueued DEF Turns, Readers, Reader
  <2>2. CASE u = t /\ Q # <<>>
    BY <1>2, <1>5, <1>6, <2>1, <2>2 DEF Q
  <2>3. CASE u # t \/ Q = <<>>
    <3>1. Q # <<>> => h \notin Elems(ttyReadQueues[u])
      BY <1>3, <2>3 DEF Turns, Readers, Reader
    <3> QED
      BY <1>5, <1>6, <2>1, <2>3, <3>1
  <2> QED
    BY <2>2, <2>3
<1>8. OneLine'
  <2> SUFFICES ASSUME NEW u \in Terminals, ttyReadQueues'[u] # <<>>, ttyReadbuffers'[u] # <<>>
               PROVE  /\ ttyReadbuffers'[u] \in Lines
                      /\ \E p \in Proc \ Elems(ttyReadQueues'[u]) : Reader(p, u)'
    BY DEF OneLine
  <2>1. CASE u # t
    <3>1. ttyReadQueues'[u] = ttyReadQueues[u] /\ ttyReadbuffers'[u] = ttyReadbuffers[u]
      BY <1>1, <1>6, <2>1 DEF StreamInv, Buffered
    <3> QED
      BY <1>1, <3>1 DEF Turns, OneLine, Reader
  <2>2. CASE u = t
    <3>1. Q # <<>> /\ ttyReadQueues'[t] = Tail(Q) /\ Tail(Q) # <<>>
      BY <1>6, <2>2 DEF Q
    <3> DEFINE g == Head(Tail(Q))
    <3>2. g \in Elems(Tail(Q))
      BY <1>2, <3>1, PopQueue
    <3> HIDE DEF g
    <3>3. g \in Elems(Q) /\ h \in Elems(Q) /\ g # h /\ g \in Proc /\ h \in Proc
      BY <1>0, <1>2, <3>1, <3>2
    <3>r. ReadLens # {}
      BY <1>3, <3>1, <3>3 DEF Turns, InCall, Reader
    <3>4. \A p \in Proc : p = g \/ p = h
      BY <3>3, <3>r, NProcAssumption DEF Proc, WholeLines
    <3>5. b = <<>>
      BY <3>1, <3>3, <3>4 DEF Turns, OneLine, Q
    <3>6. Fitting(t, line) = line
      <4>1. /\ Len(line) \in 1 .. TERMINAL_MAX_LINE /\ TERMINAL_MAX_LINE \in Nat
            /\ line \in Seq(Byte)
        BY LineType, TtyAssumption
      <4>2. TERMINAL_MAX_LINE - Len(b) = TERMINAL_MAX_LINE
        BY <3>5, <4>1
      <4>3. Fitting(t, line) = SubSeq(line, 1, Len(line))
        BY <4>1, <4>2 DEF Fitting
      <4> QED
        BY <4>1, <4>3, SubSeqFull
    <3>7. b \o Fitting(t, line) = line
      BY <3>5, <3>6, LineType, ConcatEmptySeq
    <3>8. ttyReadbuffers'[t] \in Lines
      BY <1>1, <3>7 DEF StreamInv, Buffered
    <3>9. h \in Proc \ Elems(ttyReadQueues'[t]) /\ Reader(h, t)
      BY <1>2, <1>3, <3>1
    <3>10. \A p \in Proc : Reader(p, t) => Reader(p, t)'
      BY <1>1 DEF Reader
    <3>11. \E p \in Proc \ Elems(ttyReadQueues'[t]) : Reader(p, t)'
      BY <3>9, <3>10
    <3> QED
      BY <2>2, <3>8, <3>11
  <2> QED
    BY <2>1, <2>2
<1>9. Writers'
  <2> SUFFICES ASSUME NEW u \in Terminals
               PROVE  WritersAt(u)'
    BY DEF Writers
  <2>1. \A p \in Elems(ttyWriteQueues[u]) : p \in PCB /\ pc[p] = "ttywrite"
    BY <1>0, NotQueued DEF Turns, Writers, WritersAt, Writer
  <2>2. Q # <<>> => pc[h] = "ttyread"
    BY <1>3 DEF Reader
  <2>3. \A p \in Elems(ttyWriteQueues[u]) : blocked_code'[p] = blocked_code[p]
    BY <1>5, <2>1, <2>2
  <2> QED
    BY <1>1, <2>3, WritersKept
<1>10. InCall'
  BY <1>1 DEF Turns, InCall
<1> QED
  BY <1>4, <1>7, <1>8, <1>9, <1>10 DEF Turns

-----------------------------------------------------------------------------
(* Writing.                                                                *)

\* A queue that is joined keeps its head.
LEMMA AppendTail ==
  ASSUME NEW q \in Seq(Proc), q # <<>>, NEW x \in Proc
  PROVE  /\ Head(Append(q, x)) = Head(q) /\ Append(q, x) # <<>>
         /\ Elems(Tail(Append(q, x))) = Elems(Tail(q)) \cup {x}
<1>1. Append(q, x) \in Seq(Proc) /\ Append(q, x) # <<>> /\ Head(Append(q, x)) = Head(q)
  <2>1. Len(q) \in Nat /\ Len(q) # 0
    BY EmptySeq
  <2>2. Len(Append(q, x)) = Len(q) + 1 /\ Append(q, x)[1] = q[1]
    BY <2>1
  <2> QED
    BY <2>1, <2>2
<1>2. Tail(Append(q, x)) = Append(Tail(q), x)
  OBVIOUS
<1>3. Tail(q) \in Seq(Proc)
  OBVIOUS
<1>4. \A r \in Seq(Proc) : Elems(Append(r, x)) = Elems(r) \cup {x}
  BY AppendQueue
<1> QED
  BY <1>1, <1>2, <1>3, <1>4

\* The others, while the running process blocks or ends its call.
Others ==
  \A p \in PCB : p # activePCB => pc'[p] = pc[p] /\ call'[p] = call[p]

\* What a write leaves of the readers.
LEMMA ReadersKept ==
  ASSUME StreamInv, Turns, Others, pc[activePCB] # "ttyread",
         UNCHANGED <<ttyReadQueues, ttyReadbuffers>>,
         \A p \in PCB : pc[p] = "ttyread" /\ p # activePCB => blocked_code'[p] = blocked_code[p]
  PROVE  Readers' /\ OneLine'
<1>0. Proc \subseteq PCB
  BY DEF PCB
<1>1. \A t \in Terminals : \A p \in Elems(ttyReadQueues[t]) : p \in PCB /\ p # activePCB
  BY <1>0, NotQueued
<1>2. Readers'
  BY <1>1 DEF Turns, Readers, Reader, Others
<1>3. OneLine'
  <2> SUFFICES ASSUME NEW u \in Terminals, ttyReadQueues[u] # <<>>, ttyReadbuffers[u] # <<>>
               PROVE  /\ ttyReadbuffers[u] \in Lines
                      /\ \E p \in Proc \ Elems(ttyReadQueues[u]) : Reader(p, u)'
    BY DEF OneLine
  <2>1. PICK p \in Proc \ Elems(ttyReadQueues[u]) : Reader(p, u)
    BY DEF Turns, OneLine
  <2>2. Reader(p, u)'
    BY <1>0, <2>1 DEF Reader, Others
  <2> QED
    BY <2>2 DEF Turns, OneLine
<1> QED
  BY <1>2, <1>3

\* KernelTtyWrite, when it is not the caller's turn.
LEMMA WriteBlockTurns ==
  ASSUME StreamInv, Turns, NEW t \in Terminals, NEW len \in WriteLens,
         KernelTtyWriteBlock(t, len)
  PROVE  Turns'
<1> DEFINE c == [NoCall EXCEPT !.tty = t, !.bytes_left = len]
           W == ttyWriteQueues[t]
<1>0. /\ Proc \subseteq PCB /\ idle \in PCB /\ activePCB \in PCB /\ activePCB \in Proc
      /\ activePCB # idle
      /\ pc \in [PCB -> {"user", "start", "clock", "delay"} \cup Contexts]
      /\ call \in [PCB -> Calls] /\ blocked_code \in [PCB -> BlockedCodes]
      /\ ttyWriteQueues \in [Terminals -> Seq(Proc)] /\ W \in Seq(Proc)
  BY DEF StreamInv, TypeOK, SchedTypeOK, PCB, Contexts, Calls, KernelTtyWriteBlock, UserProgram
<1>1. c.tty = t /\ c.bytes_written = 0
  BY DEF NoCall
<1>2. /\ pc[activePCB] = "user" /\ ~MyTurn(t)
      /\ SwapProcess(ready_q, "ttywrite") /\ call' = [call EXCEPT ![activePCB] = c]
      /\ blocked_code' = [blocked_code EXCEPT ![activePCB] = BLOCKED_TTY_WRITE]
      /\ ttyWriteQueues' = [ttyWriteQueues EXCEPT ![t] = Joined(W)]
      /\ UNCHANGED <<ttyReadQueues, ttyReadbuffers, last>>
  BY DEF KernelTtyWriteBlock, BlockedOn, UserProgram, UserMode, readside
<1> HIDE DEF c, W
<1>3. OnceReady'
  BY <1>2, BlockedOnce DEF StreamInv, Turns
<1>4. /\ Others /\ \A p \in PCB : p # activePCB => blocked_code'[p] = blocked_code[p]
      /\ pc'[activePCB] = "ttywrite" /\ call'[activePCB] = c
      /\ blocked_code'[activePCB] = BLOCKED_TTY_WRITE
  BY <1>0, <1>2 DEF SwapProcess, Others
<1>5. Readers' /\ OneLine'
  BY <1>2, <1>4, ReadersKept
<1>6. \A u \in Terminals : \A p \in Elems(ttyWriteQueues[u]) : p \in PCB /\ p # activePCB
  BY <1>0, <1>2, NotQueued
<1>7. Joined(W) = Append(W, activePCB) /\ W # <<>>
  <2>1. Joined(W) = Append(W, activePCB)
    BY <1>0 DEF Joined
  <2>2. Head(Append(<<>>, activePCB)) = activePCB
    OBVIOUS
  <2> QED
    BY <1>2, <2>1, <2>2 DEF MyTurn, W
<1>8. /\ NoDup(Joined(W)) /\ Elems(Joined(W)) = Elems(W) \cup {activePCB}
      /\ Joined(W) # <<>> /\ Head(Joined(W)) = Head(W) /\ Head(W) \in Elems(W)
      /\ Elems(Tail(Joined(W))) = Elems(Tail(W)) \cup {activePCB}
      /\ Elems(Tail(W)) \subseteq Elems(W)
  <2>1. NoDup(W) /\ activePCB \notin Elems(W)
    BY <1>6 DEF Turns, Writers, WritersAt, W
  <2> QED
    BY <1>0, <1>7, <2>1, AppendQueue, AppendTail, PopQueue
<1>9. Writers'
  <2> SUFFICES ASSUME NEW u \in Terminals
               PROVE  WritersAt(u)'
    BY DEF Writers
  <2>1. CASE u # t
    <3>1. ttyWriteQueues'[u] = ttyWriteQueues[u]
      BY <1>0, <1>2, <2>1
    <3>2. \A p \in Elems(ttyWriteQueues[u]) :
            pc'[p] = pc[p] /\ call'[p] = call[p] /\ blocked_code'[p] = blocked_code[p]
      BY <1>4, <1>6 DEF Others
    <3> QED
      BY <3>1, <3>2, WritersKept
  <2>2. CASE u = t
    <3>1. ttyWriteQueues'[t] = Joined(W)
      BY <1>0, <1>2
    <3>2. /\ \A p \in Elems(W) : Writer(p, t) /\ p \in PCB /\ p # activePCB
          /\ blocked_code[Head(W)] \in {NOT_BLOCKED, BLOCKED_TTY_TRANSMIT}
          /\ \A p \in Elems(Tail(W)) :
               blocked_code[p] = BLOCKED_TTY_WRITE /\ call[p].bytes_written = 0
      BY <1>6, <1>7 DEF Turns, Writers, WritersAt, W
    <3>3. \A p \in Elems(W) : Writer(p, t)' /\ blocked_code'[p] = blocked_code[p]
                              /\ call'[p] = call[p]
      BY <1>4, <3>2 DEF Writer, Others
    <3>4. \A p \in {activePCB} : Writer(p, t)'
      BY <1>1, <1>4 DEF Writer
    <3>5. \A p \in Elems(Joined(W)) : Writer(p, t)'
      BY <1>8, <3>3, <3>4
    <3>6. blocked_code'[Head(Joined(W))] \in {NOT_BLOCKED, BLOCKED_TTY_TRANSMIT}
      BY <1>8, <3>2, <3>3
    <3>7. \A p \in Elems(Tail(Joined(W))) :
            blocked_code'[p] = BLOCKED_TTY_WRITE /\ call'[p].bytes_written = 0
      BY <1>1, <1>4, <1>8, <3>2, <3>3
    <3> QED
      BY <1>8, <2>2, <3>1, <3>5, <3>6, <3>7 DEF WritersAt
  <2> QED
    BY <2>1, <2>2
<1>10. InCall'
  <2>1. pc'[idle] \notin Contexts
    BY <1>0, <1>4 DEF Turns, InCall, Others
  <2>2. ASSUME NEW p \in Proc, pc'[p] = "ttyread"
        PROVE  call'[p].len \in ReadLens
    BY <1>0, <1>4, <2>2 DEF Turns, InCall, Others
  <2>3. ASSUME NEW p \in Proc, pc'[p] = "ttywrite"
        PROVE  /\ p \in Elems(ttyWriteQueues'[call'[p].tty])
               /\ call'[p].bytes_written > 0 => last'[call'[p].tty] = p
    <3>1. \A u \in Terminals :
            ttyWriteQueues'[u] = IF u = t THEN Joined(W) ELSE ttyWriteQueues[u]
      BY <1>0, <1>2
    <3>2. CASE p = activePCB
      BY <1>1, <1>4, <1>8, <3>1, <3>2
    <3>3. CASE p # activePCB
      <4>1. pc[p] = "ttywrite" /\ call'[p] = call[p] /\ p \in PCB
        BY <1>0, <1>4, <2>3, <3>3 DEF Others
      <4>2. call[p].tty \in Terminals
        BY <4>1 DEF StreamInv, Calling, Contexts
      <4>3. p \in Elems(ttyWriteQueues[call[p].tty])
            /\ (call[p].bytes_written > 0 => last[call[p].tty] = p)
        BY <4>1 DEF Turns, InCall
      <4> QED
        BY <1>2, <1>8, <3>1, <4>1, <4>2, <4>3 DEF W
    <3> QED
      BY <3>2, <3>3
  <2> QED
    BY <2>1, <2>2, <2>3 DEF InCall
<1> QED
  BY <1>3, <1>5, <1>9, <1>10 DEF Turns

\* The running process is first in wq, the write queue of t with it in it.
First(t, wq) ==
  /\ activePCB \in Proc /\ pc[activePCB] \in {"user", "ttywrite"}
  /\ NoDup(wq) /\ wq # <<>> /\ Head(wq) = activePCB
  /\ Elems(ttyWriteQueues[t]) \subseteq Elems(wq)
  /\ \A p \in Elems(Tail(wq)) :
       Writer(p, t) /\ blocked_code[p] = BLOCKED_TTY_WRITE /\ call[p].bytes_written = 0
  /\ \A u \in Terminals : u # t => activePCB \notin Elems(ttyWriteQueues[u])

\* What its step leaves of the other calls.
LEMMA OthersInCall ==
  ASSUME StreamInv, Turns, NEW t \in Terminals, NEW wq \in Seq(Proc), First(t, wq), Others,
         \A u \in Terminals : u # t => /\ last'[u] = last[u]
                                       /\ ttyWriteQueues'[u] = ttyWriteQueues[u],
         Elems(Tail(wq)) \subseteq Elems(ttyWriteQueues'[t]),
         NEW p \in Proc, p # activePCB
  PROVE  /\ pc'[p] = "ttyread" => call'[p].len \in ReadLens
         /\ pc'[p] = "ttywrite" =>
              /\ p \in Elems(ttyWriteQueues'[call'[p].tty])
              /\ call'[p].bytes_written > 0 => last'[call'[p].tty] = p
<1>1. p \in PCB /\ pc'[p] = pc[p] /\ call'[p] = call[p]
  BY DEF Others, PCB
<1>2. pc[p] = "ttyread" => call[p].len \in ReadLens
  BY DEF Turns, InCall
<1>3. ASSUME pc[p] = "ttywrite"
      PROVE  /\ p \in Elems(ttyWriteQueues'[call[p].tty])
             /\ call[p].bytes_written > 0 => last'[call[p].tty] = p
  <2>1. call[p].tty \in Terminals
    BY <1>1, <1>3 DEF StreamInv, Calling, Contexts
  <2>2. /\ p \in Elems(ttyWriteQueues[call[p].tty])
        /\ call[p].bytes_written > 0 => last[call[p].tty] = p
    BY <1>3 DEF Turns, InCall
  <2>3. CASE call[p].tty = t
    <3>1. Elems(wq) = Elems(Tail(wq)) \cup {activePCB}
      BY PopQueue DEF First
    <3>2. p \in Elems(Tail(wq))
      BY <2>2, <2>3, <3>1 DEF First
    <3>3. call[p].bytes_written = 0
      BY <3>2 DEF First
    <3> QED
      BY <2>3, <3>2, <3>3
  <2>4. CASE call[p].tty # t
    BY <2>1, <2>2, <2>4
  <2> QED
    BY <2>3, <2>4
<1> QED
  BY <1>1, <1>2, <1>3

\* KernelTtyWrite, when the terminal is closed or more than one line is left.
LEMMA AwaitTurns ==
  ASSUME StreamInv, Turns, NEW t \in Terminals, NEW wq \in Seq(Proc), First(t, wq),
         NEW m \in Nat, NEW n \in Nat, AwaitTransmit(t, m, n, wq),
         UNCHANGED <<ttyReadQueues, ttyReadbuffers>>,
         \A u \in Terminals : u # t => last'[u] = last[u],
         n > 0 => last'[t] = activePCB
  PROVE  Turns'
<1> DEFINE c == [NoCall EXCEPT !.tty = t, !.bytes_left = m, !.bytes_written = n]
<1>0. /\ Proc \subseteq PCB /\ idle \in PCB /\ activePCB \in PCB /\ activePCB \in Proc
      /\ activePCB # idle
      /\ pc \in [PCB -> {"user", "start", "clock", "delay"} \cup Contexts]
      /\ call \in [PCB -> Calls] /\ blocked_code \in [PCB -> BlockedCodes]
      /\ ttyWriteQueues \in [Terminals -> Seq(Proc)]
  BY DEF StreamInv, TypeOK, SchedTypeOK, PCB, Contexts, Calls, First, idle, Proc
<1>1. c.tty = t /\ c.bytes_written = n
  BY DEF NoCall
<1>2. /\ SwapProcess(ready_q, "ttywrite") /\ call' = [call EXCEPT ![activePCB] = c]
      /\ blocked_code' = [blocked_code EXCEPT ![activePCB] = BLOCKED_TTY_TRANSMIT]
      /\ ttyWriteQueues' = [ttyWriteQueues EXCEPT ![t] = wq]
  BY DEF AwaitTransmit, BlockedOn
<1> HIDE DEF c
<1>3. OnceReady'
  BY <1>2, BlockedOnce DEF StreamInv, Turns
<1>4. /\ Others /\ \A p \in PCB : p # activePCB => blocked_code'[p] = blocked_code[p]
      /\ pc'[activePCB] = "ttywrite" /\ call'[activePCB] = c
      /\ blocked_code'[activePCB] = BLOCKED_TTY_TRANSMIT
  BY <1>0, <1>2 DEF SwapProcess, Others
<1>5. Readers' /\ OneLine'
  <2>1. pc[activePCB] # "ttyread"
    BY DEF First
  <2> QED
    BY <1>4, <2>1, ReadersKept
<1>6. \A u \in Terminals :
        ttyWriteQueues'[u] = IF u = t THEN wq ELSE ttyWriteQueues[u]
  BY <1>0, <1>2
<1>7. /\ Elems(wq) = Elems(Tail(wq)) \cup {activePCB} /\ activePCB \notin Elems(Tail(wq))
      /\ \A p \in Elems(wq) : p \in PCB
  BY <1>0, PopQueue, QueueHolds DEF First
<1>8. Writers'
  <2> SUFFICES ASSUME NEW u \in Terminals
               PROVE  WritersAt(u)'
    BY DEF Writers
  <2>1. CASE u # t
    <3>1. \A p \in Elems(ttyWriteQueues[u]) : p \in PCB /\ p # activePCB
      BY <1>0, <2>1, NotQueued DEF First
    <3>2. \A p \in Elems(ttyWriteQueues[u]) :
            pc'[p] = pc[p] /\ call'[p] = call[p] /\ blocked_code'[p] = blocked_code[p]
      BY <1>4, <3>1 DEF Others
    <3> QED
      BY <1>6, <2>1, <3>2, WritersKept
  <2>2. CASE u = t
    <3>1. \A p \in Elems(Tail(wq)) : pc'[p] = pc[p] /\ call'[p] = call[p]
            /\ blocked_code'[p] = blocked_code[p]
      BY <1>4, <1>7 DEF Others
    <3>2. \A p \in Elems(Tail(wq)) : /\ Writer(p, t)' /\ blocked_code'[p] = BLOCKED_TTY_WRITE
                                     /\ call'[p].bytes_written = 0
      BY <3>1 DEF First, Writer
    <3>3. \A p \in {activePCB} : Writer(p, t)'
      BY <1>1, <1>4 DEF Writer
    <3>4. \A p \in Elems(wq) : Writer(p, t)'
      BY <1>7, <3>2, <3>3
    <3>5. NoDup(wq) /\ blocked_code'[Head(wq)] \in {NOT_BLOCKED, BLOCKED_TTY_TRANSMIT}
      BY <1>4 DEF First
    <3>6. ttyWriteQueues'[u] = wq
      BY <1>6, <2>2
    <3> QED
      BY <2>2, <3>2, <3>4, <3>5, <3>6 DEF WritersAt
  <2> QED
    BY <2>1, <2>2
<1>9. InCall'
  <2>1. pc'[idle] \notin Contexts
    BY <1>0, <1>4 DEF Turns, InCall, Others
  <2>2. Elems(Tail(wq)) \subseteq Elems(ttyWriteQueues'[t])
    BY <1>6, <1>7
  <2>3. \A p \in {activePCB} :
          /\ pc'[p] = "ttywrite" /\ p \in Elems(ttyWriteQueues'[call'[p].tty])
          /\ call'[p].bytes_written > 0 => last'[call'[p].tty] = p
    BY <1>1, <1>4, <1>6, <1>7
  <2>4. \A p \in Proc : p # activePCB =>
          /\ pc'[p] = "ttyread" => call'[p].len \in ReadLens
          /\ pc'[p] = "ttywrite" =>
               /\ p \in Elems(ttyWriteQueues'[call'[p].tty])
               /\ call'[p].bytes_written > 0 => last'[call'[p].tty] = p
    BY <1>4, <1>6, <2>2, OthersInCall
  <2> QED
    BY <2>1, <2>3, <2>4 DEF InCall
<1> QED
  BY <1>3, <1>5, <1>8, <1>9 DEF Turns

\* KernelTtyWrite, when it comes to its end.
LEMMA FinishTurns ==
  ASSUME StreamInv, Turns, NEW t \in Terminals, NEW wq \in Seq(Proc), First(t, wq),
         FinishWrite(t, wq), UNCHANGED <<ttyReadQueues, ttyReadbuffers>>,
         \A u \in Terminals : u # t => last'[u] = last[u]
  PROVE  Turns'
<1> DEFINE Q == Tail(wq)
           h == Head(Q)
<1>0. /\ Proc \subseteq PCB /\ idle \in PCB /\ activePCB \in PCB /\ activePCB \in Proc
      /\ activePCB # idle
      /\ pc \in [PCB -> {"user", "start", "clock", "delay"} \cup Contexts]
      /\ call \in [PCB -> Calls] /\ blocked_code \in [PCB -> BlockedCodes]
      /\ ttyWriteQueues \in [Terminals -> Seq(Proc)]
  BY DEF StreamInv, TypeOK, SchedTypeOK, PCB, Contexts, Calls, First, idle, Proc
<1>1. /\ Q \in Seq(Proc) /\ NoDup(Q) /\ activePCB \notin Elems(Q)
      /\ \A p \in Elems(Q) : p \in PCB /\ p # activePCB
  <2>1. Q \in Seq(Proc) /\ NoDup(Q) /\ activePCB \notin Elems(Q)
    BY PopQueue DEF First
  <2> QED
    BY <1>0, <2>1, QueueHolds
<1>2. /\ WakeNext(Q) /\ ttyWriteQueues' = [ttyWriteQueues EXCEPT ![t] = Q]
      /\ pc' = [pc EXCEPT ![activePCB] = "user"]
      /\ call' = [call EXCEPT ![activePCB] = NoCall] /\ activePCB' = activePCB
  BY DEF FinishWrite, AfterPop, First, ToUser
<1>3. \A p \in Elems(Q) :
        Writer(p, t) /\ blocked_code[p] = BLOCKED_TTY_WRITE /\ call[p].bytes_written = 0
  BY DEF First
<1>4. Q # <<>> => /\ h \in Elems(Q) /\ Elems(Q) = Elems(Tail(Q)) \cup {h}
                  /\ h \notin Elems(Tail(Q))
  BY <1>1, PopQueue
<1>5. \A p \in PCB : blocked_code'[p] = IF Q # <<>> /\ p = h THEN NOT_BLOCKED
                                                             ELSE blocked_code[p]
  BY <1>0, <1>1, <1>2, <1>4 DEF WakeNext, WakeHead
<1>w. Q # <<>> => blocked_code[h] # NOT_BLOCKED
  BY <1>3, <1>4 DEF NOT_BLOCKED, BLOCKED_TTY_WRITE
<1> HIDE DEF Q
<1>6. OnceReady'
  BY <1>1, <1>2, <1>w, WokenOnce DEF StreamInv, Turns
<1> HIDE DEF h
<1>7. Others /\ pc'[activePCB] = "user"
  BY <1>0, <1>2 DEF Others
<1>8. Readers' /\ OneLine'
  <2>1. pc[activePCB] # "ttyread"
    BY DEF First
  <2>2. \A p \in PCB : pc[p] = "ttyread" => blocked_code'[p] = blocked_code[p]
    BY <1>3, <1>4, <1>5 DEF Writer
  <2> QED
    BY <1>7, <2>1, <2>2, ReadersKept
<1>9. \A u \in Terminals :
        ttyWriteQueues'[u] = IF u = t THEN Q ELSE ttyWriteQueues[u]
  BY <1>0, <1>2
<1>10. Writers'
  <2> SUFFICES ASSUME NEW u \in Terminals
               PROVE  WritersAt(u)'
    BY DEF Writers
  <2>1. CASE u # t
    <3>1. \A p \in Elems(ttyWriteQueues[u]) : p \in PCB /\ p # activePCB /\ Writer(p, u)
      BY <1>0, <2>1, NotQueued DEF First, Turns, Writers, WritersAt
    <3>2. Q # <<>> => Writer(h, t)
      BY <1>3, <1>4
    <3>3. \A p \in Elems(ttyWriteQueues[u]) : ~(Q # <<>> /\ p = h)
      BY <2>1, <3>1, <3>2 DEF Writer
    <3>4. \A p \in Elems(ttyWriteQueues[u]) :
            pc'[p] = pc[p] /\ call'[p] = call[p] /\ blocked_code'[p] = blocked_code[p]
      BY <1>5, <1>7, <3>1, <3>3 DEF Others
    <3> QED
      BY <1>9, <2>1, <3>4, WritersKept
  <2>2. CASE u = t
    <3>1. \A p \in Elems(Q) : pc'[p] = pc[p] /\ call'[p] = call[p]
      BY <1>1, <1>7 DEF Others
    <3>2. \A p \in Elems(Q) : Writer(p, t)' /\ call'[p].bytes_written = 0
      BY <1>3, <3>1 DEF Writer
    <3>3. Q # <<>> => /\ blocked_code'[Head(Q)] \in {NOT_BLOCKED, BLOCKED_TTY_TRANSMIT}
                      /\ \A p \in Elems(Tail(Q)) : blocked_code'[p] = BLOCKED_TTY_WRITE
      BY <1>1, <1>3, <1>4, <1>5 DEF h
    <3>4. ttyWriteQueues'[u] = Q
      BY <1>9, <2>2
    <3> QED
      BY <1>1, <1>4, <2>2, <3>2, <3>3, <3>4 DEF WritersAt
  <2> QED
    BY <2>1, <2>2
<1>11. InCall'
  <2>1. pc'[idle] \notin Contexts
    BY <1>0, <1>7 DEF Turns, InCall, Others
  <2>2. Elems(Tail(wq)) \subseteq Elems(ttyWriteQueues'[t])
    BY <1>9 DEF Q
  <2>3. \A p \in Proc : p # activePCB =>
          /\ pc'[p] = "ttyread" => call'[p].len \in ReadLens
          /\ pc'[p] = "ttywrite" =>
               /\ p \in Elems(ttyWriteQueues'[call'[p].tty])
               /\ call'[p].bytes_written > 0 => last'[call'[p].tty] = p
    BY <1>7, <1>9, <2>2, OthersInCall
  <2> QED
    BY <1>7, <2>1, <2>3 DEF InCall
<1> QED
  BY <1>6, <1>8, <1>10, <1>11 DEF Turns

\* KernelTtyWrite, from entering or resuming the loop to the next switch.
LEMMA WriteLoopTurns ==
  ASSUME StreamInv, Turns, NEW t \in Terminals, NEW wq \in Seq(Proc), First(t, wq),
         NEW left \in Nat, NEW written \in Nat, written > 0 => last[t] = activePCB,
         WriteLoop(t, left, written, wq)
  PROVE  Turns'
<1>1. UNCHANGED <<ttyReadQueues, ttyReadbuffers>>
  BY DEF WriteLoop, readside
<1>2. last \in [Terminals -> PCB]
  BY DEF StreamInv, TypeOK
<1>3. CASE AwaitTransmit(t, left, written, wq) /\ UNCHANGED last
  BY <1>1, <1>3, AwaitTurns
<1>4. CASE Transmit(t)
  <2>1. /\ \A u \in Terminals : u # t => last'[u] = last[u]
        /\ last'[t] = activePCB
    BY <1>2, <1>4 DEF Transmit
  <2>2. CASE left > TERMINAL_MAX_LINE
             /\ AwaitTransmit(t, left - TERMINAL_MAX_LINE, written + TERMINAL_MAX_LINE, wq)
    <3>1. left - TERMINAL_MAX_LINE \in Nat /\ written + TERMINAL_MAX_LINE \in Nat
      BY <2>2, TtyAssumption
    <3> QED
      BY <1>1, <2>1, <2>2, <3>1, AwaitTurns
  <2>3. CASE FinishWrite(t, wq)
    BY <1>1, <2>1, <2>3, FinishTurns
  <2>4. CASE ~ttyWriteTrackers[t] /\ AwaitTransmit(t, left, written, wq)
    BY <1>1, <2>1, <2>4, AwaitTurns
  <2> QED
    BY <1>3, <2>2, <2>3, <2>4 DEF WriteLoop
<1> QED
  BY <1>3, <1>4 DEF WriteLoop

\* KernelTtyWrite, when it is the caller's turn: it is alone in the queue.
LEMMA WriteFirstTurns ==
  ASSUME StreamInv, Turns, NEW t \in Terminals, NEW len \in WriteLens,
         KernelTtyWriteFirst(t, len)
  PROVE  Turns'
<1> DEFINE W == ttyWriteQueues[t]
           wq == Joined(W)
<1>1. /\ activePCB \in Proc /\ activePCB # idle /\ pc[activePCB] = "user"
      /\ W \in Seq(Proc) /\ NoDup(W)
      /\ \A u \in Terminals : activePCB \notin Elems(ttyWriteQueues[u])
  <2>1. activePCB \in Proc /\ activePCB # idle /\ pc[activePCB] = "user"
    BY DEF KernelTtyWriteFirst, UserProgram, UserMode, StreamInv, TypeOK, SchedTypeOK, PCB
  <2>2. W \in Seq(Proc) /\ \A u \in Terminals : activePCB \notin Elems(ttyWriteQueues[u])
    BY <2>1, NotQueued
  <2>3. NoDup(W)
    BY DEF Turns, Writers, WritersAt
  <2> QED
    BY <2>1, <2>2, <2>3
<1>2. /\ wq = Append(W, activePCB) /\ Head(wq) = activePCB
      /\ WriteLoop(t, len, 0, wq)
  BY <1>1 DEF KernelTtyWriteFirst, MyTurn, Joined
<1>3. /\ wq \in Seq(Proc) /\ NoDup(wq) /\ Elems(wq) = Elems(W) \cup {activePCB}
  BY <1>1, <1>2, AppendQueue
<1>4. W = <<>>
  <2> SUFFICES ASSUME W # <<>>
               PROVE  FALSE
    OBVIOUS
  <2>1. Head(wq) = Head(W)
    BY <1>1, <1>2, AppendTail
  <2>2. Head(W) \in Elems(W)
    BY <1>1, PopQueue
  <2> QED
    BY <1>1, <1>2, <2>1, <2>2
<1>5. wq # <<>> /\ Elems(Tail(wq)) = {}
  BY <1>1, <1>2, <1>4 DEF Elems
<1>6. Elems(ttyWriteQueues[t]) \subseteq Elems(wq)
  BY <1>3
<1> HIDE DEF wq
<1>7. First(t, wq)
  BY <1>1, <1>2, <1>3, <1>5, <1>6 DEF First
<1> DEFINE n == 0
<1>8. /\ len \in Nat /\ n \in Nat /\ WriteLoop(t, len, n, wq)
      /\ n > 0 => last[t] = activePCB
  BY <1>2, LengthTypes
<1> HIDE DEF n
<1> QED
  BY <1>3, <1>7, <1>8, WriteLoopTurns

\* KernelTtyWrite, when the writer has been woken: it is first in the queue,
\* although it does not test that again.
LEMMA ResumeWriteTurns ==
  ASSUME StreamInv, Turns, ResumeTtyWrite
  PROVE  Turns'
<1> DEFINE c == call[activePCB]
           t == c.tty
           wq == ttyWriteQueues[t]
<1>1. /\ activePCB \in PCB /\ pc[activePCB] = "ttywrite"
      /\ t \in Terminals /\ c.bytes_left \in Nat /\ c.bytes_written \in Nat
  BY DEF ResumeTtyWrite, ContinuesAt, StreamInv, Calling, Contexts, TypeOK, SchedTypeOK
<1>2. activePCB \in Proc
  BY <1>1 DEF Turns, InCall, Contexts, PCB
<1>3. activePCB \in Elems(wq) /\ (c.bytes_written > 0 => last[t] = activePCB)
  BY <1>1, <1>2 DEF Turns, InCall
<1>4. WriteLoop(t, c.bytes_left, c.bytes_written, wq)
  BY DEF ResumeTtyWrite
<1>5. /\ wq \in Seq(Proc) /\ NoDup(wq) /\ \A p \in Elems(wq) : Writer(p, t)
      /\ wq # <<>> => \A p \in Elems(Tail(wq)) :
           blocked_code[p] = BLOCKED_TTY_WRITE /\ call[p].bytes_written = 0
  BY <1>1, NotQueued DEF Turns, Writers, WritersAt
<1>6. \A u \in Terminals : u # t => activePCB \notin Elems(ttyWriteQueues[u])
  BY DEF Turns, Writers, WritersAt, Writer
<1>7. Elems(ttyWriteQueues[t]) \subseteq Elems(wq)
  OBVIOUS
<1> HIDE DEF c, t, wq
<1>8. wq # <<>>
  BY <1>3 DEF Elems
<1>9. Elems(wq) = Elems(Tail(wq)) \cup {Head(wq)}
  BY <1>5, <1>8, PopQueue
<1>10. Head(wq) = activePCB
  <2>1. blocked_code[activePCB] = NOT_BLOCKED
    BY <1>2 DEF Turns, OnceReady
  <2> QED
    BY <1>3, <1>5, <1>8, <1>9, <2>1 DEF NOT_BLOCKED, BLOCKED_TTY_WRITE
<1>11. \A p \in Elems(Tail(wq)) :
         Writer(p, t) /\ blocked_code[p] = BLOCKED_TTY_WRITE /\ call[p].bytes_written = 0
  BY <1>5, <1>8, <1>9
<1>12. First(t, wq)
  BY <1>1, <1>2, <1>5, <1>6, <1>7, <1>8, <1>10, <1>11 DEF First
<1> QED
  BY <1>1, <1>3, <1>4, <1>5, <1>12, WriteLoopTurns

-----------------------------------------------------------------------------
(* The theorems.                                                           *)

\* No step of the kernel disturbs the turns.
LEMMA StepTurns ==
  ASSUME StreamInv, Turns, WholeLines, [Next]_vars
  PROVE  Turns'
<1>1. CASE (Clock \/ Delay \/ Resume) /\ UNCHANGED <<readside, writeside, call>>
  BY <1>1, SchedTurns
<1>2. CASE TtyRead
  <2>1. PICK t \in Terminals, len \in ReadLens :
          KernelTtyReadNow(t, len) \/ KernelTtyReadBlock(t, len)
    BY <1>2 DEF TtyRead
  <2>2. CASE KernelTtyReadNow(t, len)
    <3>1. /\ TakeLine(t, len) /\ UNCHANGED <<pc, call>> /\ pc[activePCB] = "user"
          /\ ttyReadQueues[t] = <<>>
      BY <2>2 DEF KernelTtyReadNow, MustWait, UserProgram, UserMode
    <3> QED
      BY <3>1, TakeTurns
  <2>3. CASE KernelTtyReadBlock(t, len)
    BY <2>3, ReadBlockTurns
  <2> QED
    BY <2>1, <2>2, <2>3
<1>3. CASE ResumeTtyRead
  <2> DEFINE t == call[activePCB].tty
             len == call[activePCB].len
  <2>1. pc[activePCB] = "ttyread" /\ activePCB \in PCB /\ t \in Terminals
    BY <1>3 DEF ResumeTtyRead, ContinuesAt, StreamInv, Calling, Contexts, TypeOK, SchedTypeOK
  <2>2. len \in ReadLens
    BY <2>1 DEF Turns, InCall, Contexts, PCB
  <2>3. /\ TakeLine(t, len) /\ ToUser /\ call' = [call EXCEPT ![activePCB] = NoCall]
    BY <1>3 DEF ResumeTtyRead
  <2>4. Reader(activePCB, t)
    BY <2>1 DEF Reader
  <2> HIDE DEF t, len
  <2> QED
    BY <2>1, <2>2, <2>3, <2>4, TakeTurns
<1>4. CASE Receive
  BY <1>4, ReceiveTurns DEF Receive
<1>5. CASE TtyWrite
  BY <1>5, WriteFirstTurns, WriteBlockTurns DEF TtyWrite
<1>6. CASE ResumeTtyWrite
  BY <1>6, ResumeWriteTurns
<1>7. CASE Transmitted
  BY <1>7, TransmittedTurns DEF Transmitted
<1>8. CASE UNCHANGED vars
  BY <1>8 DEF vars, sched, readside, writeside, Turns, OnceReady, Readers, Reader,
     OneLine, Writers, WritersAt, Writer, InCall
<1> QED
  BY <1>1, <1>2, <1>3, <1>4, <1>5, <1>6, <1>7, <1>8 DEF Next

\* Terminals, when nobody reads, or two processes read whole lines: a process that runs or
\* waits for the CPU is there once and not blocked, and the write queue of a
\* terminal says whose turn it is.
THEOREM TurnInvariant == Spec => []TurnInv
<1>1. Init => TurnInv
  <2> SUFFICES ASSUME Init
               PROVE  Turns
    BY DEF TurnInv
  <2>1. OnceReady
    <3>1. NoDup(ready_q) /\ idle \notin Elems(ready_q)
      BY NProcAssumption DEF Init, SchedInit, Proc, NoDup, Elems, idle
    <3> QED
      BY <3>1 DEF Init, SchedInit, OnceReady, PCB
  <2>2. Elems(<<>>) = {} /\ NoDup(<<>>)
    BY DEF Elems, NoDup
  <2>3. Readers /\ OneLine /\ Writers
    BY <2>2 DEF Init, Readers, OneLine, Writers, WritersAt
  <2>4. InCall
    BY DEF Init, SchedInit, InCall, Contexts, PCB
  <2> QED
    BY <2>1, <2>3, <2>4 DEF Turns
<1>2. StreamInv /\ TurnInv /\ [Next]_vars => TurnInv'
  <2>1. WholeLines' = WholeLines
    BY DEF WholeLines
  <2> QED
    BY <2>1, StepTurns DEF TurnInv
<1> QED
  BY <1>1, <1>2, StreamInvariant, PTL DEF Spec

\* KernelTtyWrite: between two chunks of one call no other process transmits
\* on the terminal, although the writer gives up the CPU for each of them.
THEOREM WriteNotInterleavedCorrect == Spec => []WriteNotInterleaved
<1>1. TurnInv => WriteNotInterleaved
  BY DEF TurnInv, Turns, InCall, WriteNotInterleaved
<1> QED
  BY <1>1, TurnInvariant, PTL

\* The handlers of terminals and the clock put no process into ready_q that
\* is there already, that runs, or that is still queued to read.
THEOREM ScheduledOnceCorrect == Spec => []ScheduledOnce
<1>1. StreamInv /\ TurnInv => ScheduledOnce
  <2> SUFFICES ASSUME StreamInv, TurnInv
               PROVE  ScheduledOnce
    OBVIOUS
  <2>1. ASSUME Turns, NEW t \in Terminals
        PROVE  Elems(ttyReadQueues[t]) \cap ({activePCB} \cup Elems(ready_q)) = {}
    <3>1. \A p \in Elems(ttyReadQueues[t]) : p \in Proc /\ blocked_code[p] # NOT_BLOCKED
      BY <2>1, NotQueued DEF Turns, Readers, NOT_BLOCKED, BLOCKED_TTY_READ
    <3> QED
      BY <2>1, <3>1 DEF Turns, OnceReady
  <2> QED
    BY <2>1 DEF ScheduledOnce, StreamInv, TurnInv, Turns, OnceReady
<1> QED
  BY <1>1, StreamInvariant, TurnInvariant, PTL

=============================================================================
