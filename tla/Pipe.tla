-------------------------------- MODULE Pipe --------------------------------
(***************************************************************************)
(* Pipes: PipeInit, PipeRead, PipeWrite and the reclaiming of a pipe       *)
(* (syscalls.c, pipe.c), on top of the scheduler of module Sched.          *)
(*                                                                         *)
(* A pipe is named by its place in the order of creation, as the code has  *)
(* a pointer; its id is a field, and the id of a removed pipe is used      *)
(* again.  being_used is left out: a handler sets it and clears it again   *)
(* without calling SwapProcess in between, so no handler ever finds it     *)
(* set.                                                                    *)
(***************************************************************************)
EXTENDS Sched, SequencesExt

CONSTANTS
  PIPE_BUFFER_LEN,
  HeadId,       \* the id of the head of the list, MAX_LOCKS + MAX_CVARS + 1
  MaxPipes,     \* bound: how many pipes are made
  MaxBytes,     \* bound: how many bytes are written to all pipes
  ReadLens, WriteLens,  \* the lengths given to PipeRead and PipeWrite
  BadIds        \* ids that are tried besides those of existing pipes

ASSUME PipeAssumption ==
  /\ PIPE_BUFFER_LEN \in Nat \ {0} /\ HeadId \in Nat
  /\ MaxPipes \in Nat /\ MaxBytes \in Nat
  /\ ReadLens \cup WriteLens \subseteq 0 .. PIPE_BUFFER_LEN
  /\ BadIds \subseteq Int

VARIABLES
  pipes,      \* the list from head_pipe->next on, as a sequence of pipes
  created,    \* how many pipes were made
  id,         \* field of a pipe
  buf,        \* field: the first plen bytes of the buffer
  queue,      \* field: the processes waiting
  pid,        \* PCB field
  call,       \* the pipe and the length a blocked PipeRead was called with
  crashed,    \* the kernel used a pointer that is NULL, uninitialised or freed
  accepted, delivered,  \* history: the bytes written to and read from a pipe
  crowded     \* history: Crowded was true at some time

pipevars == <<pipes, created, id, buf, queue>>
history  == <<accepted, delivered>>
vars     == <<sched, pipevars, pid, call, crashed, history, crowded>>

Ptr == 1 .. MaxPipes
NoCall == [pipe |-> 0, len |-> 0]

TypeOK ==
  /\ SchedTypeOK({"piperead"})
  /\ pipes \in Seq(Ptr) /\ created \in 0 .. MaxPipes
  /\ id \in [Ptr -> Nat]
  /\ \A x \in Ptr : Len(buf[x]) <= PIPE_BUFFER_LEN
  /\ queue \in [Ptr -> Seq(Proc)]
  /\ pid \in [PCB -> PCB]
  /\ call \in [PCB -> [pipe : 0 .. MaxPipes, len : 0 .. PIPE_BUFFER_LEN]]
  /\ crashed \in BOOLEAN

Init ==
  /\ SchedInit
  /\ pipes = <<>> /\ created = 0
  /\ id = [x \in Ptr |-> HeadId]
  /\ buf = [x \in Ptr |-> <<>>]
  /\ queue = [x \in Ptr |-> <<>>]
  /\ pid = [p \in PCB |-> p]
  /\ call = [p \in PCB |-> NoCall]
  /\ crashed = FALSE
  /\ accepted = [x \in Ptr |-> <<>>] /\ delivered = [x \in Ptr |-> <<>>]
  /\ crowded = FALSE

Calls == UserProgram /\ ~crashed

-----------------------------------------------------------------------------
(* The list of pipes.                                                      *)

\* Mutant of NextId: the number of pipes in place of the last pipe's id.
NextId_Count == HeadId + Len(pipes) + 1

\* The id of the last pipe in the list, or of its head, plus one.
NextId == IF pipes = <<>> THEN HeadId + 1 ELSE id[pipes[Len(pipes)]] + 1

\* get_pipe: the first pipe in the list that has this id.
Matching(n) == {i \in DOMAIN pipes : id[pipes[i]] = n}
Position(n) == CHOOSE i \in Matching(n) : \A j \in Matching(n) : i <= j
GetPipe(n)  == pipes[Position(n)]

\* A new pipe at the end of the list.
add_pipe ==
  /\ created < MaxPipes
  /\ created' = created + 1
  /\ pipes' = Append(pipes, created + 1)
  /\ id' = [id EXCEPT ![created + 1] = NextId]

KernelPipeInit ==
  /\ Calls
  /\ add_pipe
  /\ UNCHANGED <<sched, buf, queue, pid, call, crashed, history>>

\* KernelReclaim with the id of a pipe, and remove_pipe.  Nobody is woken.
KernelReclaimPipe(n) ==
  /\ Calls
  /\ Matching(n) # {}
  /\ pipes' = RemoveAt(pipes, Position(n))
  /\ UNCHANGED <<sched, created, id, buf, queue, pid, call, crashed, history>>

Ids == {id[pipes[i]] : i \in DOMAIN pipes}

-----------------------------------------------------------------------------
(* Waking.  s holds the PCB fields and the queues while the handler works. *)
(* Both tests whether a process taken off blocked_q is the one to wake are *)
(* assignments: the process gets the pid of the one to wake and the test   *)
(* succeeds, since that pid is not 0.                                      *)

NowWithPids == [code |-> blocked_code, pid |-> pid, ready |-> ready_q,
                blocked |-> blocked_q, waiters |-> <<>>]

\* Mutant of Renamed: the pid of the running process.
Renamed_Active(s, q, w) ==
  [p \in PCB |-> IF p \in Elems(q) THEN s.pid[activePCB] ELSE s.pid[p]]

\* `curr_pcb->pid = process_to_wake->pid` for each of the processes in q.
Renamed(s, q, w) == [p \in PCB |-> IF p \in Elems(q) THEN s.pid[w] ELSE s.pid[p]]

\* The head of the queue is woken, and the head of blocked_q is dropped: a
\* read that leaves something to read.
WakeReader(q) ==
  LET w == Head(q)  b == PopSeq(blocked_q)
  IN  [NowWithPids EXCEPT
         !.waiters = Tail(q), !.code[w] = NOT_BLOCKED,
         !.pid = Renamed(NowWithPids, b, w),
         !.blocked = AfterPop(@), !.ready = Append(@, w)]

\* The head of blocked_q is made ready: a read that empties the pipe.  The
\* test for a waiting writer is an assignment too.
WakeWriter(q) ==
  LET w == Head(q)  b == PopSeq(blocked_q)
  IN  [NowWithPids EXCEPT
         !.waiters = Tail(q), !.code[w] = NOT_BLOCKED,
         !.pid = Renamed(NowWithPids, b, w),
         !.blocked = AfterPop(@), !.ready = @ \o b]

\* `for (i = 0; i < queue->size; i++)` around a queue_pop: how many are popped.
HalfOf(q) == (Len(q) + 1) \div 2

\* The broadcast of KernelPipeWrite for one waiter w: the first half of
\* blocked_q is made ready.
WakeHalf(s, w) ==
  LET b == SubSeq(s.blocked, 1, HalfOf(s.blocked))
  IN  [s EXCEPT !.code[w] = NOT_BLOCKED, !.pid = Renamed(s, b, w),
                !.blocked = SubSeq(@, HalfOf(@) + 1, Len(@)),
                !.ready = @ \o b]

\* Mutant of Broadcast: nobody is woken.
Broadcast_Nobody(q) == [NowWithPids EXCEPT !.waiters = q]

\* The broadcast for the first half of the pipe's queue.
Broadcast(q) ==
  LET n == HalfOf(q)
      s[i \in 0 .. n] == IF i = 0 THEN NowWithPids ELSE WakeHalf(s[i - 1], q[i])
  IN  [s[n] EXCEPT !.waiters = SubSeq(q, n + 1, Len(q))]

Woken(x, s) ==
  /\ queue' = [queue EXCEPT ![x] = s.waiters]
  /\ blocked_code' = s.code /\ pid' = s.pid
  /\ ready_q' = s.ready /\ blocked_q' = s.blocked

-----------------------------------------------------------------------------
(* Reading and writing.                                                    *)

\* Mutant of Taken: one byte more than asked for leaves the buffer.
Taken_OneMore(x, len) == SubSeq(buf[x], len + 2, Len(buf[x]))

\* What a read of len bytes leaves in the pipe.
Taken(x, len) == SubSeq(buf[x], len + 1, Len(buf[x]))

\* Who is woken by a read that leaves rest in the pipe.
AfterRead(rest, q) ==
  IF q = <<>> THEN NowWithPids
  ELSE IF rest # <<>> THEN WakeReader(q) ELSE WakeWriter(q)

\* KernelPipeRead from the end of its waiting loop on.
ReadNow(x, len) ==
  /\ buf' = [buf EXCEPT ![x] = Taken(x, len)]
  /\ delivered' = [delivered EXCEPT ![x] =
                     @ \o SubSeq(buf[x], 1, IF len < Len(buf[x]) THEN len ELSE Len(buf[x]))]
  /\ Woken(x, AfterRead(Taken(x, len), queue[x]))
  /\ ToUser
  /\ call' = [call EXCEPT ![activePCB] = NoCall]
  /\ UNCHANGED <<activePCB, clock_ticks, tty_terminal, pipes, created, id,
                 crashed, accepted>>

\* One turn of the waiting loop.
ReadBlock(x, len) ==
  /\ blocked_code' = [blocked_code EXCEPT ![activePCB] = BLOCKED_PIPE_READ]
  /\ queue' = [queue EXCEPT ![x] = Append(@, activePCB)]
  /\ blocked_q' = Joined(blocked_q)
  /\ SwapProcess(ready_q, "piperead")
  /\ call' = [call EXCEPT ![activePCB] = [pipe |-> x, len |-> len]]
  /\ UNCHANGED <<clock_ticks, tty_terminal, pipes, created, id, buf, pid,
                 crashed, history>>

\* An id that no pipe has, a length that is negative or above
\* PIPE_BUFFER_LEN and a NULL buffer give ERROR.
KernelPipeRead(n, len) ==
  /\ Calls
  /\ Matching(n) # {}
  /\ LET x == GetPipe(n)
     IN  IF buf[x] = <<>> THEN ReadBlock(x, len) ELSE ReadNow(x, len)

\* Back from SwapProcess: the loop tests the pipe again.
ResumePipeRead ==
  LET c == call[activePCB]
  IN
  /\ ContinuesAt("piperead") /\ ~crashed
  /\ c.pipe \in Elems(pipes)
  /\ IF buf[c.pipe] = <<>> THEN ReadBlock(c.pipe, c.len) ELSE ReadNow(c.pipe, c.len)

\* The pipe was freed while the process waited.
ResumeFreed ==
  /\ ContinuesAt("piperead") /\ ~crashed
  /\ call[activePCB].pipe \notin Elems(pipes)
  /\ crashed' = TRUE
  /\ UNCHANGED <<sched, pipevars, pid, call, history>>

\* The bytes are numbered, so that each is different.
Bytes(x, n) == [i \in 1 .. n |-> Len(accepted[x]) + i]

\* The bytes for which there is room.
Accepted(x, len) ==
  LET available_space == PIPE_BUFFER_LEN - Len(buf[x])
  IN  Bytes(x, IF available_space >= len THEN len ELSE available_space)

\* How much has been written to all pipes.
Written == FoldFunction(LAMBDA bytes, sum : sum + Len(bytes), 0, accepted)

KernelPipeWrite(n, len) ==
  LET x == GetPipe(n)
  IN
  /\ Calls
  /\ Matching(n) # {}
  /\ Written + len <= MaxBytes
  /\ buf' = [buf EXCEPT ![x] = @ \o Accepted(x, len)]
  /\ accepted' = [accepted EXCEPT ![x] = @ \o Accepted(x, len)]
  /\ Woken(x, Broadcast(queue[x]))
  /\ UNCHANGED <<activePCB, clock_ticks, tty_terminal, pc, pipes, created, id,
                 call, crashed, delivered>>

\* A positive id that no pipe has: the NULL that get_pipe returns is used.
KernelPipeWriteNull(n) ==
  /\ Calls
  /\ n > 0
  /\ Matching(n) = {} /\ n # HeadId
  /\ crashed' = TRUE
  /\ UNCHANGED <<sched, pipevars, pid, call, history>>

\* The id of the head of the list: get_pipe and remove_pipe find the head,
\* which has a queue that was never set, and no pipe before it.
UseHead ==
  /\ Calls
  /\ HeadId \in BadIds
  /\ crashed' = TRUE
  /\ UNCHANGED <<sched, pipevars, pid, call, history>>

-----------------------------------------------------------------------------

PipeRead  == \E n \in Ids, len \in ReadLens : KernelPipeRead(n, len)
PipeWrite == \E n \in Ids, len \in WriteLens : KernelPipeWrite(n, len)
BadWrite  == \E n \in BadIds : KernelPipeWriteNull(n)
Reclaim   == \E n \in BadIds : KernelReclaimPipe(n)

Scheduling ==
  /\ TrapClock \/ TrapClockIdle({}) \/ ResumeClock({}) \/ ResumeUser \/ Delay
  /\ ~crashed
  /\ UNCHANGED <<pipevars, pid, call, crashed, history>>

Step ==
  \/ Scheduling \/ KernelPipeInit \/ PipeRead \/ ResumePipeRead \/ ResumeFreed
  \/ PipeWrite \/ BadWrite \/ Reclaim \/ UseHead

\* The wake-up loops take the head of blocked_q for the process they look
\* for.  It may be another one when there is a second pipe, when a process is
\* in Delay, and when more than two processes wait: a write would make the
\* second of three ready under the pid of the first.
Crowded ==
  \/ created > 1
  \/ \E p \in Elems(blocked_q) : blocked_code[p] = BLOCKED_DELAY
  \/ \E x \in Ptr : Len(queue[x]) > 2

Next == Step /\ crowded' = (crowded \/ Crowded')

Spec == Init /\ [][Next]_vars

-----------------------------------------------------------------------------
(* Properties.                                                             *)

\* A pipe is a stream of bytes, whoever reads and writes it, in whichever
\* order, and whoever is woken by mistake.
PipeStream == INSTANCE ByteStream WITH Streams <- Ptr,
                Capacity <- PIPE_BUFFER_LEN

PipeIsStream == PipeStream!Spec

\* Two pipes in the list never have the same id, although remove_pipe takes
\* pipes out of the middle of the list and ids are used again.
PipeIdsDistinct ==
  \A i, j \in DOMAIN pipes : id[pipes[i]] = id[pipes[j]] => i = j

\* Until a second pipe is made, a process delays itself or a third process
\* waits, nobody is left waiting to read a pipe that has something to read: a
\* reader that PipeWrite or PipeRead has woken has yet to run, and will wake
\* the next one if it leaves anything.
NoLostReader ==
  ~crowded => \A x \in Ptr : buf[x] # <<>> /\ queue[x] # <<>> =>
    \E p \in {activePCB} \cup Elems(ready_q) :
      pc[p] = "piperead" /\ call[p].pipe = x

\* Until then, too, a process keeps the pid it was given: the process that is
\* taken for the one to wake is the one.  Every variable has its type
\* throughout.
PidsKept == TypeOK /\ (~crowded => \A p \in PCB : pid[p] = p)

=============================================================================
